--------------------------- MODULE PipelineProofs ---------------------------
(***************************************************************************)
(* Proofs about the pipeline, for every program, every address space and   *)
(* every behaviour of the buses and of the interrupt lines.                *)
(***************************************************************************)
EXTENDS PipelineProps, TLAPS

\* The next address is an address.
LEMMA Plus4Type == ASSUME NEW a \in Addr PROVE Plus4(a) \in Addr
  BY AddrAssumption DEF Addr, Plus4

LEMMA ResetAddr == 0 \in Addr /\ PcInit \in Addr
  BY AddrAssumption DEF Addr

\* Zero and Nil are no addresses.
LEMMA NotAddr == Zero \notin Addr /\ Nil \notin Addr /\ Zero # Nil
  BY DEF Addr, Zero, Nil
-----------------------------------------------------------------------------
(* The units keep their types.                                             *)

\* The fetch unit keeps its types if the redirect and the word have theirs.
LEMMA FetchType ==
  ASSUME FetchTypeOK, NEW stall, NEW redirect \in Addr \cup {Nil},
         NEW consume, NEW ok, NEW w \in Words,
         FetchClock(stall, redirect, consume, ok, w)
  PROVE  FetchTypeOK'
<1> USE DEF FetchTypeOK, FetchStates
<1>1. CASE FetchStalled(redirect)
  BY <1>1 DEF FetchStalled
<1>2. CASE FetchRedirect(redirect)
  BY <1>2, ResetAddr DEF FetchRedirect, EffectiveRedirect, Words
<1>3. CASE FetchNewInstr
  BY <1>3, Plus4Type, ResetAddr DEF FetchNewInstr
<1>4. CASE FetchAligned
  BY <1>4 DEF FetchAligned
<1>5. CASE FetchMisaligned
  BY <1>5 DEF FetchMisaligned, Words
<1>6. CASE FetchExec(ok, w)
  BY <1>6 DEF FetchExec
<1>7. CASE FetchCommit(consume)
  BY <1>7 DEF FetchCommit
<1>8. QED
  BY <1>1, <1>2, <1>3, <1>4, <1>5, <1>6, <1>7 DEF FetchClock

\* The multiply and divide control keeps its types.
LEMMA MduType ==
  ASSUME MduTypeOK, NEW req \in Addr \cup {Nil}, NEW last,
         MduClock(req, last)
  PROVE  MduTypeOK'
  BY DEF MduTypeOK, MduClock, MduAccept, MduIterate, MduRelease, mduVars

\* A CSR instruction leaves every CSR with a value of its type.
LEMMA CsrWriteType ==
  ASSUME TrapTypeOK, NEW write \in CsrWrites \cup {NoWrite}, CsrWrite(write)
  PROVE  TrapTypeOK'
<1>1. /\ write.csr = "mstatus" => write.value \in Mstatus
      /\ write.csr = "mie" => write.value \in BOOLEAN
      /\ write.csr \in {"mtvec", "stvec", "mepc", "sepc"} => write.value \in Addr
      /\ write.csr = "medeleg" => write.value \in SUBSET Delegable
      /\ write.csr = "satp" => write.value \in Addr \cup {Nil}
  BY DEF CsrWrites, NoWrite, Vectors
<1>2. QED
  BY <1>1 DEF TrapTypeOK, CsrWrite

\* The trap unit keeps its types.
LEMMA TrapType ==
  ASSUME TrapTypeOK, NEW trap, NEW cause \in Causes, NEW pc \in Addr,
         NEW mret, NEW sret, NEW write \in CsrWrites \cup {NoWrite},
         TrapClock(trap, cause, pc, mret, sret, write)
  PROVE  TrapTypeOK'
<1>1. CASE TrapToS(cause, pc) /\ UNCHANGED <<mie, mtvec, stvec, medeleg, satp>>
  BY <1>1 DEF TrapTypeOK, TrapToS, Mstatus, Modes
<1>2. CASE TrapToM(cause, pc) /\ UNCHANGED <<mie, mtvec, stvec, medeleg, satp>>
  BY <1>2 DEF TrapTypeOK, TrapToM, Mstatus, Modes
<1>3. CASE Mret /\ UNCHANGED <<mie, mtvec, stvec, medeleg, satp>>
  BY <1>3 DEF TrapTypeOK, Mret, Mstatus, Modes
<1>4. CASE Sret /\ UNCHANGED <<mie, mtvec, stvec, medeleg, satp>>
  BY <1>4 DEF TrapTypeOK, Sret, Mstatus, Modes
<1>5. CASE CsrWrite(write)
  BY <1>5, CsrWriteType
<1>6. QED
  BY <1>1, <1>2, <1>3, <1>4, <1>5 DEF TrapClock
-----------------------------------------------------------------------------
(* The types of the whole pipeline.                                        *)

\* A decoded instruction is stored at an address.
LEMMA OpNeedsWord ==
  ASSUME NEW slot \in Slot, OpOf(slot) # "nop"
  PROVE  slot.instr \in Addr
  BY DEF Slot, OpOf, Words

\* Whatever redirects fetch is an address.
LEMMA RedirectType ==
  ASSUME PipeTypeOK, NEW in \in Inputs
  PROVE  FinalRedirect(in) \in Addr \cup {Nil}
  BY DEF PipeTypeOK, TrapTypeOK, FinalRedirect, TrapRedirect, BranchValid, Inputs

\* Causes and pcs of traps have their types.
LEMMA CauseType == ASSUME PipeTypeOK PROVE TrapCause \in Causes
  BY DEF TrapCause, TrapCode, Causes, Exceptions, IrqCause

LEMMA TrapPcType == ASSUME PipeTypeOK PROVE TrapPc \in Addr
  BY DEF PipeTypeOK, TrapPc, Slot

\* What a CSR instruction in write-back writes has its type.
LEMMA WriteType ==
  ASSUME PipeTypeOK
  PROVE  (IF W.valid /\ OpOf(W) = "csrw" THEN CsrArg[W.instr] ELSE NoWrite)
            \in CsrWrites \cup {NoWrite}
<1>1. CASE OpOf(W) = "csrw"
  BY <1>1, OpNeedsWord, ProgramAssumption DEF PipeTypeOK
<1>2. CASE OpOf(W) # "csrw"
  BY <1>2
<1>3. QED
  BY <1>1, <1>2

\* The updates of the pipeline registers, as facts about any slot.
LEMMA BubbleType == Bubble \in Slot
  BY ResetAddr DEF Bubble, Slot, Words

LEMMA DecodeType ==
  ASSUME NEW pc \in Addr, NEW w \in Words, NEW x \in BOOLEAN, NEW f \in BOOLEAN
  PROVE  [Bubble EXCEPT !.valid = TRUE, !.pc = pc, !.instr = w, !.iexc = x,
                        !.ipf = f] \in Slot
  BY BubbleType DEF Slot

LEMMA FlushType ==
  ASSUME NEW f \in BOOLEAN PROVE [Bubble EXCEPT !.ipf = f] \in Slot
  BY BubbleType DEF Slot

LEMMA ExecuteType ==
  ASSUME NEW slot \in Slot, NEW x \in BOOLEAN, NEW a \in Addr \cup {Nil},
         NEW v \in Addr \cup {Zero, Nil}
  PROVE  [slot EXCEPT !.iexc = x, !.alu = a, !.val = v] \in Slot
  BY DEF Slot

LEMMA AccessType ==
  ASSUME NEW slot \in Slot, NEW x \in BOOLEAN, NEW f \in BOOLEAN,
         NEW v \in Addr \cup {Zero, Nil}
  PROVE  [slot EXCEPT !.dexc = x, !.dpf = f, !.val = v] \in Slot
  BY DEF Slot

\* The pipeline registers keep their types.
LEMMA SlotType ==
  ASSUME PipeTypeOK, NEW in \in Inputs,
         IfIdClock(in), IdExClock(in), ExMemClock(in), MemWbClock(in)
  PROVE  /\ D' \in Slot /\ E' \in Slot
         /\ M' \in Slot /\ W' \in Slot
<1>1. D' \in Slot
  <2>1. (in.fault = "FETCH") \in BOOLEAN /\ D \in Slot
        /\ fPc \in Addr /\ fInstr \in Words /\ fExc \in BOOLEAN
    BY DEF PipeTypeOK, FetchTypeOK
  <2>2. [Bubble EXCEPT !.valid = TRUE, !.pc = fPc, !.instr = fInstr,
                       !.iexc = fExc, !.ipf = in.fault = "FETCH"] \in Slot
    BY <2>1, DecodeType
  <2>3. QED
    BY <2>1, <2>2, BubbleType DEF IfIdClock
<1>2. E' \in Slot
  <2>1. E.ipf \in BOOLEAN /\ D \in Slot /\ E \in Slot
    BY DEF PipeTypeOK, Slot
  <2>2. [Bubble EXCEPT !.ipf = E.ipf] \in Slot
    BY <2>1, FlushType
  <2>3. QED
    BY <2>1, <2>2 DEF IdExClock
<1>3. M' \in Slot
  <2> DEFINE bad  == E.iexc \/ (E.valid /\ BranchValid(in) /\ Misaligned(in.ex))
             mine == IF OpOf(E) = "mdu" THEN mduFor ELSE Zero
  <2>1. E \in Slot /\ M \in Slot
    BY DEF PipeTypeOK
  <2>2. bad \in BOOLEAN
    BY <2>1 DEF Slot
  <2>3. mine \in Addr \cup {Zero, Nil} /\ in.ex \in Addr \cup {Nil}
    BY DEF PipeTypeOK, MduTypeOK, Inputs
  <2>4. [E EXCEPT !.iexc = bad, !.alu = in.ex, !.val = mine] \in Slot
    BY ONLY <2>1, <2>2, <2>3, ExecuteType, Zenon
  <2>5. QED
    BY <2>1, <2>4, BubbleType, Zenon DEF ExMemClock
<1>4. W' \in Slot
  <2> DEFINE fault == in.fault \in {"LOAD", "STORE"}
             mine  == IF OpOf(M) = "load" THEN in.dval ELSE M.val
  <2>1. M \in Slot /\ W \in Slot
    BY DEF PipeTypeOK
  <2>2. DataMisaligned(M) \in BOOLEAN /\ fault \in BOOLEAN
    BY DEF DataMisaligned
  <2>3. mine \in Addr \cup {Zero, Nil}
    BY <2>1 DEF Inputs, Slot
  <2>4. [M EXCEPT !.dexc = DataMisaligned(M), !.dpf = fault, !.val = mine] \in Slot
    BY ONLY <2>1, <2>2, <2>3, AccessType, Zenon
  <2>5. QED
    BY <2>1, <2>4, Zenon DEF MemWbClock
<1>5. QED
  BY <1>1, <1>2, <1>3, <1>4

LEMMA LastPcType == ASSUME PipeTypeOK, LastPcClock PROVE lastPc' \in Addr
  BY Plus4Type DEF PipeTypeOK, FetchTypeOK, LastPcClock, Slot

\* One clock edge keeps every type.
LEMMA PipeTypeStep ==
  ASSUME PipeTypeOK, NEW in \in Inputs, PipeClock(in)
  PROVE  PipeTypeOK'
<1>1. FetchTypeOK'
  <2>1. in.iword \in Words
    BY DEF Inputs
  <2>2. QED
    BY <2>1, FetchType, RedirectType DEF PipeTypeOK, PipeClock
<1>2. TrapTypeOK'
  BY TrapType, CauseType, TrapPcType, WriteType DEF PipeTypeOK, PipeClock
<1>3. MduTypeOK'
  <2>1. (IF E.valid /\ OpOf(E) = "mdu" THEN E.pc ELSE Nil) \in Addr \cup {Nil}
    BY DEF PipeTypeOK, Slot
  <2>2. QED
    BY <2>1, MduType DEF PipeTypeOK, PipeClock
<1>4. D' \in Slot /\ E' \in Slot /\ M' \in Slot /\ W' \in Slot
  BY SlotType DEF PipeClock
<1>5. lastPc' \in Addr
  BY LastPcType DEF PipeClock
<1>6. QED
  BY <1>1, <1>2, <1>3, <1>4, <1>5 DEF PipeTypeOK

LEMMA PipeTypeInit == PipeInit => PipeTypeOK
<1> SUFFICES ASSUME PipeInit PROVE PipeTypeOK
  OBVIOUS
<1>1. FetchTypeOK
  BY ResetAddr DEF PipeInit, FetchInit, FetchTypeOK, FetchStates, Words
<1>2. TrapTypeOK
  BY ResetAddr DEF PipeInit, TrapInit, TrapTypeOK, Mstatus, Modes, Causes,
                   ResetCause, Exceptions
<1>3. MduTypeOK
  BY DEF PipeInit, MduInit, MduTypeOK
<1>4. QED
  BY <1>1, <1>2, <1>3, BubbleType, ResetAddr DEF PipeInit, PipeTypeOK

\* Every register of datapath.sv that steers the pipeline keeps its type,
\* whatever the buses answer.
THEOREM PipelineTypeCorrect == PipeSpec => []PipeTypeOK
<1>1. PipeTypeOK /\ [PipeNext]_pipeVars => PipeTypeOK'
  <2> SUFFICES ASSUME PipeTypeOK, [PipeNext]_pipeVars PROVE PipeTypeOK'
    OBVIOUS
  <2>1. CASE PipeNext
    BY <2>1, PipeTypeStep DEF PipeNext
  <2>2. CASE UNCHANGED pipeVars
    BY <2>2 DEF pipeVars, fetchVars, trapVars, mduVars, slotVars,
                PipeTypeOK, FetchTypeOK, TrapTypeOK, MduTypeOK
  <2>3. QED
    BY <2>1, <2>2
<1>2. QED
  BY PipeTypeInit, <1>1, PTL DEF PipeSpec
-----------------------------------------------------------------------------
(* One instruction in flight.                                              *)

LEMMA SpacingSuffices == ASSUME PipeTypeOK, PipeInv PROVE OneInFlight
  BY DEF PipeTypeOK, FetchTypeOK, FetchStates, PipeInv, Spacing, OneInFlight

\* Only an instruction jumps or stalls, a memory access never stalls in the
\* cycle of a trap, and load-use never does.
LEMMA Sources ==
  ASSUME PipeTypeOK, PipeInv, NEW in \in Inputs
  PROVE  /\ BranchValid(in) => E.valid
         /\ MduStall => E.valid /\ ~BranchValid(in)
         /\ MemStall(in) => M.valid /\ ~CommitRedirect(in)
         /\ ~LoadUseStall
<1>1. /\ BranchValid(in) => E.valid
      /\ MduStall => E.valid /\ ~BranchValid(in)
  BY DEF PipeInv, BubblesEmpty, BranchValid, OpOf, MduStall
<1>2. MemStall(in) => M.valid /\ ~CommitRedirect(in)
  BY DEF MemStall, MemReq, BusCancel, CommitRedirect
<1>3. ~LoadUseStall
  BY SpacingSuffices DEF PipeInv, BubblesEmpty, OneInFlight, LoadUseStall, OpOf
<1>4. QED
  BY <1>1, <1>2, <1>3

\* The valid bits after a clock edge.
LEMMA NextValid ==
  ASSUME PipeTypeOK, PipeInv, NEW in \in Inputs, PipeClock(in)
  PROVE  /\ D'.valid = IF BranchValid(in) \/ CommitRedirect(in) THEN FALSE
                       ELSE IF PcStall(in) THEN D.valid ELSE FetchValid
         /\ E'.valid = IF BranchValid(in) \/ CommitRedirect(in) THEN FALSE
                       ELSE IF ExMemStall(in) THEN E.valid ELSE D.valid
         /\ M'.valid = IF CommitRedirect(in) THEN FALSE
                       ELSE IF ExMemStall(in) THEN M.valid ELSE E.valid
         /\ W'.valid = IF MemStall(in) THEN W.valid ELSE M.valid
<1> USE DEF PipeTypeOK, Slot
<1>1. D'.valid = IF BranchValid(in) \/ CommitRedirect(in) THEN FALSE
                ELSE IF PcStall(in) THEN D.valid ELSE FetchValid
  BY DEF PipeClock, IfIdClock, Bubble, FetchValid
<1>2. E'.valid = IF BranchValid(in) \/ CommitRedirect(in) THEN FALSE
                ELSE IF ExMemStall(in) THEN E.valid ELSE D.valid
  BY Sources DEF PipeClock, IdExClock, Bubble
<1>3. M'.valid = IF CommitRedirect(in) THEN FALSE
                ELSE IF ExMemStall(in) THEN M.valid ELSE E.valid
  BY DEF PipeClock, ExMemClock, Bubble
<1>4. W'.valid = IF MemStall(in) THEN W.valid ELSE M.valid
  BY DEF PipeClock, MemWbClock
<1>5. QED
  BY <1>1, <1>2, <1>3, <1>4

\* A bubble stays empty on its way down the pipeline.
LEMMA BubblesStep ==
  ASSUME PipeTypeOK, PipeInv, NEW in \in Inputs, PipeClock(in)
  PROVE  BubblesEmpty'
<1> USE DEF PipeTypeOK, Slot, PipeInv, BubblesEmpty
<1>1. (~D.valid => D.instr = Zero)'
  BY DEF PipeClock, IfIdClock, Bubble
<1>2. (~E.valid => E.instr = Zero)'
  BY DEF PipeClock, IdExClock, Bubble
<1>3. (~M.valid => M.instr = Zero)'
  BY DEF PipeClock, ExMemClock, Bubble
<1>4. (~W.valid => W.instr = Zero)'
  BY DEF PipeClock, MemWbClock
<1>5. QED
  BY <1>1, <1>2, <1>3, <1>4

\* Fetch and the valid bits advance together: the invariant for each move of
\* the fetch unit.
LEMMA SpacingStep ==
  ASSUME PipeTypeOK, PipeInv, NEW in \in Inputs, PipeClock(in)
  PROVE  Spacing' /\ PendingAlone'
<1> DEFINE redirect == FinalRedirect(in)
           consume  == FetchValid /\ ~PcStall(in)
<1>1. FetchClock(PcStall(in), redirect, consume, in.iok, in.iword)
  BY DEF PipeClock
<1>2. PcStall(in) <=> MduStall \/ MemStall(in)
  BY Sources DEF PcStall
<1>3. ExMemStall(in) <=> MduStall \/ MemStall(in)
  BY DEF ExMemStall
<1>4. OneInFlight
  BY SpacingSuffices
<1>5. redirect = Nil => ~BranchValid(in)
  BY NotAddr DEF FinalRedirect, BranchValid, PipeTypeOK, TrapTypeOK, TrapRedirect
<1>6. redirect # Nil => BranchValid(in) \/ CommitRedirect(in)
  BY DEF FinalRedirect, CommitRedirect
<1>7. /\ D.valid \in BOOLEAN /\ E.valid \in BOOLEAN
      /\ M.valid \in BOOLEAN /\ W.valid \in BOOLEAN
      /\ fCur \in FetchStates
  BY DEF PipeTypeOK, FetchTypeOK, Slot
<1> HIDE DEF redirect, consume
<1> USE NextValid, Sources, <1>2, <1>3, <1>5, <1>6, <1>7
    DEF Spacing, PendingAlone, PipeInv, OneInFlight, FetchValid, FetchStates
<1>8. CASE PcStall(in) /\ FetchStalled(redirect)
  BY <1>4, <1>8 DEF FetchStalled
<1>9. CASE ~PcStall(in) /\ FetchRedirect(redirect)
  <2>1. CASE fPending # Nil
    BY <1>4, <1>9, <2>1 DEF FetchRedirect
  <2>2. CASE fPending = Nil
    BY <1>4, <1>9, <2>2 DEF FetchRedirect, EffectiveRedirect
  <2>3. QED
    BY <2>1, <2>2
<1>10. ASSUME ~PcStall(in), EffectiveRedirect(redirect) = Nil
       PROVE  redirect = Nil /\ fPending = Nil
  BY <1>10 DEF EffectiveRedirect
<1>11. CASE ~PcStall(in) /\ EffectiveRedirect(redirect) = Nil /\ FetchNewInstr
  BY <1>4, <1>10, <1>11 DEF FetchNewInstr
<1>12. CASE ~PcStall(in) /\ EffectiveRedirect(redirect) = Nil /\ FetchAligned
  BY <1>4, <1>10, <1>12 DEF FetchAligned
<1>13. CASE ~PcStall(in) /\ EffectiveRedirect(redirect) = Nil /\ FetchMisaligned
  BY <1>4, <1>10, <1>13 DEF FetchMisaligned
<1>14. CASE /\ ~PcStall(in) /\ EffectiveRedirect(redirect) = Nil
            /\ FetchExec(in.iok, in.iword)
  BY <1>4, <1>10, <1>14 DEF FetchExec
<1>15. CASE ~PcStall(in) /\ EffectiveRedirect(redirect) = Nil /\ FetchCommit(consume)
  BY <1>4, <1>10, <1>15 DEF FetchCommit, consume
<1>16. QED
  BY <1>1, <1>8, <1>9, <1>11, <1>12, <1>13, <1>14, <1>15 DEF FetchClock

\* PipeInv is inductive: no bus, interrupt or multiply can bring a second
\* instruction into the part of the pipeline where it would need forwarding,
\* a longer flush or a stall of its own.
THEOREM PipelineInvariant == PipeSpec => []PipeInv
<1>1. PipeInit => PipeInv
  BY DEF PipeInit, FetchInit, Bubble, PipeInv, BubblesEmpty, Spacing, PendingAlone
<1>2. PipeTypeOK /\ PipeInv /\ [PipeNext]_pipeVars => PipeInv'
  <2> SUFFICES ASSUME PipeTypeOK, PipeInv, [PipeNext]_pipeVars PROVE PipeInv'
    OBVIOUS
  <2>1. CASE PipeNext
    BY <2>1, BubblesStep, SpacingStep DEF PipeNext, PipeInv
  <2>2. CASE UNCHANGED pipeVars
    BY <2>2 DEF pipeVars, fetchVars, slotVars, PipeInv, BubblesEmpty, Spacing,
                PendingAlone
  <2>3. QED
    BY <2>1, <2>2
<1>3. QED
  BY PipelineTypeCorrect, <1>1, <1>2, PTL DEF PipeSpec

\* At most one instruction is between ID and WB, but for a write-back next to
\* a decode.
THEOREM PipelineOneInFlight == PipeSpec => []OneInFlight
<1>1. PipeTypeOK /\ PipeInv => OneInFlight
  BY SpacingSuffices
<1>2. QED
  BY PipelineTypeCorrect, PipelineInvariant, <1>1, PTL
-----------------------------------------------------------------------------
(* Operands are ready.                                                     *)

\* A clock edge keeps the distance of a fetched word from what is before it.
LEMMA OperandsStep ==
  ASSUME PipeTypeOK, PipeInv, FetchedAlone, OperandsReady, NEW in \in Inputs,
         PipeClock(in)
  PROVE  FetchedAlone' /\ OperandsReady'
<1> DEFINE consume == FetchValid /\ ~PcStall(in)
<1>1. FetchClock(PcStall(in), FinalRedirect(in), consume, in.iok, in.iword)
  BY DEF PipeClock
<1>2. /\ D.valid \in BOOLEAN /\ E.valid \in BOOLEAN
      /\ M.valid \in BOOLEAN /\ W.valid \in BOOLEAN
      /\ fCur \in FetchStates /\ fExc \in BOOLEAN
  BY DEF PipeTypeOK, FetchTypeOK, Slot
<1>3. /\ PcStall(in) <=> MduStall \/ MemStall(in)
      /\ ExMemStall(in) <=> MduStall \/ MemStall(in)
  BY Sources DEF PcStall, ExMemStall
<1>4. FetchedAlone'
  <2> SUFFICES ASSUME fCur' = "COMMIT", ~fExc' PROVE ~M'.valid
    BY DEF FetchedAlone
  <2>1. fCur \in {"EXEC", "COMMIT"}
    BY <1>1 DEF FetchClock, FetchStalled, FetchRedirect, FetchNewInstr,
       FetchAligned, FetchMisaligned, FetchExec, FetchCommit
  <2>2. ~E.valid
    BY <2>1 DEF PipeInv, Spacing
  <2>3. ASSUME M.valid, MemStall(in) PROVE FALSE
    <3>1. FetchStalled(FinalRedirect(in))
      BY <1>1, <1>3, <2>3 DEF FetchClock
    <3>2. fCur = "COMMIT" /\ ~fExc
      BY <3>1 DEF FetchStalled
    <3>3. QED
      BY <3>2, <2>3 DEF FetchedAlone
  <2>4. QED
    BY <1>2, <1>3, <2>2, <2>3, NextValid, Sources
<1>5. OperandsReady'
  <2> SUFFICES ASSUME D'.valid, ~D'.iexc PROVE ~E'.valid /\ ~M'.valid /\ ~W'.valid
    BY DEF OperandsReady
  <2>1. ~BranchValid(in) /\ ~CommitRedirect(in)
    BY NextValid
  <2>2. ~PcStall(in)
    BY <1>3, <2>1, NextValid, Sources, SpacingSuffices DEF OneInFlight
  <2>3. fCur = "COMMIT" /\ ~fExc
    <3>1. D' = [Bubble EXCEPT !.valid = TRUE, !.pc = fPc, !.instr = fInstr,
                              !.iexc = fExc, !.ipf = in.fault = "FETCH"]
      BY <2>1, <2>2, NextValid DEF PipeClock, IfIdClock, FetchValid
    <3>2. QED
      BY <2>1, <2>2, <3>1, NextValid DEF FetchValid, Bubble
  <2>4. ~D.valid /\ ~E.valid /\ ~M.valid
    BY <2>3 DEF FetchedAlone, PipeInv, Spacing
  <2>5. QED
    BY <1>3, <2>1, <2>2, <2>4, NextValid
<1>6. QED
  BY <1>4, <1>5

\* No instruction reads a register or a CSR in ID that an older one has still
\* to write: the values computed do not depend on forwarding.
THEOREM PipelineOperandsReady == PipeSpec => []OperandsReady
<1>1. PipeInit => FetchedAlone /\ OperandsReady
  BY DEF PipeInit, FetchInit, Bubble, FetchedAlone, OperandsReady
<1>2. /\ PipeTypeOK /\ PipeInv /\ FetchedAlone /\ OperandsReady
      /\ [PipeNext]_pipeVars
      => FetchedAlone' /\ OperandsReady'
  <2> SUFFICES ASSUME PipeTypeOK, PipeInv, FetchedAlone, OperandsReady,
                      [PipeNext]_pipeVars
               PROVE  FetchedAlone' /\ OperandsReady'
    OBVIOUS
  <2>1. CASE PipeNext
    BY <2>1, OperandsStep DEF PipeNext
  <2>2. CASE UNCHANGED pipeVars
    BY <2>2 DEF pipeVars, fetchVars, slotVars, FetchedAlone, OperandsReady
  <2>3. QED
    BY <2>1, <2>2
<1>3. QED
  BY PipelineTypeCorrect, PipelineInvariant, <1>1, <1>2, PTL DEF PipeSpec
=============================================================================
