---------------------------- MODULE StreamProofs ----------------------------
(***************************************************************************)
(* Proofs that instructions follow one another in program order, for every *)
(* program, page table, TLB and memory delay: no instruction is lost,      *)
(* repeated or reordered between IF and WB, and a multiply or divide       *)
(* returns the result of its own operands.                                 *)
(*                                                                         *)
(* Two steps of the argument are about one clock edge of the pipeline with *)
(* arbitrary buses (InOrderStep, MduStep); the theorems are about the      *)
(* machine.                                                                *)
(***************************************************************************)
EXTENDS CoreProofs

\* With the line down the pipeline is redirected by an instruction in WB,
\* then alone, or by a jump in EX, then alone; and it stalls for neither.
LEMMA OneSource ==
  ASSUME PipeTypeOK, PipeInv, NEW in \in Inputs, ~in.irq
  PROVE  /\ CommitRedirect(in) <=> ExceptionW \/ MretValid \/ SretValid
         /\ CommitRedirect(in) => W.valid /\ ~PcStall(in) /\ ~E.valid /\ ~M.valid
         /\ BranchValid(in) => /\ E.valid /\ ~PcStall(in)
                               /\ ~D.valid /\ ~M.valid /\ ~W.valid
         /\ PcStall(in) <=> ExMemStall(in)
         /\ MduStall => E.valid /\ ~D.valid /\ ~M.valid /\ ~W.valid
         /\ MemStall(in) => M.valid /\ ~D.valid /\ ~E.valid /\ ~W.valid
<1>1. CommitRedirect(in) <=> ExceptionW \/ MretValid \/ SretValid
  BY DEF CommitRedirect, TrapValid, InterruptTake
<1>2. OneInFlight
  BY SpacingSuffices
<1>3. CommitRedirect(in) => W.valid
  BY <1>1 DEF ExceptionW, MretValid, SretValid
<1>4. PcStall(in) <=> ExMemStall(in)
  BY Sources DEF PcStall, ExMemStall
<1>5. PcStall(in) => MduStall \/ MemStall(in)
  BY <1>4 DEF ExMemStall
<1>6. QED
  BY <1>1, <1>2, <1>3, <1>4, <1>5, Sources DEF OneInFlight

\* What the pipeline registers hold after an edge that is neither held up nor
\* redirected.
LEMMA Advance ==
  ASSUME PipeTypeOK, PipeInv, NEW in \in Inputs, PipeClock(in),
         ~PcStall(in), ~ExMemStall(in), ~CommitRedirect(in), ~BranchValid(in)
  PROVE  /\ D'.valid = FetchValid /\ (FetchValid => D'.pc = fPc)
         /\ E' = D
         /\ M'.valid = E.valid /\ M'.pc = E.pc /\ M'.instr = E.instr /\ M'.alu = in.ex
         /\ W'.valid = M.valid /\ W'.pc = M.pc /\ W'.instr = M.instr /\ W'.alu = M.alu
<1> USE Sources DEF PipeTypeOK, Slot
<1>1. D'.valid = FetchValid /\ (FetchValid => D'.pc = fPc)
  <2>1. D'.valid = FetchValid
    BY NextValid
  <2>2. FetchValid => D' = [Bubble EXCEPT !.valid = TRUE, !.pc = fPc,
            !.instr = fInstr, !.iexc = fExc, !.ipf = in.fault = "FETCH"]
    BY DEF PipeClock, IfIdClock
  <2>3. QED
    BY <2>1, <2>2 DEF Bubble
<1>2. E' = D
  BY DEF PipeClock, IdExClock
<1>3. M'.valid = E.valid /\ M'.pc = E.pc /\ M'.instr = E.instr /\ M'.alu = in.ex
  BY DEF PipeClock, ExMemClock
<1>4. W'.valid = M.valid /\ W'.pc = M.pc /\ W'.instr = M.instr /\ W'.alu = M.alu
  BY DEF PipeClock, MemWbClock, ExMemStall
<1>5. QED
  BY <1>1, <1>2, <1>3, <1>4

\* A trap or a return leads where the instruction in WB does.
LEMMA CommitLeads ==
  ASSUME PipeTypeOK, PipeInv, NEW in \in Inputs, ~in.irq, ~SretValid,
         CommitRedirect(in)
  PROVE  FinalRedirect(in) = NextPc /\ NextPc \in Addr /\ NextPc # Nil
  BY OneSource, NotAddr
     DEF FinalRedirect, NextPc, TrapRedirect, TrapValid, InterruptTake, MretValid,
         PipeTypeOK, TrapTypeOK

\* A trap or a return empties the pipeline and sends fetch to where the
\* instruction in WB leads.
LEMMA CommitStep ==
  ASSUME PipeTypeOK, PipeInv, InOrder, NEW in \in Inputs, ~in.irq, ~SretValid,
         PipeClock(in), CommitRedirect(in)
  PROVE  InOrder' /\ StreamStep
<1>1. W.valid /\ ~PcStall(in) /\ ~E.valid /\ ~M.valid
  BY OneSource
<1>2. FinalRedirect(in) = NextPc /\ NextPc # Nil
  BY CommitLeads
<1>3. FetchRedirect(FinalRedirect(in))
  BY <1>1, <1>2 DEF PipeClock, FetchClock, InOrder, EffectiveRedirect
<1>4. fCur' = "CHECKING" /\ fPrepared' = NextPc /\ fPending' = Nil
  BY <1>2, <1>3 DEF FetchRedirect, EffectiveRedirect, InOrder
<1>5. ~D'.valid /\ ~E'.valid /\ ~M'.valid /\ ~W'.valid
  BY <1>1, NextValid, OneSource DEF ExMemStall
<1>6. FetchPc' = NextPc
  BY <1>4 DEF FetchPc
<1>7. QED
  BY <1>1, <1>4, <1>5, <1>6 DEF InOrder, StreamStep, OldestPc

\* A taken jump goes on to MEM alone, and fetch to its target.
LEMMA JumpStep ==
  ASSUME PipeTypeOK, PipeInv, InOrder, NEW in \in Inputs, ~in.irq,
         PipeClock(in), BranchValid(in), ~CommitRedirect(in)
  PROVE  InOrder' /\ StreamStep
<1>1. E.valid /\ ~PcStall(in) /\ ~ExMemStall(in) /\ ~D.valid /\ ~M.valid /\ ~W.valid
  BY OneSource
<1>2. FinalRedirect(in) = in.ex /\ in.ex # Nil /\ OpOf(E) = "jump"
  <2>1. ~TrapValid(in.irq) /\ ~MretValid /\ ~SretValid
    BY DEF CommitRedirect
  <2>2. QED
    BY <2>1 DEF FinalRedirect, BranchValid
<1>3. FetchRedirect(FinalRedirect(in))
  BY <1>1, <1>2 DEF PipeClock, FetchClock, InOrder, EffectiveRedirect
<1>4. fCur' = "CHECKING" /\ fPrepared' = in.ex /\ fPending' = Nil
  BY <1>2, <1>3 DEF FetchRedirect, EffectiveRedirect, InOrder
<1>5. ~D'.valid /\ ~E'.valid /\ M'.valid /\ ~W'.valid
  BY <1>1, NextValid, OneSource, Sources DEF ExMemStall
<1>6. M'.pc = E.pc /\ M'.instr = E.instr /\ M'.alu = in.ex
  BY <1>1 DEF PipeClock, ExMemClock, PipeTypeOK, Slot
<1>7. FetchPc' = in.ex /\ Following(M)' = in.ex
  BY <1>2, <1>4, <1>6 DEF FetchPc, Following, OpOf
<1>8. QED
  BY <1>1, <1>4, <1>5, <1>6, <1>7 DEF InOrder, StreamStep, OldestPc

\* A stall holds the one instruction in the pipeline and fetch with it.
LEMMA StallStep ==
  ASSUME PipeTypeOK, PipeInv, InOrder, NEW in \in Inputs, ~in.irq,
         PipeClock(in), PcStall(in)
  PROVE  InOrder' /\ StreamStep
<1>1. ~CommitRedirect(in) /\ ~BranchValid(in) /\ ExMemStall(in)
  BY OneSource
<1>2. FinalRedirect(in) = Nil
  <2>1. ~TrapValid(in.irq) /\ ~MretValid /\ ~SretValid
    BY <1>1 DEF CommitRedirect
  <2>2. QED
    BY <1>1, <2>1 DEF FinalRedirect
<1>3. UNCHANGED fetchVars
  BY <1>2 DEF PipeClock, FetchClock, FetchStalled, fetchVars
<1>4. D' = D /\ E' = E /\ M' = M
  BY <1>1, Sources DEF PipeClock, IfIdClock, IdExClock, ExMemClock
<1>5. ~W.valid
  BY <1>1, OneSource DEF ExMemStall
<1>6. FetchPc' = FetchPc
  BY <1>3 DEF fetchVars, FetchPc
<1>7. ~W'.valid
  <2>1. W'.valid = IF MemStall(in) THEN W.valid ELSE M.valid
    BY NextValid
  <2>2. QED
    BY <1>1, <1>5, <2>1, OneSource DEF ExMemStall
<1>8. Following(M)' = Following(M)
  BY <1>4 DEF Following, OpOf
<1>9. InOrder'
  BY <1>3, <1>4, <1>5, <1>6, <1>7, <1>8 DEF InOrder, fetchVars
<1>10. StreamStep
  BY <1>4, <1>5, <1>6, <1>7 DEF StreamStep, OldestPc
<1>11. QED
  BY <1>9, <1>10

\* Otherwise everything moves on by one stage, and fetch by one state.
LEMMA MoveStep ==
  ASSUME PipeTypeOK, PipeInv, InOrder, ~(D.valid /\ D.pc = 0), NEW in \in Inputs,
         ~in.irq, PipeClock(in), ~PcStall(in), ~CommitRedirect(in), ~BranchValid(in)
  PROVE  InOrder' /\ StreamStep
<1>1. ~ExMemStall(in) /\ OneInFlight
  BY OneSource, SpacingSuffices
<1> DEFINE moved ==
             /\ D'.valid = FetchValid /\ (FetchValid => D'.pc = fPc)
             /\ E' = D
             /\ M'.valid = E.valid /\ M'.pc = E.pc
             /\ W'.valid = M.valid /\ W'.pc = M.pc
<1>2. moved
  BY <1>1, Advance
<1>3. W.valid => NextPc = Following(W)
  BY OneSource DEF NextPc
<1>4. Following(W)' = Following(M)
  BY <1>1, Advance DEF Following, OpOf
<1>5. E.valid => Following(M)' = Plus4(E.pc)
  BY <1>1, Advance DEF Following, OpOf, BranchValid
<1>6. FinalRedirect(in) = Nil /\ fPending = Nil
  <2>1. ~TrapValid(in.irq) /\ ~MretValid
    BY DEF CommitRedirect
  <2>2. QED
    BY <2>1 DEF FinalRedirect, InOrder
<1>7. \/ FetchNewInstr \/ FetchAligned \/ FetchMisaligned
      \/ FetchExec(in.iok, in.iword) \/ FetchCommit(TRUE)
  BY <1>6 DEF PipeClock, FetchClock, EffectiveRedirect, FetchRedirect, FetchCommit,
              FetchValid
<1>8. /\ D.valid \in BOOLEAN /\ E.valid \in BOOLEAN
      /\ M.valid \in BOOLEAN /\ W.valid \in BOOLEAN
  BY DEF PipeTypeOK, Slot
<1> HIDE DEF moved
<1> USE <1>1, <1>2, <1>3, <1>4, <1>5, <1>6, <1>8
    DEF moved, FetchValid, OneInFlight, InOrder, StreamStep, OldestPc, FetchPc,
        PipeInv, Spacing
<1>9. CASE FetchNewInstr
  <2>1. fPrepared' = IF D.valid THEN Plus4(D.pc) ELSE PcInit
    BY <1>9 DEF FetchNewInstr
  <2>2. QED
    BY <1>9, <2>1 DEF FetchNewInstr
<1>10. CASE FetchAligned
  BY <1>10 DEF FetchAligned
<1>11. CASE FetchMisaligned
  BY <1>11 DEF FetchMisaligned
<1>12. CASE FetchExec(in.iok, in.iword)
  BY <1>12 DEF FetchExec
<1>13. CASE FetchCommit(TRUE)
  BY <1>13 DEF FetchCommit
<1>14. QED
  BY <1>7, <1>9, <1>10, <1>11, <1>12, <1>13

\* One clock edge, whatever the buses do.
LEMMA InOrderStep ==
  ASSUME PipeTypeOK, PipeInv, InOrder, ~(D.valid /\ D.pc = 0), ~SretValid,
         NEW in \in Inputs, ~in.irq, PipeClock(in)
  PROVE  InOrder' /\ StreamStep
  BY CommitStep, JumpStep, StallStep, MoveStep, OneSource

\* The multiply and divide unit stays with the instruction in EX.
LEMMA MduStep ==
  ASSUME PipeTypeOK, PipeInv, MduBusyFor, NEW in \in Inputs, ~in.irq, PipeClock(in)
  PROVE  MduBusyFor'
<1> DEFINE asks == E.valid /\ OpOf(E) = "mdu"
           req  == IF asks THEN E.pc ELSE Nil
<1>1. MduClock(req, in.mduLast)
  BY DEF PipeClock
<1>2. /\ OpOf(E) = "mdu" => E.valid
      /\ OpOf(M) = "mdu" => M.valid
      /\ OpOf(W) = "mdu" => W.valid
  BY DEF PipeInv, BubblesEmpty, OpOf
<1>3. (mduState # "IDLE" => E.valid /\ OpOf(E) = "mdu" /\ mduFor = E.pc)'
  <2> SUFFICES ASSUME mduState' # "IDLE"
               PROVE  E'.valid /\ OpOf(E)' = "mdu" /\ mduFor' = E'.pc
    OBVIOUS
  <2>1. asks /\ mduState # "DONE" /\ mduFor' = E.pc
    BY <1>1 DEF MduClock, MduAccept, MduIterate, MduRelease, MduBusyFor, mduVars
  <2>2. MduStall /\ ~CommitRedirect(in) /\ ~BranchValid(in) /\ ~LoadUseStall
    BY <2>1, OneSource, Sources DEF MduStall, MduDone
  <2>3. E' = E
    BY <2>2 DEF PipeClock, IdExClock, ExMemStall
  <2>4. QED
    BY <2>1, <2>3 DEF OpOf
<1>4. (OpOf(M) = "mdu" => M.val = M.pc)'
  <2>1. CASE CommitRedirect(in)
    BY <2>1 DEF PipeClock, ExMemClock, Bubble, OpOf
  <2>2. CASE ~CommitRedirect(in) /\ ExMemStall(in)
    BY <2>2 DEF PipeClock, ExMemClock, OpOf, MduBusyFor
  <2>3. CASE ~CommitRedirect(in) /\ ~ExMemStall(in)
    <3>1. M'.instr = E.instr /\ M'.pc = E.pc
          /\ (OpOf(E) = "mdu" => M'.val = mduFor)
      BY <2>3 DEF PipeClock, ExMemClock, PipeTypeOK, Slot
    <3>2. asks => mduFor = E.pc
      BY <2>3 DEF ExMemStall, MduStall, MduDone, MduBusyFor
    <3>3. QED
      BY <1>2, <3>1, <3>2 DEF OpOf
  <2>4. QED
    BY <2>1, <2>2, <2>3
<1>5. (OpOf(W) = "mdu" => W.val = W.pc)'
  <2>1. CASE MemStall(in)
    BY <2>1 DEF PipeClock, MemWbClock, OpOf, MduBusyFor
  <2>2. CASE ~MemStall(in)
    <3>1. W'.instr = M.instr /\ W'.pc = M.pc
          /\ (OpOf(M) = "mdu" => W'.val = M.val)
      BY <2>2 DEF PipeClock, MemWbClock, PipeTypeOK, Slot
    <3>2. QED
      BY <3>1 DEF OpOf, MduBusyFor
  <2>3. QED
    BY <2>1, <2>2
<1>6. QED
  BY <1>3, <1>4, <1>5 DEF MduBusyFor
-----------------------------------------------------------------------------
(* The machine.                                                            *)

\* An interrupt line that is down, masked or held off by what completes is a
\* line that is down: nothing else in the core looks at it.
LEMMA Masked ==
  ASSUME NEW irq, ~InterruptTake(irq), NEW enable, NEW ex, NEW mduLast,
         CoreClock(irq, enable, ex, mduLast)
  PROVE  CoreClock(FALSE, enable, ex, mduLast)
<1>1. TrapValid(irq) = TrapValid(FALSE)
  BY DEF TrapValid, InterruptTake
<1>2. Cancel(irq) = Cancel(FALSE)
  BY <1>1 DEF Cancel
<1> DEFINE in    == PipeInputs(irq, ex, mduLast)
           quiet == PipeInputs(FALSE, ex, mduLast)
<1>3. /\ in.irq = irq /\ quiet.irq = FALSE
      /\ in.iok = quiet.iok /\ in.iword = quiet.iword
      /\ in.dok = quiet.dok /\ in.dval = quiet.dval /\ in.fault = quiet.fault
      /\ in.ex = quiet.ex /\ in.mduLast = quiet.mduLast
  BY <1>2 DEF PipeInputs
<1>4. PipeClock(in) /\ HistoryClock(irq, enable, in)
  BY DEF CoreClock
<1> HIDE DEF in, quiet
<1>5. /\ TrapValid(in.irq) = TrapValid(quiet.irq)
      /\ BusCancel(in) = BusCancel(quiet)
      /\ CommitRedirect(in) = CommitRedirect(quiet)
      /\ BranchValid(in) = BranchValid(quiet)
  BY <1>1, <1>3 DEF BusCancel, CommitRedirect, BranchValid
<1>6. /\ MemStall(in) = MemStall(quiet)
      /\ PcStall(in) = PcStall(quiet)
      /\ ExMemStall(in) = ExMemStall(quiet)
      /\ FinalRedirect(in) = FinalRedirect(quiet)
  BY <1>3, <1>5 DEF MemStall, PcStall, ExMemStall, FinalRedirect
<1>7. PipeClock(quiet)
  <2>1. FetchClock(PcStall(quiet), FinalRedirect(quiet),
                   FetchValid /\ ~PcStall(quiet), quiet.iok, quiet.iword)
    BY <1>3, <1>4, <1>6 DEF PipeClock
  <2>2. IfIdClock(quiet) /\ IdExClock(quiet) /\ ExMemClock(quiet) /\ MemWbClock(quiet)
    BY <1>3, <1>4, <1>5, <1>6
       DEF PipeClock, IfIdClock, IdExClock, ExMemClock, MemWbClock
  <2>3. QED
    BY <1>3, <1>4, <1>5, <2>1, <2>2 DEF PipeClock
<1>8. HistoryClock(FALSE, enable, quiet)
  BY <1>2, <1>4, <1>6 DEF HistoryClock
<1>9. QED
  BY <1>2, <1>7, <1>8 DEF CoreClock, quiet

\* When no interrupt is taken a step of the machine is a clock edge with the
\* interrupt line down.
LEMMA QuietCore ==
  ASSUME NoInterrupts, CoreNext
  PROVE  \E enable, mduLast \in BOOLEAN, ex \in Outcomes(E) :
            CoreClock(FALSE, enable, ex, mduLast)
<1>1. PICK irq \in IrqLine, enable \in BOOLEAN, mduLast \in BOOLEAN,
           ex \in Outcomes(E) : CoreClock(irq, enable, ex, mduLast)
  BY DEF CoreNext
<1>2. CoreClock(FALSE, enable, ex, mduLast)
  BY <1>1, Masked DEF NoInterrupts
<1>3. QED
  BY <1>2

LEMMA QuietEdge ==
  ASSUME NoInterrupts, CoreTypeOK, CoreNext
  PROVE  \E in \in Inputs : ~in.irq /\ PipeClock(in)
<1>1. PICK enable \in BOOLEAN, mduLast \in BOOLEAN, ex \in Outcomes(E) :
           CoreClock(FALSE, enable, ex, mduLast)
  BY QuietCore
<1>2. ex \in Addr \cup {Nil}
  BY OutcomesType DEF CoreTypeOK, PipeTypeOK
<1>3. PipeInputs(FALSE, ex, mduLast) \in Inputs
  BY <1>2, InputsType DEF CoreTypeOK
<1>4. ~PipeInputs(FALSE, ex, mduLast).irq /\ PipeClock(PipeInputs(FALSE, ex, mduLast))
  BY <1>1 DEF PipeInputs, CoreClock
<1>5. QED
  BY <1>3, <1>4

\* No instruction is lost, repeated or reordered between IF and WB: a clock
\* edge replaces the oldest one only by its successor, and only when it leaves
\* write-back, for every program that takes no interrupt, executes no sret
\* and has no instruction at address 0.
THEOREM ProgramOrder ==
  CoreSpec /\ []NoInterrupts /\ []NoSret /\ []NothingAtZero
      => []InOrder /\ InstructionStream
<1>1. CoreInit => InOrder
  BY DEF CoreInit, PipeInit, FetchInit, Bubble, InOrder
<1>2. /\ CoreTypeOK /\ PipeInv /\ InOrder /\ NoInterrupts /\ NoSret
      /\ NothingAtZero /\ [CoreNext]_coreVars
      => InOrder' /\ [StreamStep]_coreVars
  <2> SUFFICES ASSUME CoreTypeOK, PipeInv, InOrder, NoInterrupts, NoSret,
                      NothingAtZero, [CoreNext]_coreVars
               PROVE  InOrder' /\ [StreamStep]_coreVars
    OBVIOUS
  <2>1. CASE CoreNext
    BY <2>1, QuietEdge, InOrderStep DEF CoreTypeOK, NoSret, NothingAtZero
  <2>2. CASE UNCHANGED coreVars
    BY <2>2 DEF coreVars, pipeVars, fetchVars, slotVars, InOrder, FetchPc, Following,
                OpOf
  <2>3. QED
    BY <2>1, <2>2
<1>3. QED
  BY CoreTypeCorrect, CoreImplementsPipe, PipelineInvariant, <1>1, <1>2, PTL
     DEF CoreSpec, InstructionStream

\* A multiply or divide that completes takes the result of its own operands,
\* for every program that takes no interrupt.
THEOREM ResultOwned == CoreSpec /\ []NoInterrupts => []MduOwn
<1>1. CoreInit => MduBusyFor
  BY DEF CoreInit, PipeInit, MduInit, Bubble, MduBusyFor, OpOf
<1>2. CoreTypeOK /\ PipeInv /\ MduBusyFor /\ NoInterrupts /\ [CoreNext]_coreVars
      => MduBusyFor'
  <2> SUFFICES ASSUME CoreTypeOK, PipeInv, MduBusyFor, NoInterrupts, [CoreNext]_coreVars
               PROVE  MduBusyFor'
    OBVIOUS
  <2>1. CASE CoreNext
    BY <2>1, QuietEdge, MduStep DEF CoreTypeOK
  <2>2. CASE UNCHANGED coreVars
    BY <2>2 DEF coreVars, pipeVars, mduVars, slotVars, MduBusyFor, OpOf
  <2>3. QED
    BY <2>1, <2>2
<1>3. MduBusyFor => MduOwn
  BY DEF MduBusyFor, MduOwn, Completes
<1>4. QED
  BY CoreTypeCorrect, CoreImplementsPipe, PipelineInvariant, <1>1, <1>2, <1>3, PTL
     DEF CoreSpec
=============================================================================
