---------------------------- MODULE AccessProofs ----------------------------
(***************************************************************************)
(* Proofs about the accesses of the machine, for every program, page       *)
(* table, TLB and memory delay, as long as no interrupt is taken and no    *)
(* sret executed: nothing is ever cancelled under a transaction, and a     *)
(* store reaches memory exactly once, or not at all if it traps.           *)
(*                                                                         *)
(* The steps of the buses (BusesStep) need no more of fetch than that a    *)
(* miss is quiet (MissQuiet).  The theorems here have it from MissAlone,   *)
(* for programs whose fetches are not refused; ProgramProofs has it        *)
(* without that premise.                                                   *)
(***************************************************************************)
EXTENDS StreamProofs

\* The wires of a cycle with the interrupt line down: a cancel, and whose answer is up.
Cancelled == Cancel(FALSE)
Answered  == ~Cancelled /\ mmuState = "RESP"
Answers(port) == Answered /\ arbBusy /\ arbIndex = port
MmuAnswer == IF Answered THEN mmuResp ELSE NoResponse
FetchAnswer == IF Answers(FetchPort) THEN mmuResp ELSE NoResponse

\* One clock edge with the interrupt line down, the wires spelled out.
AccessEdge(enable, in) ==
    /\ ~in.irq /\ in.fault = mmuFault /\ (Cancelled <=> BusCancel(in))
    /\ in.ex \in Outcomes(E)
    /\ in.dok <=> Answers(DataPort)
    /\ in.dok => in.dval = mmuResp.data
    /\ in.iok <=> Cancelled \/ Hit(FALSE, fReq) \/ (Answers(FetchPort) /\ miss.pending)
    /\ in.iword = BridgeWord(Cancelled, fReq, FetchAnswer)
    /\ PipeClock(in)
    /\ BridgeClock(Cancelled, fReq, FetchAnswer)
    /\ ArbClock(Cancelled, PortReqs(Cancelled), MmuAnswer)
    /\ MmuClock(Cancelled, ArbFinalReq(Cancelled), ArbAccess, priv, satp, MemResp(enable))
    /\ CBusClock(MasterReqs(Cancelled), DeviceResp(enable))
    /\ DeviceClock(enable, CBusReq)
    /\ HistoryClock(FALSE, enable, in)

\* The answer a port sees.
LEMMA PortAnswer ==
  ASSUME CoreTypeOK, MmuServes, NEW port \in {DataPort, FetchPort}
  PROVE  /\ MmuCpuResp(Cancelled) = MmuAnswer
         /\ MmuAnswer.ok <=> Answered
         /\ PortResp(port, Cancelled) = IF Answers(port) THEN mmuResp ELSE NoResponse
         /\ PortResp(port, Cancelled).ok <=> Answers(port)
<1>1. mmuFault # "none" => Cancelled
  BY DEF Cancelled, Cancel
<1>2. MmuCpuResp(Cancelled) = MmuAnswer
  BY <1>1 DEF MmuCpuResp, MmuAnswer, Answered
<1>3. Answered => mmuResp.ok = TRUE
  BY <1>1 DEF Answered, MmuServes, CoreTypeOK, MmuTypeOK, Responses
<1>4. NoResponse.ok = FALSE
  BY DEF NoResponse
<1>5. MmuAnswer.ok <=> Answered
  BY <1>3, <1>4 DEF MmuAnswer
<1>6. PortResp(port, Cancelled) = IF Answers(port) THEN mmuResp ELSE NoResponse
  BY <1>2, <1>5 DEF PortResp, ArbResp, Answers, Answered, MmuAnswer
<1>7. QED
  BY <1>2, <1>3, <1>4, <1>5, <1>6 DEF Answers

LEMMA AccessClock ==
  ASSUME NoInterrupts, CoreTypeOK, MmuServes, CoreNext
  PROVE  \E enable \in BOOLEAN, in \in Inputs : AccessEdge(enable, in)
<1>1. PICK enable \in BOOLEAN, mduLast \in BOOLEAN, ex \in Outcomes(E) :
           CoreClock(FALSE, enable, ex, mduLast)
  BY QuietCore
<1>2. ex \in Addr \cup {Nil}
  BY OutcomesType DEF CoreTypeOK, PipeTypeOK
<1> DEFINE in == PipeInputs(FALSE, ex, mduLast)
<1>3. in \in Inputs
  BY <1>2, InputsType DEF CoreTypeOK
<1>5. /\ in.irq = FALSE /\ in.fault = mmuFault /\ in.ex = ex
      /\ in.dok = PortResp(DataPort, Cancelled).ok
      /\ in.dval = PortResp(DataPort, Cancelled).data
      /\ in.iok = BridgeOk(Cancelled, fReq, PortResp(FetchPort, Cancelled))
      /\ in.iword = BridgeWord(Cancelled, fReq, PortResp(FetchPort, Cancelled))
  BY DEF PipeInputs, Cancelled
<1>6. Cancelled <=> BusCancel(in)
  BY <1>5 DEF Cancelled, Cancel, BusCancel
<1>7. PortResp(FetchPort, Cancelled) = FetchAnswer
  BY PortAnswer DEF FetchAnswer
<1>8. /\ in.dok <=> Answers(DataPort)
      /\ in.dok => in.dval = mmuResp.data
  BY <1>5, PortAnswer
<1>9. in.iok <=> Cancelled \/ Hit(FALSE, fReq) \/ (Answers(FetchPort) /\ miss.pending)
  BY <1>5, PortAnswer DEF BridgeOk, Hit
<1>10. /\ PipeClock(in)
       /\ BridgeClock(Cancelled, fReq, FetchAnswer)
       /\ ArbClock(Cancelled, PortReqs(Cancelled), MmuAnswer)
       /\ MmuClock(Cancelled, ArbFinalReq(Cancelled), ArbAccess, priv, satp,
                   MemResp(enable))
       /\ CBusClock(MasterReqs(Cancelled), DeviceResp(enable))
       /\ DeviceClock(enable, CBusReq)
       /\ HistoryClock(FALSE, enable, in)
  BY <1>1, <1>7, PortAnswer DEF CoreClock, Cancelled
<1> HIDE DEF in
<1>11. AccessEdge(enable, in)
  BY <1>1, <1>5, <1>6, <1>7, <1>8, <1>9, <1>10 DEF AccessEdge
<1>12. QED
  BY <1>3, <1>11
-----------------------------------------------------------------------------
(* What holds in every cycle.                                              *)

\* An instruction in WB finds every bus at rest, unless it does nothing and a
\* miss was left behind it; and a cancel finds no transaction under way: it
\* comes from WB, or from a fault in RESP.
LEMMA QuietCycle ==
  ASSUME CoreTypeOK, PipeInv, BusInv, AccessInv, NoSret
  PROVE  /\ W.valid => \/ W.instr = Zero /\ ~ExceptionW
                       \/ ~arbBusy /\ mmuState = "IDLE" /\ mmuFault = "none"
         /\ Cancelled <=> ExceptionW \/ MretValid \/ mmuFault # "none"
         /\ Cancelled => ~cbBusy
         /\ miss.pending => ~MemReq
         /\ mmuFault # "none" =>
              /\ arbBusy /\ mmuState = "RESP"
              /\ IF mmuFault = "FETCH" THEN arbIndex = FetchPort /\ miss.pending
                 ELSE mmuFault \in {"LOAD", "STORE"} /\ arbIndex = DataPort /\ MemReq
<1>1. OneInFlight
  BY SpacingSuffices DEF CoreTypeOK
<1>2. W.valid /\ arbBusy => W.instr = Zero /\ ~ExceptionW
  BY <1>1 DEF OneInFlight, AccessInv, MissQuiet, BusInv, MemReq
<1>3. ~arbBusy => mmuState = "IDLE" /\ mmuFault = "none"
  BY DEF AccessInv, BusesInv, MmuServes
<1>4. Cancelled <=> ExceptionW \/ MretValid \/ mmuFault # "none"
  BY DEF Cancelled, Cancel, TrapValid, InterruptTake, NoSret
<1>5. MretValid => W.valid /\ W.instr # Zero
  BY DEF MretValid, OpOf
<1>6. ExceptionW => W.valid
  BY DEF ExceptionW
<1>7. mmuFault # "none" => mmuState = "RESP" /\ arbBusy /\ mmuFault = ArbAccess
  BY DEF AccessInv, BusesInv, MmuServes
<1>8. mmuState \in {"IDLE", "RESP"} => ~cbBusy
  BY DEF AccessInv, BusesInv, BusServes
<1>9. arbIndex \in {DataPort, FetchPort}
  BY CoreAssumption DEF CoreTypeOK, ArbTypeOK, Ports, DataPort, FetchPort
<1>10. mmuFault # "none" =>
          IF mmuFault = "FETCH" THEN arbIndex = FetchPort /\ miss.pending
          ELSE mmuFault \in {"LOAD", "STORE"} /\ arbIndex = DataPort /\ MemReq
  BY <1>7, <1>9 DEF ArbAccess, BusInv, DataPort, FetchPort
<1>11. miss.pending => ~MemReq
  BY DEF AccessInv, MissQuiet, MemReq, OpOf
<1>12. Cancelled => ~cbBusy
  BY <1>2, <1>3, <1>4, <1>5, <1>6, <1>7, <1>8
<1>13. QED
  BY <1>2, <1>3, <1>4, <1>7, <1>10, <1>11, <1>12

\* Where the data port is served, the instruction in MEM waits for it.
LEMMA MemWaits ==
  ASSUME CoreTypeOK, PipeInv, BusInv, AccessInv, NoSret,
         NEW enable, NEW in \in Inputs, AccessEdge(enable, in)
  PROVE  /\ MemStall(in) <=> MemReq /\ ~Cancelled /\ ~Answers(DataPort)
         /\ MemStall(in) => M' = M /\ MemReq' /\ DataReq' = DataReq
<1>1. MemStall(in) <=> MemReq /\ ~Cancelled /\ ~Answers(DataPort)
  BY DEF MemStall, AccessEdge
<1>2. ASSUME MemStall(in) PROVE M' = M
  BY <1>2, Sources DEF AccessEdge, PipeClock, ExMemClock, ExMemStall, CoreTypeOK
<1>3. M' = M => (MemReq' <=> MemReq) /\ DataReq' = DataReq
  BY DEF MemReq, DataMisaligned, OpOf, DataReq
<1>4. QED
  BY <1>1, <1>2, <1>3
-----------------------------------------------------------------------------
(* Flags and misses.                                                       *)

\* A fetch that faults is not in COMMIT, where the flag is sampled: a flag in
\* front of MEM is that of a misaligned pc.
LEMMA FlagsStep ==
  ASSUME CoreTypeOK, PipeInv, BusInv, AccessInv, NoSret,
         NEW enable, NEW in \in Inputs, AccessEdge(enable, in)
  PROVE  FlagsEarly'
<1>1. PipeClock(in) /\ (FetchValid => in.fault # "FETCH")
  BY QuietCycle DEF AccessEdge, AccessInv, MissQuiet, FetchValid
<1> USE DEF AccessInv, BusesInv, FlagsEarly, CoreTypeOK, PipeTypeOK, Slot
<1>2. /\ D' \in {D, Bubble} \/ (~D'.ipf /\ D'.iexc = fExc /\ D'.instr = fInstr)
      /\ ~D'.ipf
  BY <1>1 DEF PipeClock, IfIdClock, Bubble
<1>3. E' \in {D, E} \/ (~E'.ipf /\ ~E'.iexc)
  BY <1>1 DEF PipeClock, IdExClock, Bubble
<1>4. \/ M' \in {M, Bubble}
      \/ /\ ~M'.ipf /\ M'.instr = E.instr
         /\ M'.iexc => E.iexc \/ OpOf(E) = "jump"
  BY <1>1 DEF PipeClock, ExMemClock, BranchValid
<1>5. (fExc => fInstr = Zero)'
  BY <1>1 DEF PipeClock, FetchClock, FetchStalled, FetchRedirect, FetchNewInstr,
              FetchAligned, FetchMisaligned, FetchExec, FetchCommit
<1>6. (D.iexc => D.instr = Zero)' /\ ~D'.ipf
  BY <1>2 DEF Bubble
<1>7. (E.iexc => E.instr = Zero)' /\ ~E'.ipf
  BY <1>3
<1>8. (M.iexc => OpOf(M) \in {"nop", "jump"})' /\ ~M'.ipf
  BY <1>4 DEF Bubble, OpOf
<1>9. ~W'.ipf
  BY <1>1 DEF PipeClock, MemWbClock
<1>10. QED
  BY <1>5, <1>6, <1>7, <1>8, <1>9

\* A miss is out only while fetch waits alone.
LEMMA MissStep ==
  ASSUME CoreTypeOK, PipeInv, BusInv, MissAlone, AccessInv, NoFetchFault, NoSret,
         NEW enable, NEW in \in Inputs, AccessEdge(enable, in)
  PROVE  MissAlone'
<1> DEFINE redirect == FinalRedirect(in)
           consume  == FetchValid /\ ~PcStall(in)
<1>1. /\ FetchClock(PcStall(in), redirect, consume, in.iok, in.iword)
      /\ BridgeClock(Cancelled, fReq, FetchAnswer)
      /\ ~in.irq /\ in.fault = mmuFault
  BY DEF AccessEdge, PipeClock
<1>2. OneInFlight /\ PipeTypeOK
  BY SpacingSuffices DEF CoreTypeOK
<1>3. PcStall(in) => fReq = Nil /\ ~miss.pending
  BY <1>1, <1>2, OneSource DEF ExMemStall, BusInv, PipeInv, Spacing, MissAlone
<1>4. (fReq # Nil => fReq = fPrepared)'
  BY <1>1 DEF FetchClock, FetchStalled, FetchRedirect, FetchNewInstr, FetchAligned,
              FetchMisaligned, FetchExec, FetchCommit, MissAlone
<1>5. ASSUME miss'.pending
      PROVE  /\ ~Cancelled /\ fCur = "EXEC" /\ fReq # Nil /\ ~in.iok
             /\ miss'.addr = LineOf(fReq) /\ miss'.upper = UpperHalf(fReq)
             /\ ~Hit(FALSE, fReq) /\ line' = line
  <2>1. ~Cancelled /\ ~BridgeFill(FetchAnswer)
    <3>1. ~BridgeCancel
      BY <1>5 DEF BridgeCancel, NoMiss
    <3>2. ~BridgeFill(FetchAnswer)
      BY <1>5 DEF BridgeFill, CoreTypeOK, BridgeTypeOK
    <3>3. QED
      BY <1>1, <3>1, <3>2 DEF BridgeClock
  <2>2. CASE BridgeMiss(fReq)
    <3>1. MissFire(FALSE, fReq)
      BY <2>2 DEF BridgeMiss
    <3>2. fCur = "EXEC" /\ ~in.iok
      <4>1. fCur # "COMMIT"
        BY <2>1, <3>1 DEF MissFire, MissAlone, Cancelled, Cancel, TrapValid
      <4>2. ~in.iok
        BY <2>1, <3>1 DEF MissFire, AccessEdge
      <4>3. QED
        BY <3>1, <4>1, <4>2 DEF MissFire, BusInv
    <3>3. QED
      BY <2>1, <2>2, <3>1, <3>2 DEF BridgeMiss, MissFire
  <2>3. CASE UNCHANGED bridgeVars /\ ~MissFire(FALSE, fReq)
             /\ ~(miss.pending /\ FetchAnswer.ok)
    <3>1. miss.pending /\ miss' = miss /\ line' = line
      BY <1>5, <2>3 DEF bridgeVars
    <3>2. fCur = "EXEC" /\ fReq # Nil /\ ~Hit(FALSE, fReq)
          /\ miss.addr = LineOf(fReq) /\ miss.upper = UpperHalf(fReq)
      BY <3>1 DEF MissAlone
    <3>3. ~in.iok
      <4>1. Answers(FetchPort) => FetchAnswer.ok
        BY PortAnswer DEF FetchAnswer, AccessInv, BusesInv, MmuServes, Answers, Answered,
                          Cancelled, Cancel
      <4>2. QED
        BY <2>1, <2>3, <3>1, <3>2, <4>1 DEF AccessEdge
    <3>4. QED
      BY <2>1, <3>1, <3>2, <3>3
  <2>4. QED
    BY <1>1, <2>1, <2>2, <2>3 DEF BridgeClock
<1>6. ASSUME miss'.pending
      PROVE  /\ fCur' = "EXEC" /\ fReq' = fReq /\ ~M'.valid /\ ~W'.valid
             /\ ~Hit(FALSE, fReq)'
  <2>1. /\ ~Cancelled /\ fCur = "EXEC" /\ fReq # Nil /\ ~in.iok
        /\ fReq = fPrepared /\ ~M.valid /\ ~E.valid
    BY <1>5, <1>6 DEF MissAlone, BusInv, PipeInv, Spacing
  <2>2. ~CommitRedirect(in) /\ ~BranchValid(in) /\ ~PcStall(in)
    BY <1>1, <1>2, <2>1, OneSource, QuietCycle DEF NoSret, ExMemStall
  <2>3. FetchExec(in.iok, in.iword)
    <3>1. redirect = Nil
      BY <2>2 DEF FinalRedirect, CommitRedirect
    <3>2. fPending = Nil
      BY <2>1 DEF PipeInv, PendingAlone
    <3>3. QED
      BY <1>1, <2>1, <2>2, <3>1, <3>2
         DEF FetchClock, EffectiveRedirect, FetchRedirect, FetchNewInstr, FetchAligned,
             FetchMisaligned, FetchCommit
  <2>4. fCur' = "EXEC" /\ fReq' = fReq
    <3>1. ~Misaligned(fPrepared)
      BY <2>1 DEF MissAlone
    <3>2. QED
      BY <2>1, <2>3, <3>1 DEF FetchExec
  <2>5. ~M'.valid /\ ~W'.valid
    BY <1>1, <1>2, <2>1, <2>2, NextValid, OneSource DEF AccessEdge
  <2>6. ~Hit(FALSE, fReq)'
    BY <1>5, <1>6, <2>4 DEF Hit
  <2>7. QED
    BY <2>4, <2>5, <2>6
<1>7. (fCur = "EXEC" => ~Misaligned(fPrepared))'
  BY <1>1 DEF FetchClock, FetchStalled, FetchRedirect, FetchNewInstr, FetchAligned,
              FetchMisaligned, FetchExec, FetchCommit, MissAlone
<1>8. ASSUME fCur' = "COMMIT", fReq' # Nil
      PROVE  Hit(FALSE, fReq)' \/ ExceptionW'
  <2>1. ~PcStall(in) /\ FetchExec(in.iok, in.iword)
    <3>1. ~PcStall(in)
      BY <1>1, <1>3, <1>8 DEF FetchClock, FetchStalled, FetchRedirect, FetchExec
    <3>2. QED
      BY <1>1, <1>8, <3>1
         DEF FetchClock, FetchRedirect, FetchNewInstr, FetchAligned, FetchMisaligned,
             FetchCommit
  <2>2. fCur = "EXEC" /\ in.iok /\ fReq' = fPrepared /\ fReq \in {Nil, fPrepared}
    BY <1>8, <2>1 DEF FetchExec, MissAlone
  <2>3. ~CommitRedirect(in)
    <3>1. FinalRedirect(in) = Nil
      BY <1>1, <1>8, <2>1 DEF FetchClock, FetchRedirect, EffectiveRedirect
    <3>2. QED
      BY <1>1, <1>2, <3>1, CommitLeads DEF NoSret, CoreTypeOK
  <2>4. CASE Cancelled
    <3>1. mmuFault # "none"
      BY <1>1, <1>2, <2>3, <2>4, OneSource, QuietCycle DEF CoreTypeOK
    <3>2. MemReq /\ ~MemStall(in) /\ in.fault \in {"LOAD", "STORE"}
      BY <1>1, <2>4, <3>1, QuietCycle, MemWaits DEF NoFetchFault
    <3>3. W'.valid /\ W'.dpf
      BY <3>2 DEF AccessEdge, PipeClock, MemWbClock, MemReq, CoreTypeOK, PipeTypeOK, Slot
    <3>4. QED
      BY <3>3 DEF ExceptionW
  <2>5. CASE ~Cancelled /\ miss.pending /\ FetchAnswer.ok
    <3>1. line'.valid /\ line'.addr = miss.addr
      BY <1>1, <2>5 DEF BridgeClock, BridgeMiss, BridgeFill, MissFire
    <3>2. fReq' = fReq /\ miss.addr = LineOf(fReq)
      BY <2>2, <2>5 DEF MissAlone
    <3>3. QED
      BY <1>8, <3>1, <3>2 DEF Hit
  <2>6. CASE ~Cancelled /\ ~(miss.pending /\ FetchAnswer.ok)
    <3>1. Hit(FALSE, fReq)
      <4>1. Answers(FetchPort) => FetchAnswer.ok
        BY PortAnswer DEF FetchAnswer, AccessInv, BusesInv, MmuServes, Answers, Answered,
                          Cancelled, Cancel
      <4>2. QED
        BY <2>2, <2>6, <4>1 DEF AccessEdge
    <3>2. UNCHANGED bridgeVars
      BY <1>1, <2>6, <3>1 DEF BridgeClock, BridgeMiss, BridgeFill, MissFire
    <3>3. QED
      BY <2>2, <3>1, <3>2 DEF Hit, bridgeVars
  <2>7. QED
    BY <2>4, <2>5, <2>6
<1>9. QED
  BY <1>4, <1>5, <1>6, <1>7, <1>8 DEF MissAlone
-----------------------------------------------------------------------------
(* Arbiter, MMU and CBus move together.                                    *)

\* The arbiter holds its request until the MMU answers.
LEMMA ArbHolds ==
  ASSUME CoreTypeOK, AccessInv, NEW enable, NEW in, AccessEdge(enable, in),
         ~Cancelled, arbBusy, ~Answered
  PROVE  UNCHANGED arbVars
<1>1. ~MmuAnswer.ok
  BY PortAnswer DEF AccessInv, BusesInv, DataPort
<1>2. QED
  BY <1>1 DEF AccessEdge, ArbClock, ArbAccept

\* What it holds asks for something, and writes only for a store in MEM.
LEMMA Held ==
  ASSUME BusInv, AccessInv, arbBusy
  PROVE  /\ arbReq.valid
         /\ arbReq.write => arbIndex # FetchPort /\ MemReq /\ OpOf(M) = "store"
<1>1. CASE arbIndex = FetchPort
  BY <1>1 DEF AccessInv, BusesInv, MmuServes
<1>2. CASE arbIndex # FetchPort
  <2>1. MemReq /\ arbReq = DataReq
    BY <1>2 DEF AccessInv, BusesInv, MmuServes, BusInv
  <2>2. QED
    BY <1>2, <2>1 DEF DataReq
<1>3. QED
  BY <1>1, <1>2

\* The moves of the MMU, each with what the rest of the buses does.
LEMMA MmuMoves ==
  ASSUME CoreTypeOK, PipeInv, BusInv, AccessInv, NoSret,
         NEW enable, NEW in \in Inputs, AccessEdge(enable, in)
  PROVE  \/ Cancelled /\ MmuFlush
         \/ /\ ~Cancelled /\ ~arbBusy /\ mmuState = "IDLE"
            /\ mmuState' = "IDLE" /\ mmuFault' = "none"
            /\ UNCHANGED <<tlb, tlbPtr>>
         \/ /\ ~Cancelled /\ arbBusy /\ mmuState = "IDLE" /\ UNCHANGED arbVars
            /\ MmuTake(arbReq, priv, satp) /\ mmuFault' = "none"
            /\ UNCHANGED <<tlb, tlbPtr>>
         \/ ~Cancelled /\ arbBusy /\ MmuAsk /\ UNCHANGED arbVars
         \/ /\ ~Cancelled /\ arbBusy /\ cbBusy /\ UNCHANGED arbVars
            /\ mmuState \in {"WAIT", "WAIT_P"} /\ ~DeviceResp(enable).ok
            /\ UNCHANGED mmuVars
         \/ /\ ~Cancelled /\ arbBusy /\ cbBusy /\ UNCHANGED arbVars
            /\ DeviceResp(enable).ok
            /\ \/ MmuWalk(ArbAccess, priv, DeviceResp(enable))
               \/ MmuAccessDone(DeviceResp(enable))
         \/ ~Cancelled /\ arbBusy /\ MmuFinish /\ ~arbBusy'
<1>1. MmuClock(Cancelled, ArbFinalReq(Cancelled), ArbAccess, priv, satp, MemResp(enable))
  BY DEF AccessEdge
<1>2. CASE Cancelled
  BY <1>1, <1>2 DEF MmuClock
<1>3. CASE ~Cancelled
  <2>1. mmuFault = "none" /\ (mmuState # "IDLE" => arbBusy)
    BY <1>3, QuietCycle DEF AccessInv, BusesInv, MmuServes
  <2>2. ArbFinalReq(Cancelled) = IF arbBusy THEN arbReq ELSE NoRequest
    BY <1>3 DEF ArbFinalReq, CoreTypeOK, ArbTypeOK
  <2>3. mmuState # "RESP" /\ arbBusy => UNCHANGED arbVars
    BY <1>3, ArbHolds DEF Answered
  <2>4. mmuState \in {"WAIT", "WAIT_P"} => cbBusy /\ MemResp(enable) = DeviceResp(enable)
    BY DEF AccessInv, BusesInv, BusServes, MemResp, CBusResp
  <2>5. CASE MmuIdle(ArbFinalReq(Cancelled), priv, satp)
    <3>1. CASE arbBusy
      BY <1>3, <2>2, <2>3, <2>5, <3>1, Held DEF MmuIdle
    <3>2. CASE ~arbBusy
      BY <1>3, <2>2, <2>5, <3>2 DEF MmuIdle, NoRequest
    <3>3. QED
      BY <3>1, <3>2
  <2>6. CASE MmuAsk
    BY <1>3, <2>1, <2>3, <2>6 DEF MmuAsk
  <2>7. CASE MmuWalk(ArbAccess, priv, MemResp(enable))
    BY <1>3, <2>1, <2>3, <2>4, <2>7 DEF MmuWalk
  <2>8. CASE MmuAccessDone(MemResp(enable))
    BY <1>3, <2>1, <2>3, <2>4, <2>8 DEF MmuAccessDone
  <2>9. CASE mmuState \in {"WAIT", "WAIT_P"} /\ ~MemResp(enable).ok /\ UNCHANGED mmuVars
    BY <1>3, <2>1, <2>3, <2>4, <2>9
  <2>10. CASE MmuFinish
    <3>1. Answered /\ arbBusy
      BY <1>3, <2>1, <2>10 DEF MmuFinish, Answered
    <3>2. MmuAnswer.ok
      BY <3>1, PortAnswer DEF AccessInv, BusesInv, DataPort
    <3>3. ~arbBusy'
      BY <1>3, <3>1, <3>2 DEF AccessEdge, ArbClock, ArbRelease, ArbAccept
    <3>4. QED
      BY <1>3, <2>10, <3>1, <3>3
  <2>11. QED
    BY <1>1, <1>3, <2>5, <2>6, <2>7, <2>8, <2>9, <2>10 DEF MmuClock
<1>4. QED
  BY <1>2, <1>3

\* The MMU works on what the arbiter holds, and that on what a port asks.
LEMMA ServesStep ==
  ASSUME CoreTypeOK, PipeInv, BusInv, AccessInv, NoSret,
         NEW enable, NEW in \in Inputs, AccessEdge(enable, in)
  PROVE  MmuServes'
<1>1. ASSUME arbBusy'
      PROVE  arbReq' = IF arbIndex' = FetchPort
                       THEN [valid |-> TRUE, addr |-> miss'.addr, write |-> FALSE]
                       ELSE DataReq'
  <2>1. /\ ArbClock(Cancelled, PortReqs(Cancelled), MmuAnswer)
        /\ BridgeClock(Cancelled, fReq, FetchAnswer)
    BY DEF AccessEdge
  <2>2. ~Cancelled
    BY <1>1, <2>1 DEF ArbClock, ArbRelease
  <2>3. /\ Ports = {0, 1}
        /\ PortReqs(Cancelled)[DataPort] = DataReq
        /\ PortReqs(Cancelled)[FetchPort] = BridgeReq(Cancelled, fReq)
    BY CoreAssumption DEF Ports, PortReqs, DataPort, FetchPort
  <2>4. CASE ~arbBusy
    <3>1. PICK i \in Ports : /\ Preferred(PortReqs(Cancelled), i)
                             /\ arbIndex' = i /\ arbReq' = PortReqs(Cancelled)[i]
      BY <1>1, <2>1, <2>2, <2>4 DEF ArbClock, ArbAccept, arbVars
    <3>2. CASE i = DataPort
      <4>1. MemReq
        BY <2>3, <3>1, <3>2 DEF Preferred, DataReq, NoRequest
      <4>2. DataReq' = DataReq
        BY <2>2, <2>4, <4>1, MemWaits DEF Answers
      <4>3. QED
        BY <2>3, <3>1, <3>2, <4>2 DEF DataPort, FetchPort
    <3>3. CASE i = FetchPort
      <4>1. MissFire(Cancelled, fReq)
        BY <2>3, <3>1, <3>3 DEF Preferred, BridgeReq, NoRequest
      <4>2. miss'.addr = LineOf(fReq)
        BY <2>1, <2>2, <4>1 DEF BridgeClock, BridgeMiss, BridgeFill, MissFire, Hit
      <4>3. QED
        BY <2>3, <3>1, <3>3, <4>1, <4>2 DEF BridgeReq
    <3>4. QED
      BY <2>3, <3>2, <3>3 DEF DataPort, FetchPort
  <2>5. CASE arbBusy
    <3>1. UNCHANGED arbVars /\ ~Answered
      <4>1. ~Answered
        BY <1>1, <2>1, <2>2, <2>5, PortAnswer
           DEF ArbClock, ArbRelease, ArbAccept, AccessInv, BusesInv, DataPort
      <4>2. QED
        BY <2>2, <2>5, <4>1, ArbHolds
    <3>2. CASE arbIndex = FetchPort
      <4>1. miss.pending /\ ~FetchAnswer.ok
        BY <2>5, <3>1, <3>2 DEF BusInv, FetchAnswer, Answers, NoResponse
      <4>2. miss' = miss
        BY <2>1, <2>2, <4>1 DEF BridgeClock, BridgeMiss, BridgeFill, MissFire, bridgeVars
      <4>3. QED
        BY <2>5, <3>1, <3>2, <4>2 DEF AccessInv, BusesInv, MmuServes, arbVars
    <3>3. CASE arbIndex # FetchPort
      <4>1. DataReq' = DataReq
        BY <2>2, <2>5, <3>1, <3>3, MemWaits DEF BusInv, Answers
      <4>2. QED
        BY <2>5, <3>1, <3>3, <4>1 DEF AccessInv, BusesInv, MmuServes, arbVars
    <3>4. QED
      BY <3>2, <3>3
  <2>6. QED
    BY <2>4, <2>5 DEF CoreTypeOK, ArbTypeOK
<1>2. /\ mmuState' # "IDLE" => arbBusy' /\ (mmuFault' = "none" => mmuReq' = arbReq')
      /\ mmuFault' # "none" => mmuState' = "RESP" /\ mmuFault' = ArbAccess'
      /\ mmuState' = "RESP" /\ mmuFault' = "none" => mmuResp'.ok
  <2>1. UNCHANGED arbVars => ArbAccess' = ArbAccess
    BY DEF arbVars, ArbAccess
  <2>2. CASE MmuFlush
    BY <2>2 DEF MmuFlush
  <2>3. CASE mmuState' = "IDLE" /\ mmuFault' = "none"
    BY <2>3
  <2>4. CASE /\ arbBusy /\ UNCHANGED arbVars
             /\ MmuTake(arbReq, priv, satp) /\ mmuFault' = "none"
    BY <2>4 DEF MmuTake, MmuPhysical, arbVars
  <2>5. CASE arbBusy /\ MmuAsk /\ UNCHANGED arbVars
    BY <2>5 DEF MmuAsk, arbVars, AccessInv, BusesInv, MmuServes
  <2>6. CASE arbBusy /\ UNCHANGED mmuVars /\ UNCHANGED arbVars
    BY <2>1, <2>6 DEF mmuVars, walkVars, arbVars, AccessInv, BusesInv, MmuServes
  <2>7. CASE /\ arbBusy /\ UNCHANGED arbVars /\ MmuAccessDone(DeviceResp(enable))
    BY <2>7 DEF MmuAccessDone, arbVars, AccessInv, BusesInv, MmuServes
  <2>8. CASE /\ ~Cancelled /\ arbBusy /\ UNCHANGED arbVars
             /\ MmuWalk(ArbAccess, priv, DeviceResp(enable))
    <3>1. mmuFault = "none" /\ mmuReq = arbReq
      BY <2>8 DEF MmuWalk, AccessInv, BusesInv, MmuServes
    <3> DEFINE pte == PteOf(DeviceResp(enable).data)
    <3>2. \/ MmuRaise(ArbAccess, priv, pte)
          \/ MmuLeaf(ArbAccess, priv, pte)
          \/ MmuPointer(ArbAccess, priv, pte)
      BY <2>8 DEF MmuWalk
    <3> HIDE DEF pte
    <3>3. ArbAccess # "none"
      BY DEF ArbAccess
    <3>4. CASE MmuRaise(ArbAccess, priv, pte)
      BY <2>1, <2>8, <3>3, <3>4 DEF MmuRaise, arbVars
    <3>5. CASE mmuState' \in {"REQ", "REQ_P"} /\ UNCHANGED <<mmuReq, mmuFault>>
      BY <2>8, <3>1, <3>5 DEF arbVars
    <3>6. QED
      BY <3>2, <3>4, <3>5 DEF MmuLeaf, MmuPointer
  <2>9. CASE ~Cancelled /\ MmuFinish
    <3>1. mmuFault = "none"
      BY <2>9, QuietCycle
    <3>2. QED
      BY <2>9, <3>1 DEF MmuFinish
  <2>10. QED
    BY <2>2, <2>3, <2>4, <2>5, <2>6, <2>7, <2>8, <2>9, MmuMoves
<1>3. QED
  BY <1>1, <1>2 DEF MmuServes

\* The CBus carries exactly what the MMU waits for.
LEMMA BusServesStep ==
  ASSUME CoreTypeOK, PipeInv, BusInv, AccessInv, NoSret,
         NEW enable, NEW in \in Inputs, AccessEdge(enable, in)
  PROVE  BusServes'
<1>1. /\ CBusClock(MasterReqs(Cancelled), DeviceResp(enable))
      /\ orphan' = IF cbBusy /\ ~DeviceResp(enable).ok THEN orphan \/ Cancelled ELSE FALSE
  BY DEF AccessEdge, HistoryClock, Cancelled
<1>2. ~orphan'
  BY <1>1, QuietCycle DEF AccessInv, BusesInv, BusServes
<1>3. Masters = {0, 1}
  BY CoreAssumption DEF Masters
<1>4. cbBusy \in BOOLEAN
  BY DEF CoreTypeOK, CBusTypeOK
<1>5. ASSUME ~cbBusy
      PROVE  /\ cbBusy' <=> MmuMemReq(Cancelled).valid
             /\ cbBusy' => cbIndex' = 0 /\ cbReq' = MmuMemReq(Cancelled)
  BY <1>1, <1>3, <1>5 DEF CBusClock, CBusLatch, Chosen, MasterReqs, NoRequest
<1>6. /\ cbBusy' <=> mmuState' \in {"WAIT", "WAIT_P"}
      /\ cbBusy' => cbIndex' = 0 /\ cbReq' = MmuMemReq(FALSE)'
  <2>1. CASE Cancelled /\ MmuFlush
    BY <1>5, <2>1, QuietCycle DEF MmuMemReq, NoRequest, MmuFlush
  <2>2. CASE ~Cancelled /\ mmuState = "IDLE" /\ mmuState' \in {"IDLE", "REQ", "REQ_P"}
    <3>1. ~cbBusy
      BY <2>2 DEF AccessInv, BusesInv, BusServes
    <3>2. QED
      BY <1>5, <2>2, <3>1 DEF MmuMemReq, NoRequest
  <2>3. CASE ~Cancelled /\ MmuAsk
    <3>1. ~cbBusy /\ mmuReq = arbReq /\ arbReq.valid
      BY <2>3, QuietCycle, Held DEF MmuAsk, AccessInv, BusesInv, BusServes, MmuServes
    <3>2. /\ MmuMemReq(Cancelled).valid
          /\ MmuMemReq(FALSE)' = MmuMemReq(Cancelled)
      BY <2>3, <3>1 DEF MmuMemReq, MmuAsk, CoreTypeOK, MmuTypeOK, Requests
    <3>3. QED
      BY <1>5, <2>3, <3>1, <3>2 DEF MmuAsk
  <2>4. CASE cbBusy /\ ~DeviceResp(enable).ok /\ UNCHANGED mmuVars
    <3>1. UNCHANGED cbVars
      BY <1>1, <2>4 DEF CBusClock, CBusDone
    <3>2. QED
      BY <2>4, <3>1 DEF cbVars, mmuVars, walkVars, MmuMemReq, AccessInv, BusesInv, BusServes
  <2>5. CASE /\ cbBusy /\ DeviceResp(enable).ok
             /\ \/ MmuWalk(ArbAccess, priv, DeviceResp(enable))
                \/ MmuAccessDone(DeviceResp(enable))
    <3>1. ~cbBusy'
      BY <1>1, <2>5 DEF CBusClock, CBusDone
    <3>2. QED
      BY <2>5, <3>1 DEF MmuWalk, MmuRaise, MmuLeaf, MmuPointer, MmuAccessDone
  <2>6. CASE ~Cancelled /\ MmuFinish
    <3>1. ~cbBusy
      BY <2>6 DEF MmuFinish, AccessInv, BusesInv, BusServes
    <3>2. QED
      BY <1>5, <2>6, <3>1 DEF MmuFinish, MmuMemReq, NoRequest
  <2>7. MmuTake(arbReq, priv, satp) => mmuState' \in {"REQ", "REQ_P"}
    BY DEF MmuTake, MmuPhysical
  <2>8. QED
    BY <2>1, <2>2, <2>3, <2>4, <2>5, <2>6, <2>7, MmuMoves
<1>7. QED
  BY <1>2, <1>6 DEF BusServes
-----------------------------------------------------------------------------
(* The write of a store.                                                   *)

\* The memory performs a write in the cycle whose answer the MMU keeps for
\* the store in MEM, and in no other.
LEMMA WriteAnswered ==
  ASSUME CoreTypeOK, PipeInv, BusInv, AccessInv, DeviceStable, NoSret,
         NEW enable \in BOOLEAN, NEW in \in Inputs, AccessEdge(enable, in)
  PROVE  /\ DeviceStores(enable) =>
              /\ ~Cancelled /\ mmuState = "WAIT_P" /\ arbBusy /\ arbReq.write
              /\ arbIndex = DataPort
         /\ (mmuState' = "RESP" /\ mmuFault' = "none" /\ arbReq'.write)
              <=> DeviceStores(enable)
<1>1. mmuFault = "none" /\ mmuState \in {"WAIT", "WAIT_P"} => mmuReq = arbReq /\ arbBusy
  BY DEF AccessInv, BusesInv, MmuServes
<1>2. cbBusy => /\ mmuState \in {"WAIT", "WAIT_P"} /\ cbReq = MmuMemReq(FALSE)
                /\ mmuFault = "none" /\ arbBusy /\ mmuReq = arbReq
  BY DEF AccessInv, BusesInv, BusServes, MmuServes
<1>3. cbBusy /\ cbReq.write <=> mmuState = "WAIT_P" /\ arbReq.write
  <2>1. mmuState = "WAIT_P" => cbBusy
    BY DEF AccessInv, BusesInv, BusServes
  <2>2. mmuState = "WAIT" => ~MmuMemReq(FALSE).write
    BY DEF MmuMemReq
  <2>3. mmuState = "WAIT_P" => MmuMemReq(FALSE).write = mmuReq.write
    BY DEF MmuMemReq, CoreTypeOK, MmuTypeOK, Requests
  <2>4. QED
    BY <1>2, <2>1, <2>2, <2>3
<1>4. tx.valid => cbBusy /\ cbReq = tx
  BY DEF DeviceStable, CBusReq, NoRequest
<1>5. ASSUME DeviceStores(enable)
      PROVE  /\ ~Cancelled /\ mmuState = "WAIT_P" /\ arbBusy /\ arbReq.write
             /\ arbIndex = DataPort
  <2>1. cbBusy /\ cbReq.write
    BY <1>4, <1>5 DEF DeviceStores
  <2>2. ~Cancelled
    BY <2>1, QuietCycle
  <2>3. arbIndex = DataPort
    BY <1>2, <1>3, <2>1, Held, CoreAssumption
       DEF CoreTypeOK, ArbTypeOK, Ports, DataPort, FetchPort
  <2>4. QED
    BY <1>2, <1>3, <2>1, <2>2, <2>3
<1>6. DeviceResp(enable).ok => tx.valid /\ enable
  BY DEF DeviceResp, NoResponse
<1>7. ASSUME mmuState' = "RESP", mmuFault' = "none", arbReq'.write
      PROVE  DeviceStores(enable)
  <2>1. CASE MmuAccessDone(DeviceResp(enable)) /\ UNCHANGED arbVars
    <3>1. tx.valid /\ enable /\ mmuState = "WAIT_P" /\ arbReq.write
      BY <1>6, <1>7, <2>1 DEF MmuAccessDone, arbVars
    <3>2. QED
      BY <1>3, <1>4, <3>1 DEF DeviceStores
  <2>2. ~MmuWalk(ArbAccess, priv, DeviceResp(enable))
    <3> DEFINE pte == PteOf(DeviceResp(enable).data)
    <3>1. MmuWalk(ArbAccess, priv, DeviceResp(enable)) =>
              \/ MmuRaise(ArbAccess, priv, pte)
              \/ MmuLeaf(ArbAccess, priv, pte)
              \/ MmuPointer(ArbAccess, priv, pte)
      BY DEF MmuWalk
    <3> HIDE DEF pte
    <3>2. ArbAccess # "none"
      BY DEF ArbAccess
    <3>3. QED
      BY <1>7, <3>1, <3>2 DEF MmuRaise, MmuLeaf, MmuPointer
  <2>3. MmuTake(arbReq, priv, satp) => mmuState' \in {"REQ", "REQ_P"}
    BY DEF MmuTake, MmuPhysical
  <2>4. UNCHANGED mmuVars => mmuState' = mmuState
    BY DEF mmuVars, walkVars
  <2>5. QED
    BY <1>7, <2>1, <2>2, <2>3, <2>4, MmuMoves DEF MmuFlush, MmuAsk, MmuFinish
<1>8. ASSUME DeviceStores(enable)
      PROVE  mmuState' = "RESP" /\ mmuFault' = "none" /\ arbReq'.write
  <2>1. ~Cancelled /\ mmuState = "WAIT_P" /\ arbBusy /\ arbReq.write /\ mmuFault = "none"
    BY <1>2, <1>4, <1>5, <1>8 DEF DeviceStores
  <2>2. DeviceResp(enable).ok
    BY <1>8 DEF DeviceStores, DeviceResp
  <2>3. MmuAccessDone(DeviceResp(enable)) /\ UNCHANGED arbVars
    BY <2>1, <2>2, MmuMoves DEF MmuAsk, MmuWalk, MmuFinish
  <2>4. QED
    BY <2>1, <2>3 DEF MmuAccessDone, arbVars
<1>9. QED
  BY <1>5, <1>7, <1>8

\* What has been written for the store in MEM, and for the one in WB.
LEMMA CountStep ==
  ASSUME CoreTypeOK, PipeInv, BusInv, AccessInv, DeviceStable, NoSret,
         NEW enable \in BOOLEAN, NEW in \in Inputs, AccessEdge(enable, in)
  PROVE  StoreCounted'
<1> DEFINE written == IF DeviceStores(enable) THEN 1 ELSE 0
           now     == Cap2(stores.M + written)
<1>1. stores' = [M |-> IF OpOf(M) = "store" /\ ~MemStall(in) THEN 0 ELSE now,
                 W |-> IF MemStall(in) THEN stores.W ELSE now]
  BY DEF AccessEdge, HistoryClock
<1>2. DeviceStores(enable) => MemStall(in) /\ stores.M = 0
  <2>1. DeviceStores(enable) => MemReq
    BY WriteAnswered, Held
  <2>2. QED
    BY <2>1, WriteAnswered, MemWaits DEF Answers, Answered, AccessInv, BusesInv, StoreCounted
<1>3. stores.M = 1 => MemReq /\ OpOf(M) = "store" /\ ~MemStall(in)
  <2> SUFFICES ASSUME stores.M = 1
               PROVE  MemReq /\ OpOf(M) = "store" /\ ~MemStall(in)
    OBVIOUS
  <2>1. mmuState = "RESP" /\ mmuFault = "none" /\ arbReq.write
    BY DEF AccessInv, BusesInv, StoreCounted
  <2>2. arbBusy
    BY <2>1 DEF AccessInv, BusesInv, MmuServes
  <2>3. arbIndex = DataPort /\ MemReq /\ OpOf(M) = "store"
    BY <2>1, <2>2, Held, CoreAssumption
       DEF CoreTypeOK, ArbTypeOK, Ports, DataPort, FetchPort
  <2>4. QED
    BY <2>1, <2>2, <2>3, MemWaits DEF Answers, Answered
<1>4. stores.M \in {0, 1}
  BY DEF AccessInv, BusesInv, StoreCounted
<1>5. ~DeviceStores(enable) => now = stores.M
  BY <1>4 DEF Cap2
<1>6. DeviceStores(enable) => now = 1
  BY <1>2 DEF Cap2
<1> HIDE DEF written, now
<1>7. stores'.M = IF DeviceStores(enable) THEN 1 ELSE 0
  BY <1>1, <1>2, <1>3, <1>4, <1>5, <1>6
<1>8. ASSUME W'.valid, OpOf(W') = "store"
      PROVE  stores'.W = IF ExceptionW' THEN 0 ELSE 1
  <2>1. CASE MemStall(in)
    <3>1. W' = W /\ stores'.W = stores.W
      BY <1>1, <2>1 DEF AccessEdge, PipeClock, MemWbClock
    <3>2. ExceptionW' = ExceptionW
      BY <3>1 DEF ExceptionW, OpOf
    <3>3. QED
      BY <1>8, <3>1, <3>2 DEF AccessInv, BusesInv, StoreCounted
  <2>2. CASE ~MemStall(in)
    <3>1. stores'.W = stores.M
      BY <1>1, <1>2, <1>5, <2>2
    <3>2. W' = [M EXCEPT !.dexc = DataMisaligned(M),
                         !.dpf = mmuFault \in {"LOAD", "STORE"},
                         !.val = IF OpOf(M) = "load" THEN in.dval ELSE M.val]
      BY <2>2 DEF AccessEdge, PipeClock, MemWbClock
    <3>3. /\ W'.valid = M.valid /\ W'.instr = M.instr
          /\ W'.iexc = M.iexc /\ W'.ipf = M.ipf
          /\ W'.dexc = DataMisaligned(M) /\ W'.dpf = (mmuFault \in {"LOAD", "STORE"})
      BY <3>2 DEF CoreTypeOK, PipeTypeOK, Slot
    <3>4. M.valid /\ OpOf(M) = "store" /\ ~M.iexc /\ ~M.ipf
      BY <1>8, <3>3 DEF OpOf, AccessInv, BusesInv, FlagsEarly
    <3>5. ExceptionW' <=> DataMisaligned(M) \/ mmuFault \in {"LOAD", "STORE"}
      BY <1>8, <3>3, <3>4 DEF ExceptionW
    <3>6. MemReq <=> ~DataMisaligned(M)
      BY <3>4 DEF MemReq
    <3>7. CASE ~MemReq
      BY <1>3, <1>4, <3>1, <3>5, <3>6, <3>7
    <3>8. CASE MemReq /\ Cancelled
      <4>1. ~W.valid
        BY <3>4, SpacingSuffices DEF OneInFlight, CoreTypeOK
      <4>2. mmuFault \in {"LOAD", "STORE"}
        BY <3>8, <4>1, QuietCycle DEF ExceptionW, MretValid
      <4>3. stores.M = 0
        BY <4>2 DEF AccessInv, BusesInv, StoreCounted
      <4>4. QED
        BY <3>1, <3>5, <4>2, <4>3
    <3>9. CASE MemReq /\ ~Cancelled
      <4>1. Answers(DataPort) /\ mmuFault = "none"
        BY <2>2, <3>9, MemWaits, QuietCycle
      <4>2. arbReq.write
        <5>1. arbReq = DataReq
          BY <4>1 DEF Answers, AccessInv, BusesInv, MmuServes, DataPort, FetchPort
        <5>2. QED
          BY <3>4, <3>9, <5>1 DEF DataReq
      <4>3. stores.M = 1
        BY <4>1, <4>2 DEF AccessInv, BusesInv, StoreCounted, Answers, Answered
      <4>4. QED
        BY <3>1, <3>5, <3>6, <3>9, <4>1, <4>3
    <3>10. QED
      BY <3>7, <3>8, <3>9
  <2>3. QED
    BY <2>1, <2>2
<1>9. QED
  BY <1>7, <1>8, WriteAnswered DEF StoreCounted
-----------------------------------------------------------------------------
(* The theorems.                                                           *)

\* A miss that fetch waits for alone meets nothing that could disturb it.
LEMMA AloneIsQuiet == CoreTypeOK /\ PipeInv /\ MissAlone => MissQuiet
<1> SUFFICES ASSUME CoreTypeOK, PipeInv, MissAlone, miss.pending PROVE MissQuiet
  BY DEF MissQuiet
<1>1. fCur = "EXEC" /\ fReq # Nil /\ ~M.valid /\ ~W.valid /\ miss.addr = LineOf(fReq)
  BY DEF MissAlone
<1>2. fReq \in Int
  BY <1>1, AddrAssumption DEF CoreTypeOK, PipeTypeOK, FetchTypeOK, Addr
<1>3. (fReq - (fReq % 8)) % 8 = 0
  BY <1>2
<1>4. QED
  BY <1>1, <1>3 DEF MissQuiet, LineOf, PipeInv, BubblesEmpty, ExceptionW

\* Behind a quiet miss the buses go on as one.
LEMMA BusesStep ==
  ASSUME CoreTypeOK, PipeInv, BusInv, AccessInv, DeviceStable, NoSret,
         NEW enable \in BOOLEAN, NEW in \in Inputs, AccessEdge(enable, in)
  PROVE  BusesInv'
<1>1. MmuServes'
  BY ServesStep
<1>2. BusServes'
  BY BusServesStep
<1>3. FlagsEarly'
  BY FlagsStep
<1>4. StoreCounted'
  BY CountStep
<1>5. QED
  BY <1>1, <1>2, <1>3, <1>4 DEF BusesInv

LEMMA BusesStutter == BusesInv /\ UNCHANGED coreVars => BusesInv'
<1> SUFFICES ASSUME BusesInv, UNCHANGED coreVars PROVE BusesInv'
  OBVIOUS
<1> USE DEF coreVars, BusesInv
<1>1. MmuServes' /\ BusServes'
  BY DEF pipeVars, slotVars, bridgeVars, arbVars, mmuVars, walkVars, cbVars,
         histVars, MmuServes, BusServes, DataReq, MemReq, DataMisaligned, OpOf,
         ArbAccess, MmuMemReq
<1>2. FlagsEarly'
  BY DEF pipeVars, fetchVars, slotVars, FlagsEarly, OpOf
<1>3. StoreCounted'
  BY DEF pipeVars, slotVars, mmuVars, walkVars, arbVars, histVars, StoreCounted,
         ExceptionW, OpOf
<1>4. QED
  BY <1>1, <1>2, <1>3

LEMMA BusesStart == CoreInit => MissAlone /\ BusesInv
<1> SUFFICES ASSUME CoreInit PROVE MissAlone /\ BusesInv
  OBVIOUS
<1> USE DEF CoreInit, PipeInit
<1>1. MissAlone
  BY DEF FetchInit, BridgeInit, NoMiss, MissAlone
<1>2. MmuServes /\ BusServes
  BY DEF MmuInit, ArbInit, CBusInit, HistoryInit, MmuServes, BusServes
<1>3. FlagsEarly
  BY DEF FlagsEarly, FetchInit, Bubble, OpOf
<1>4. StoreCounted
  BY DEF MmuInit, HistoryInit, StoreCounted, Bubble
<1>5. QED
  BY <1>1, <1>2, <1>3, <1>4 DEF BusesInv

\* The invariant of the accesses: while no interrupt is taken and no fetch
\* faults, what the bridge, the arbiter, the MMU, the CBus and the memory
\* hold is one and the same access.
THEOREM AccessInvariant ==
  CoreSpec /\ []NoInterrupts /\ []NoSret /\ []NoFetchFault => [](MissAlone /\ AccessInv)
<1>1. /\ CoreTypeOK /\ PipeInv /\ BusInv /\ MissAlone /\ BusesInv /\ DeviceStable
      /\ NoInterrupts /\ NoFetchFault /\ NoSret /\ [CoreNext]_coreVars
      => MissAlone' /\ BusesInv'
  <2> SUFFICES ASSUME CoreTypeOK, PipeInv, BusInv, MissAlone, BusesInv, DeviceStable,
                      NoInterrupts, NoFetchFault, NoSret, [CoreNext]_coreVars
               PROVE  MissAlone' /\ BusesInv'
    OBVIOUS
  <2>1. AccessInv
    BY AloneIsQuiet DEF AccessInv
  <2>2. CASE CoreNext
    <3>1. PICK enable \in BOOLEAN, in \in Inputs : AccessEdge(enable, in)
      BY <2>2, AccessClock DEF BusesInv
    <3>2. MissAlone'
      BY <2>1, <3>1, MissStep
    <3>3. QED
      BY <2>1, <3>1, <3>2, BusesStep
  <2>3. CASE UNCHANGED coreVars
    <3>1. MissAlone'
      BY <2>3 DEF coreVars, pipeVars, fetchVars, slotVars, bridgeVars, MissAlone, Hit,
                  ExceptionW, OpOf
    <3>2. QED
      BY <2>3, <3>1, BusesStutter
  <2>4. QED
    BY <2>2, <2>3
<1>2. CoreTypeOK /\ PipeInv /\ MissAlone /\ BusesInv => AccessInv
  BY AloneIsQuiet DEF AccessInv
<1>3. QED
  BY CoreTypeCorrect, CoreImplementsPipe, PipelineInvariant, FetchBusInvariant,
     DeviceRequestStable, BusesStart, <1>1, <1>2, PTL DEF CoreSpec

\* A store reaches memory exactly once before it retires, and not at all if
\* it traps.
THEOREM StoreReachesOnce ==
  CoreSpec /\ []NoInterrupts /\ []NoSret /\ []NoFetchFault => []StoreOnce
<1>1. AccessInv => StoreOnce
  BY DEF AccessInv, BusesInv, StoreCounted, StoreOnce
<1>2. QED
  BY AccessInvariant, <1>1, PTL

\* No cancel leaves a transaction behind on the CBus: with no interrupt taken
\* and no fetch fault every answer is for the access that is waiting.
THEOREM NothingLeftBehind ==
  CoreSpec /\ []NoInterrupts /\ []NoSret /\ []NoFetchFault => [](~orphan)
<1>1. AccessInv => ~orphan
  BY DEF AccessInv, BusesInv, BusServes
<1>2. QED
  BY AccessInvariant, <1>1, PTL
=============================================================================
