----------------------------- MODULE CoreProofs -----------------------------
(***************************************************************************)
(* Proofs about the whole machine, for every program, page table, address  *)
(* space and TLB, with interrupts and memory delays at any time.           *)
(***************************************************************************)
EXTENDS CoreProps, PipelineProofs

LEMMA ModAddr == ASSUME NEW n \in Int PROVE n % AddrSpace \in Addr
  BY AddrAssumption DEF Addr

LEMMA SpanType == ASSUME NEW level \in Levels PROVE Span(level) \in Nat \ {0}
  BY PageAssumption, Z3 DEF Span, Levels

\* Lines, entries, tables and translations are addresses.
LEMMA LineType == ASSUME NEW a \in Addr PROVE LineOf(a) \in Addr
  BY AddrAssumption DEF LineOf, Addr

LEMMA WordType ==
  ASSUME NEW d \in Addr \cup {Zero}, NEW upper PROVE WordOf(d, upper) \in Words
  BY Plus4Type DEF WordOf, Words

LEMMA PteAddrType ==
  ASSUME NEW t \in Addr, NEW va \in Addr, NEW level \in Levels
  PROVE  PteAddr(t, va, level) \in Addr
<1>1. Span(level) \in Nat \ {0} /\ Fanout \in Nat \ {0} /\ t \in Int /\ va \in Int
  BY SpanType, PageAssumption, AddrAssumption DEF Addr
<1>2. va \div Span(level) \in Int
  BY <1>1
<1>3. (va \div Span(level)) % Fanout \in Int
  BY <1>1, <1>2
<1>4. t + 8 * ((va \div Span(level)) % Fanout) \in Int
  BY <1>1, <1>3
<1>5. QED
  BY <1>4, ModAddr DEF PteAddr

LEMMA PageAtType == ASSUME NEW ppn \in Nat PROVE PageAt(ppn) \in Addr
<1>1. ppn * PageSize \in Int
  BY PageAssumption
<1>2. QED
  BY <1>1, ModAddr DEF PageAt

LEMMA LeafType ==
  ASSUME NEW ppn \in Nat, NEW va \in Addr, NEW level \in Levels
  PROVE  Leaf(ppn, va, level) \in Addr
<1>1. Span(level) \in Nat \ {0} /\ va \in Int
  BY SpanType, AddrAssumption DEF Addr
<1>2. ppn * PageSize \in Int
  BY PageAssumption
<1>3. (ppn * PageSize) % Span(level) \in Int /\ va % Span(level) \in Int
  BY <1>1, <1>2
<1>4. ((ppn * PageSize - ((ppn * PageSize) % Span(level))) + (va % Span(level))) \in Int
  BY <1>2, <1>3
<1>5. QED
  BY <1>4, ModAddr DEF Leaf

LEMMA PteType == ASSUME NEW d \in Addr \cup {Zero} PROVE PteOf(d).ppn \in Nat
  BY PageAssumption DEF PteOf, ZeroPte

LEMMA TlbPaddrType ==
  ASSUME MmuTypeOK, NEW va \in Addr, NEW i \in TlbRows
  PROVE  TlbPaddr(va, i) \in Addr
<1>1. tlb[i].pa \in Int /\ tlb[i].level \in Levels /\ va \in Int
  BY AddrAssumption DEF MmuTypeOK, TlbEntries, Addr
<1>2. va % Span(tlb[i].level) \in Int
  BY <1>1, SpanType
<1>3. tlb[i].pa + (va % Span(tlb[i].level)) \in Int
  BY <1>1, <1>2
<1>4. QED
  BY <1>3, ModAddr DEF TlbPaddr
-----------------------------------------------------------------------------
(* What travels on the wires has its type.                                 *)

LEMMA NothingType == NoRequest \in Requests /\ NoResponse \in Responses
  BY ResetAddr DEF NoRequest, Requests, NoResponse, Responses

LEMMA DeviceRespType ==
  ASSUME DeviceTypeOK, NEW enable PROVE DeviceResp(enable) \in Responses
  BY NothingType, LineType DEF DeviceTypeOK, DeviceResp, Responses, Requests

LEMMA MemRespType ==
  ASSUME DeviceTypeOK, NEW enable PROVE MemResp(enable) \in Responses
  BY NothingType, DeviceRespType DEF MemResp, CBusResp

LEMMA MmuCpuRespType ==
  ASSUME MmuTypeOK, NEW flush PROVE MmuCpuResp(flush) \in Responses
  BY NothingType DEF MmuTypeOK, MmuCpuResp, Responses

LEMMA MmuMemReqType ==
  ASSUME MmuTypeOK, NEW flush PROVE MmuMemReq(flush) \in Requests
<1>1. PteAddr(mmuTable, mmuReq.addr, mmuLevel) \in Addr
  BY PteAddrType DEF MmuTypeOK, Requests
<1>2. [mmuReq EXCEPT !.addr = mmuPaddr] \in Requests
  BY DEF MmuTypeOK, Requests
<1>3. [valid |-> TRUE, write |-> FALSE,
       addr |-> PteAddr(mmuTable, mmuReq.addr, mmuLevel)] \in Requests
  BY <1>1 DEF Requests
<1>4. QED
  BY <1>2, <1>3, NothingType DEF MmuMemReq

LEMMA PortRespType ==
  ASSUME MmuTypeOK, NEW i, NEW cancel PROVE PortResp(i, cancel) \in Responses
  BY NothingType, MmuCpuRespType DEF PortResp, ArbResp

LEMMA DataReqType == ASSUME PipeTypeOK PROVE DataReq \in Requests
<1>1. CASE MemReq
  <2>1. M.alu \in Addr
    BY <1>1 DEF PipeTypeOK, Slot, MemReq, DataMisaligned, Nil
  <2>2. QED
    BY <1>1, <2>1 DEF DataReq, Requests
<1>2. CASE ~MemReq
  BY <1>2, NothingType DEF DataReq
<1>3. QED
  BY <1>1, <1>2

LEMMA BridgeReqType ==
  ASSUME FetchTypeOK, NEW cancel PROVE BridgeReq(cancel, fReq) \in Requests
<1>1. CASE MissFire(cancel, fReq)
  BY <1>1, LineType DEF FetchTypeOK, BridgeReq, MissFire, Requests
<1>2. CASE ~MissFire(cancel, fReq)
  BY <1>2, NothingType DEF BridgeReq
<1>3. QED
  BY <1>1, <1>2

LEMMA InputsType ==
  ASSUME PipeTypeOK, BridgeTypeOK, MmuTypeOK, NEW irq \in BOOLEAN,
         NEW ex \in Addr \cup {Nil}, NEW mduLast \in BOOLEAN
  PROVE  PipeInputs(irq, ex, mduLast) \in Inputs
<1> DEFINE cancel == Cancel(irq)
           fetch  == PortResp(FetchPort, cancel)
           data   == PortResp(DataPort, cancel)
<1>1. fetch \in Responses /\ data \in Responses
  BY PortRespType
<1>2. BridgeOk(cancel, fReq, fetch) \in BOOLEAN
  BY DEF BridgeOk, Cancel, Hit
<1>3. BridgeWord(cancel, fReq, fetch) \in Words
  <2>1. line.data \in Addr \cup {Zero} /\ fetch.data \in Addr \cup {Zero}
    BY <1>1 DEF BridgeTypeOK, Responses
  <2>2. QED
    BY <2>1, WordType DEF BridgeWord
<1>4. data.ok \in BOOLEAN /\ data.data \in Addr \cup {Zero}
  BY <1>1 DEF Responses
<1>5. mmuFault \in Faults
  BY DEF MmuTypeOK
<1>6. QED
  BY <1>2, <1>3, <1>4, <1>5, Zenon DEF PipeInputs, Inputs
-----------------------------------------------------------------------------
(* Each unit keeps its types.                                              *)

LEMMA BridgeType ==
  ASSUME BridgeTypeOK, NEW cancel, NEW req \in Addr \cup {Nil},
         NEW resp \in Responses, BridgeClock(cancel, req, resp)
  PROVE  BridgeTypeOK'
<1>1. CASE BridgeCancel
  BY <1>1, ResetAddr DEF BridgeCancel, NoMiss, NoLine, BridgeTypeOK
<1>2. CASE BridgeMiss(req)
  <2>1. req \in Addr
    BY <1>2 DEF BridgeMiss, MissFire
  <2>2. QED
    BY <1>2, <2>1, LineType DEF BridgeMiss, BridgeTypeOK, UpperHalf
<1>3. CASE BridgeFill(resp)
  BY <1>3 DEF BridgeFill, BridgeTypeOK, Responses
<1>4. CASE UNCHANGED bridgeVars
  BY <1>4 DEF bridgeVars, BridgeTypeOK
<1>5. QED
  BY <1>1, <1>2, <1>3, <1>4 DEF BridgeClock

LEMMA ArbType ==
  ASSUME ArbTypeOK, NEW cancel, NEW reqs,
         \A i \in Ports : reqs[i] \in Requests,
         NEW resp, ArbClock(cancel, reqs, resp)
  PROVE  ArbTypeOK'
<1>1. CASE ArbRelease
  <2>1. 0 \in Ports
    BY NumInputsAssumption DEF Ports
  <2>2. QED
    BY <1>1, <2>1, NothingType DEF ArbRelease, ArbTypeOK
<1>2. CASE ArbAccept(reqs)
  BY <1>2 DEF ArbAccept, ArbTypeOK
<1>3. CASE UNCHANGED arbVars
  BY <1>3 DEF arbVars, ArbTypeOK
<1>4. QED
  BY <1>1, <1>2, <1>3 DEF ArbClock

LEMMA CBusType ==
  ASSUME CBusTypeOK, NEW ireqs, \A i \in Masters : ireqs[i] \in Requests,
         NEW oresp, CBusClock(ireqs, oresp)
  PROVE  CBusTypeOK'
<1>1. CASE CBusDone
  BY <1>1, NothingType DEF CBusDone, CBusTypeOK
<1>2. CASE CBusLatch(ireqs)
  BY <1>2 DEF CBusLatch, CBusTypeOK, Requests
<1>3. CASE UNCHANGED cbVars
  BY <1>3 DEF cbVars, CBusTypeOK
<1>4. QED
  BY <1>1, <1>2, <1>3 DEF CBusClock

LEMMA DeviceType ==
  ASSUME DeviceTypeOK, NEW enable, NEW req \in Requests, DeviceClock(enable, req)
  PROVE  DeviceTypeOK'
  BY NothingType DEF DeviceTypeOK, DeviceClock, DeviceStart, DeviceEnd

LEMMA MmuType ==
  ASSUME MmuTypeOK, NEW flush, NEW req \in Requests, NEW access \in Accesses,
         NEW mode, NEW root \in Addr \cup {Nil}, NEW resp \in Responses,
         MmuClock(flush, req, access, mode, root, resp)
  PROVE  MmuTypeOK'
<1> USE NothingType, ResetAddr DEF MmuTypeOK, MmuStates, Levels
<1>1. CASE MmuFlush
  <2>1. NoEntry \in TlbEntries
    BY DEF NoEntry, TlbEntries
  <2>2. QED
    BY <1>1, <2>1 DEF MmuFlush, Faults
<1>2. CASE MmuIdle(req, mode, root)
  <2>1. req.addr \in Addr
    BY DEF Requests
  <2>2. mmuResp' \in Responses /\ mmuFault' \in Faults /\ UNCHANGED <<tlb, tlbPtr>>
    BY <1>2 DEF MmuIdle, Faults
  <2>3. CASE MmuTake(req, mode, root)
    BY <2>1, <2>2, <2>3, TlbPaddrType DEF MmuTake, MmuPhysical
  <2>4. CASE UNCHANGED <<mmuState, mmuLevel, mmuReq, mmuTable, mmuPaddr>>
    BY <2>2, <2>4
  <2>5. QED
    BY <1>2, <2>3, <2>4 DEF MmuIdle
<1>3. CASE MmuAsk
  BY <1>3 DEF MmuAsk
<1>4. CASE MmuWalk(access, mode, resp)
  <2> DEFINE pte == PteOf(resp.data)
  <2>1. pte.ppn \in Nat
    BY PteType DEF Responses
  <2>2. CASE MmuRaise(access, mode, pte)
    BY <2>2 DEF MmuRaise, Faults
  <2>3. CASE MmuLeaf(access, mode, pte)
    <3>1. mmuReq.addr \in Addr
      BY DEF Requests
    <3>2. /\ Leaf(pte.ppn, mmuReq.addr, mmuLevel) \in Addr
          /\ Leaf(pte.ppn, 0, mmuLevel) \in Addr
      BY <2>1, <3>1, LeafType
    <3>3. [valid |-> TRUE, va |-> mmuReq.addr, level |-> mmuLevel,
           pa |-> Leaf(pte.ppn, 0, mmuLevel)] \in TlbEntries
      BY <3>1, <3>2 DEF TlbEntries
    <3>4. tlb' \in [TlbRows -> TlbEntries]
      BY <2>3, <3>3 DEF MmuLeaf
    <3>5. tlbPtr' \in TlbRows
      BY <2>3, TlbAssumption DEF MmuLeaf, TlbRows
    <3>6. QED
      BY <2>3, <3>2, <3>4, <3>5 DEF MmuLeaf
  <2>4. CASE MmuPointer(access, mode, pte)
    <3>1. PageAt(pte.ppn) \in Addr
      BY <2>1, PageAtType
    <3>2. mmuLevel - 1 \in Levels
      BY <2>4 DEF MmuPointer, WalkFault
    <3>3. QED
      BY <2>4, <3>1, <3>2 DEF MmuPointer
  <2>5. QED
    BY <1>4, <2>2, <2>3, <2>4 DEF MmuWalk
<1>5. CASE MmuAccessDone(resp)
  BY <1>5 DEF MmuAccessDone
<1>6. CASE UNCHANGED mmuVars
  BY <1>6 DEF mmuVars, walkVars
<1>7. CASE MmuFinish
  BY <1>7 DEF MmuFinish
<1>8. QED
  BY <1>1, <1>2, <1>3, <1>4, <1>5, <1>6, <1>7 DEF MmuClock
-----------------------------------------------------------------------------
(* The machine keeps its types, and runs the pipeline of module Pipeline.  *)

LEMMA OutcomesType ==
  ASSUME NEW slot \in Slot, NEW ex \in Outcomes(slot) PROVE ex \in Addr \cup {Nil}
<1>1. CASE slot.instr = Zero
  BY <1>1 DEF Outcomes
<1>2. CASE slot.instr # Zero
  <2>1. slot.instr \in Addr
    BY <1>2 DEF Slot, Words
  <2>2. QED
    BY <1>2, <2>1, ProgramAssumption DEF Outcomes
<1>3. QED
  BY <1>1, <1>2

\* The pipeline of the machine is the pipeline of PipeSpec, its inputs driven
\* by the buses.
LEMMA CorePipe ==
  ASSUME CoreTypeOK, CoreNext
  PROVE  PipeNext
<1>1. PICK irq \in IrqLine, enable \in BOOLEAN, mduLast \in BOOLEAN,
           ex \in Outcomes(E) : CoreClock(irq, enable, ex, mduLast)
  BY DEF CoreNext
<1>2. irq \in BOOLEAN
  BY CoreAssumption
<1>3. ex \in Addr \cup {Nil}
  BY OutcomesType DEF CoreTypeOK, PipeTypeOK
<1>4. PipeInputs(irq, ex, mduLast) \in Inputs
  BY <1>2, <1>3, InputsType DEF CoreTypeOK
<1>5. PipeInputs(irq, ex, mduLast).ex = ex
  BY DEF PipeInputs
<1>6. PipeClock(PipeInputs(irq, ex, mduLast))
  BY <1>1 DEF CoreClock
<1>7. QED
  BY <1>4, <1>5, <1>6 DEF PipeNext

LEMMA HistoryType ==
  ASSUME stores \in [M : 0 .. 2, W : 0 .. 2], orphan \in BOOLEAN,
         NEW irq, NEW enable, NEW in, HistoryClock(irq, enable, in)
  PROVE  stores' \in [M : 0 .. 2, W : 0 .. 2] /\ orphan' \in BOOLEAN
<1> DEFINE now == Cap2(stores.M + (IF DeviceStores(enable) THEN 1 ELSE 0))
<1>1. now \in 0 .. 2
  BY DEF Cap2
<1>2. stores' = [M |-> IF OpOf(M) = "store" /\ ~MemStall(in) THEN 0 ELSE now,
                 W |-> IF MemStall(in) THEN stores.W ELSE now]
  BY DEF HistoryClock
<1> HIDE DEF now
<1>3. stores' \in [M : 0 .. 2, W : 0 .. 2]
  BY <1>1, <1>2
<1>4. orphan' \in BOOLEAN
  BY DEF HistoryClock, Cancel
<1>5. QED
  BY <1>3, <1>4

LEMMA CoreTypeStep ==
  ASSUME CoreTypeOK, CoreNext
  PROVE  CoreTypeOK'
<1> USE DEF CoreTypeOK
<1>1. PICK irq \in IrqLine, enable \in BOOLEAN, mduLast \in BOOLEAN,
           ex \in Outcomes(E) : CoreClock(irq, enable, ex, mduLast)
  BY DEF CoreNext
<1> DEFINE cancel == Cancel(irq)
<1>2. PipeTypeOK'
  <2>1. PICK in \in Inputs : in.ex \in Outcomes(E) /\ PipeClock(in)
    BY CorePipe DEF PipeNext
  <2>2. QED
    BY <2>1, PipeTypeStep
<1>3. BridgeTypeOK'
  <2>1. PortResp(FetchPort, cancel) \in Responses
    BY PortRespType
  <2>2. fReq \in Addr \cup {Nil}
    BY DEF PipeTypeOK, FetchTypeOK
  <2>3. BridgeClock(cancel, fReq, PortResp(FetchPort, cancel))
    BY <1>1 DEF CoreClock
  <2>4. QED
    BY <2>1, <2>2, <2>3, BridgeType
<1>4. ArbTypeOK'
  <2>1. \A i \in Ports : PortReqs(cancel)[i] \in Requests
    BY DataReqType, BridgeReqType DEF PortReqs, PipeTypeOK
  <2>2. ArbClock(cancel, PortReqs(cancel), MmuCpuResp(cancel))
    BY <1>1 DEF CoreClock
  <2>3. QED
    BY <2>1, <2>2, ArbType
<1>5. MmuTypeOK'
  <2>1. ArbFinalReq(cancel) \in Requests
    BY NothingType DEF ArbFinalReq, ArbTypeOK
  <2>2. ArbAccess \in Accesses
    BY DEF ArbAccess, Accesses
  <2>3. satp \in Addr \cup {Nil}
    BY DEF PipeTypeOK, TrapTypeOK
  <2>4. MmuClock(cancel, ArbFinalReq(cancel), ArbAccess, priv, satp, MemResp(enable))
    BY <1>1 DEF CoreClock
  <2>5. QED
    BY <2>1, <2>2, <2>3, <2>4, MemRespType, MmuType
<1>6. CBusTypeOK'
  <2>1. \A i \in Masters : MasterReqs(cancel)[i] \in Requests
    BY NothingType, MmuMemReqType DEF MasterReqs
  <2>2. CBusClock(MasterReqs(cancel), DeviceResp(enable))
    BY <1>1 DEF CoreClock
  <2>3. QED
    BY <2>1, <2>2, CBusType
<1>7. DeviceTypeOK'
  <2>1. CBusReq \in Requests
    BY NothingType DEF CBusReq, CBusTypeOK
  <2>2. DeviceClock(enable, CBusReq)
    BY <1>1 DEF CoreClock
  <2>3. QED
    BY <2>1, <2>2, DeviceType
<1>8. stores' \in [M : 0 .. 2, W : 0 .. 2] /\ orphan' \in BOOLEAN
  BY <1>1, HistoryType DEF CoreClock
<1>9. QED
  BY <1>2, <1>3, <1>4, <1>5, <1>6, <1>7, <1>8

\* Every register of the machine keeps its type, for every program.
THEOREM CoreTypeCorrect == CoreSpec => []CoreTypeOK
<1>1. CoreInit => CoreTypeOK
  <2> SUFFICES ASSUME CoreInit PROVE CoreTypeOK
    OBVIOUS
  <2> USE NothingType, ResetAddr DEF CoreInit
  <2>1. PipeTypeOK
    BY PipeTypeInit
  <2>2. BridgeTypeOK
    BY DEF BridgeInit, BridgeTypeOK, NoMiss, NoLine
  <2>3. ArbTypeOK
    <3>1. 0 \in Ports
      BY NumInputsAssumption DEF Ports
    <3>2. QED
      BY <3>1 DEF ArbInit, ArbTypeOK
  <2>4. MmuTypeOK
    <3>1. NoEntry \in TlbEntries
      BY DEF NoEntry, TlbEntries, Levels
    <3>2. 0 \in TlbRows
      BY TlbAssumption DEF TlbRows
    <3>3. QED
      BY <3>1, <3>2 DEF MmuInit, MmuTypeOK, MmuStates, Levels, Faults
  <2>5. CBusTypeOK
    <3>1. 0 \in Masters
      BY NumMastersAssumption DEF Masters
    <3>2. QED
      BY <3>1 DEF CBusInit, CBusTypeOK
  <2>6. DeviceTypeOK /\ stores \in [M : 0 .. 2, W : 0 .. 2] /\ orphan \in BOOLEAN
    <3>1. DeviceTypeOK
      BY DEF DeviceInit, DeviceTypeOK
    <3>2. stores = [M |-> 0, W |-> 0] /\ orphan = FALSE
      BY DEF HistoryInit
    <3>3. stores \in [M : 0 .. 2, W : 0 .. 2]
      BY ONLY <3>2
    <3>4. QED
      BY <3>1, <3>2, <3>3
  <2>7. QED
    BY <2>1, <2>2, <2>3, <2>4, <2>5, <2>6 DEF CoreTypeOK
<1>2. CoreTypeOK /\ [CoreNext]_coreVars => CoreTypeOK'
  <2> SUFFICES ASSUME CoreTypeOK, [CoreNext]_coreVars PROVE CoreTypeOK'
    OBVIOUS
  <2>1. CASE CoreNext
    BY <2>1, CoreTypeStep
  <2>2. CASE UNCHANGED coreVars
    BY <2>2 DEF coreVars, pipeVars, fetchVars, trapVars, mduVars, slotVars,
       bridgeVars, arbVars, mmuVars, walkVars, cbVars, histVars, CoreTypeOK,
       PipeTypeOK, FetchTypeOK, TrapTypeOK, MduTypeOK, BridgeTypeOK, ArbTypeOK,
       MmuTypeOK, CBusTypeOK, DeviceTypeOK
  <2>3. QED
    BY <2>1, <2>2
<1>3. QED
  BY <1>1, <1>2, PTL DEF CoreSpec

\* The machine implements the pipeline specification: whatever the buses, the
\* MMU and the memory do, they are one of the environments of Pipeline.
THEOREM CoreImplementsPipe == CoreSpec => PipeSpec
<1>1. CoreInit => PipeInit
  BY DEF CoreInit
<1>2. CoreTypeOK /\ [CoreNext]_coreVars => [PipeNext]_pipeVars
  BY CorePipe DEF coreVars
<1>3. QED
  BY CoreTypeCorrect, <1>1, <1>2, PTL DEF CoreSpec, PipeSpec

\* The machine inherits what the pipeline keeps under any environment.
THEOREM CoreOneInFlight == CoreSpec => []OneInFlight
  BY CoreImplementsPipe, PipelineOneInFlight, PTL

\* In the whole machine too, ID reads what all older instructions wrote.
THEOREM CoreOperandsReady == CoreSpec => []OperandsReady
  BY CoreImplementsPipe, PipelineOperandsReady, PTL
-----------------------------------------------------------------------------
(* The buses: a miss is never forgotten, and the transaction on the CBus   *)
(* is stable and, unless it was cancelled, the one the MMU waits for.      *)

LEMMA BusStep ==
  ASSUME CoreTypeOK, PipeInv, BusInv, CoreNext
  PROVE  BusInv'
<1>1. PICK irq \in IrqLine, enable \in BOOLEAN, mduLast \in BOOLEAN,
           ex \in Outcomes(E) : CoreClock(irq, enable, ex, mduLast)
  BY DEF CoreNext
<1> DEFINE cancel == Cancel(irq)
           in     == PipeInputs(irq, ex, mduLast)
           answer == MmuCpuResp(cancel)
           fetch  == PortResp(FetchPort, cancel)
<1>2. /\ PipeClock(in)
      /\ BridgeClock(cancel, fReq, fetch)
      /\ ArbClock(cancel, PortReqs(cancel), answer)
  BY <1>1 DEF CoreClock
<1>3. /\ FetchClock(PcStall(in), FinalRedirect(in), FetchValid /\ ~PcStall(in),
                    in.iok, in.iword)
      /\ ExMemClock(in)
  BY <1>2 DEF PipeClock
<1>4. cancel = BusCancel(in)
  BY DEF Cancel, BusCancel, PipeInputs
<1>5. CommitRedirect(in) => cancel
  BY <1>4 DEF CommitRedirect, BusCancel
<1>6. in.dok = (~cancel /\ arbBusy /\ answer.ok /\ arbIndex = DataPort)
  <2>1. answer.ok \in BOOLEAN
    BY MmuCpuRespType DEF CoreTypeOK, Responses
  <2>2. in.dok = ArbResp(DataPort, cancel, answer).ok
    BY DEF PipeInputs, PortResp
  <2>3. arbBusy \in BOOLEAN
    BY DEF CoreTypeOK, ArbTypeOK
  <2>4. QED
    BY <2>1, <2>2, <2>3 DEF ArbResp, NoResponse, Cancel, DataPort
<1>7. fetch.ok = (~cancel /\ arbBusy /\ answer.ok /\ arbIndex = FetchPort)
  <2>1. answer.ok \in BOOLEAN
    BY MmuCpuRespType DEF CoreTypeOK, Responses
  <2>2. fetch.ok = ArbResp(FetchPort, cancel, answer).ok
    BY DEF PortResp
  <2>3. arbBusy \in BOOLEAN
    BY DEF CoreTypeOK, ArbTypeOK
  <2>4. QED
    BY <2>1, <2>2, <2>3 DEF ArbResp, NoResponse, Cancel, FetchPort
<1>8. MemReq => M.valid
  BY DEF MemReq
<1>9. ~cancel /\ MemReq /\ ~in.dok => M' = M /\ MemReq'
  BY <1>3, <1>4, <1>5
     DEF ExMemClock, ExMemStall, MemStall, MemReq, DataMisaligned, OpOf
<1>10. PcStall(in) <=> MduStall \/ MemStall(in)
  <2>1. irq \in BOOLEAN /\ ex \in Addr \cup {Nil}
    BY CoreAssumption, OutcomesType DEF CoreTypeOK, PipeTypeOK
  <2>2. in \in Inputs
    BY <2>1, InputsType DEF CoreTypeOK
  <2>3. QED
    BY <2>2, Sources DEF PcStall, CoreTypeOK
<1> HIDE DEF cancel, in, answer, fetch
<1>11. /\ Ports = {0, 1}
       /\ PortReqs(cancel)[DataPort] = DataReq
       /\ PortReqs(cancel)[FetchPort] = BridgeReq(cancel, fReq)
  BY CoreAssumption DEF Ports, PortReqs, DataPort, FetchPort
<1>12. DataReq.valid = MemReq
  BY DEF DataReq, NoRequest, MemReq
<1>13. BridgeReq(cancel, fReq).valid = MissFire(cancel, fReq)
  BY DEF BridgeReq, NoRequest, MissFire
<1>14. (fReq # Nil => fCur \in {"EXEC", "COMMIT"} /\ ~M.valid)'
  <2> SUFFICES ASSUME fReq' # Nil
               PROVE  fCur' \in {"EXEC", "COMMIT"} /\ ~M'.valid
    OBVIOUS
  <2>1. ~PcStall(in)
    BY <1>3, <1>10
       DEF FetchClock, FetchStalled, BusInv, PipeInv, Spacing, MduStall, MemStall, MemReq
  <2>2. FetchExec(in.iok, in.iword)
    BY <1>3, <2>1
       DEF FetchClock, FetchRedirect, FetchNewInstr, FetchAligned, FetchMisaligned,
           FetchCommit
  <2>3. ~E.valid
    BY <2>2 DEF FetchExec, PipeInv, Spacing
  <2>4. ~M'.valid
    BY <1>3, <1>10, <2>1, <2>3
       DEF ExMemClock, ExMemStall, Bubble, CoreTypeOK, PipeTypeOK, Slot
  <2>5. QED
    BY <2>2, <2>4 DEF FetchExec
<1>15. (arbBusy => IF arbIndex = FetchPort THEN miss.pending ELSE MemReq)'
  <2> SUFFICES ASSUME arbBusy'
               PROVE  IF arbIndex' = FetchPort THEN miss'.pending ELSE MemReq'
    OBVIOUS
  <2>1. ~cancel
    BY <1>2 DEF ArbClock, ArbRelease
  <2>2. CASE ArbAccept(PortReqs(cancel))
    <3>1. PICK i \in Ports : Preferred(PortReqs(cancel), i) /\ arbIndex' = i
      BY <2>2 DEF ArbAccept
    <3>2. CASE i = DataPort
      <4>1. MemReq /\ ~in.dok
        BY <1>6, <1>11, <1>12, <2>2, <3>1, <3>2 DEF Preferred, ArbAccept
      <4>2. QED
        BY <1>9, <2>1, <3>1, <3>2, <4>1 DEF DataPort, FetchPort
    <3>3. CASE i = FetchPort
      <4>1. MissFire(cancel, fReq)
        BY <1>11, <1>13, <3>1, <3>3 DEF Preferred
      <4>2. miss'.pending
        BY <1>2, <2>1, <4>1 DEF BridgeClock, BridgeMiss, BridgeFill, MissFire, Hit
      <4>3. QED
        BY <3>1, <3>3, <4>2
    <3>4. QED
      BY <1>11, <3>1, <3>2, <3>3 DEF DataPort, FetchPort
  <2>3. CASE UNCHANGED arbVars /\ arbBusy /\ ~answer.ok
    <3>1. ~in.dok /\ ~fetch.ok
      BY <1>6, <1>7, <2>3
    <3>2. CASE arbIndex = FetchPort
      <4>1. miss.pending
        BY <2>3, <3>2 DEF BusInv
      <4>2. miss' = miss
        BY <1>2, <2>1, <3>1, <4>1
           DEF BridgeClock, BridgeMiss, BridgeFill, MissFire, bridgeVars
      <4>3. QED
        BY <2>3, <3>2, <4>1, <4>2 DEF arbVars
    <3>3. CASE arbIndex # FetchPort
      <4>1. MemReq
        BY <2>3, <3>3 DEF BusInv
      <4>2. QED
        BY <1>9, <2>1, <2>3, <3>1, <3>3, <4>1 DEF arbVars
    <3>4. QED
      BY <3>2, <3>3
  <2>4. QED
    BY <1>2, <2>1, <2>2, <2>3 DEF ArbClock, ArbRelease, arbVars
<1>16. MissHeld'
  <2> SUFFICES ASSUME miss'.pending
               PROVE  arbBusy' /\ arbIndex' = FetchPort /\ arbReq'.addr = miss'.addr
    BY DEF MissHeld
  <2>1. ~cancel
    <3>1. ~BridgeCancel
      BY DEF BridgeCancel, NoMiss
    <3>2. QED
      BY <1>2, <3>1 DEF BridgeClock
  <2>2. CASE BridgeMiss(fReq)
    <3>1. MissFire(cancel, fReq) /\ fReq # Nil /\ ~miss.pending
      BY <2>1, <2>2 DEF BridgeMiss, MissFire, Hit
    <3>2. ~MemReq /\ ~arbBusy
      BY <1>8, <3>1 DEF BusInv
    <3>3. PICK i \in Ports : /\ Preferred(PortReqs(cancel), i)
                             /\ arbBusy' = TRUE /\ arbIndex' = i
                             /\ arbReq' = PortReqs(cancel)[i]
      BY <1>2, <1>11, <1>13, <2>1, <3>1, <3>2
         DEF ArbClock, ArbAccept, FetchPort, DataPort
    <3>4. i = FetchPort
      BY <1>11, <1>12, <3>2, <3>3 DEF Preferred, DataPort, FetchPort
    <3>5. arbReq'.addr = LineOf(fReq)
      BY <1>11, <3>1, <3>3, <3>4 DEF BridgeReq
    <3>6. QED
      BY <2>2, <3>3, <3>4, <3>5 DEF BridgeMiss
  <2>3. CASE UNCHANGED bridgeVars /\ ~(miss.pending /\ fetch.ok)
    <3>1. arbBusy /\ arbIndex = FetchPort /\ arbReq.addr = miss.addr /\ miss' = miss
      BY <2>3 DEF bridgeVars, BusInv, MissHeld
    <3>2. ~answer.ok
      BY <1>7, <2>1, <2>3, <3>1 DEF bridgeVars
    <3>3. UNCHANGED arbVars
      BY <1>2, <2>1, <3>1, <3>2 DEF ArbClock, ArbAccept
    <3>4. QED
      BY <3>1, <3>3 DEF arbVars
  <2>4. ~BridgeFill(fetch)
    BY DEF BridgeFill, CoreTypeOK, BridgeTypeOK
  <2>5. QED
    BY <1>2, <2>1, <2>2, <2>3, <2>4 DEF BridgeClock
<1>17. QED
  BY <1>14, <1>15, <1>16 DEF BusInv

\* A fetch request is up only while no memory instruction is in MEM, and what
\* the arbiter holds is still wanted.
THEOREM FetchBusInvariant == CoreSpec => []BusInv
<1>1. CoreInit => BusInv
  BY DEF CoreInit, PipeInit, FetchInit, BridgeInit, NoMiss, ArbInit, BusInv, MissHeld
<1>2. CoreTypeOK /\ PipeInv /\ BusInv /\ [CoreNext]_coreVars => BusInv'
  <2> SUFFICES ASSUME CoreTypeOK, PipeInv, BusInv, [CoreNext]_coreVars PROVE BusInv'
    OBVIOUS
  <2>1. CASE CoreNext
    BY <2>1, BusStep
  <2>2. CASE UNCHANGED coreVars
    BY <2>2 DEF coreVars, pipeVars, fetchVars, slotVars, bridgeVars, arbVars,
       BusInv, MissHeld, MemReq, DataMisaligned, OpOf
  <2>3. QED
    BY <2>1, <2>2
<1>3. QED
  BY CoreTypeCorrect, CoreImplementsPipe, PipelineInvariant, <1>1, <1>2,
     PTL DEF CoreSpec

\* A fetch miss is never forgotten, although the bridge asks for one cycle
\* only and the data port has priority.
THEOREM MissNeverForgotten == CoreSpec => []MissHeld
<1>1. BusInv => MissHeld
  BY DEF BusInv
<1>2. QED
  BY FetchBusInvariant, <1>1, PTL

\* A request stays on the CBus unchanged from the cycle the memory accepts it
\* to the cycle it ends, as cbus_device.cpp asserts.
THEOREM DeviceRequestStable == CoreSpec => []DeviceStable
<1>1. CoreInit => DeviceStable
  BY DEF CoreInit, DeviceInit, NoRequest, DeviceStable
<1>2. CoreTypeOK /\ DeviceStable /\ [CoreNext]_coreVars => DeviceStable'
  <2> SUFFICES ASSUME DeviceStable, [CoreNext]_coreVars, tx'.valid
               PROVE  CBusReq' = tx'
    BY DEF DeviceStable
  <2>1. ASSUME CoreNext PROVE CBusReq' = tx'
    <3>1. PICK irq \in IrqLine, enable \in BOOLEAN, mduLast \in BOOLEAN,
               ex \in Outcomes(E) : CoreClock(irq, enable, ex, mduLast)
      BY <2>1 DEF CoreNext
    <3>2. /\ CBusClock(MasterReqs(Cancel(irq)), DeviceResp(enable))
          /\ DeviceClock(enable, CBusReq)
      BY <3>1 DEF CoreClock
    <3>3. CASE DeviceStart(enable, CBusReq)
      <4>1. cbBusy /\ cbReq = tx' /\ ~DeviceResp(enable).ok
        BY <3>3 DEF DeviceStart, CBusReq, NoRequest, DeviceResp, NoResponse
      <4>2. QED
        BY <3>2, <4>1 DEF CBusClock, cbVars, CBusReq
    <3>4. CASE UNCHANGED tx /\ ~(enable /\ tx.valid)
      <4>1. cbBusy /\ cbReq = tx /\ ~DeviceResp(enable).ok
        BY <3>4 DEF DeviceStable, CBusReq, NoRequest, DeviceResp, NoResponse
      <4>2. QED
        BY <3>2, <3>4, <4>1 DEF CBusClock, cbVars, CBusReq
    <3>5. ~DeviceEnd(enable)
      BY DEF DeviceEnd, NoRequest
    <3>6. QED
      BY <3>2, <3>3, <3>4, <3>5 DEF DeviceClock
  <2>2. CASE UNCHANGED coreVars
    BY <2>2 DEF coreVars, cbVars, DeviceStable, CBusReq
  <2>3. QED
    BY <2>1, <2>2
<1>3. QED
  BY CoreTypeCorrect, <1>1, <1>2, PTL DEF CoreSpec

\* The transaction on the CBus is the one the MMU waits for, unless a cancel
\* left it behind.
THEOREM TransactionOwned == CoreSpec => []OwnAnswer
<1>1. CoreInit => OwnAnswer
  BY DEF CoreInit, CBusInit, OwnAnswer
<1>2. CoreTypeOK /\ OwnAnswer /\ [CoreNext]_coreVars => OwnAnswer'
  <2> SUFFICES ASSUME CoreTypeOK, OwnAnswer, [CoreNext]_coreVars, cbBusy', ~orphan'
               PROVE  mmuState' \in {"WAIT", "WAIT_P"} /\ cbReq' = MmuMemReq(FALSE)'
    BY DEF OwnAnswer
  <2>1. ASSUME CoreNext
        PROVE  mmuState' \in {"WAIT", "WAIT_P"} /\ cbReq' = MmuMemReq(FALSE)'
    <3>1. PICK irq \in IrqLine, enable \in BOOLEAN, mduLast \in BOOLEAN,
               ex \in Outcomes(E) : CoreClock(irq, enable, ex, mduLast)
      BY <2>1 DEF CoreNext
    <3> DEFINE cancel == Cancel(irq)
               flushReq == ArbFinalReq(cancel)
               resp == DeviceResp(enable)
    <3>2. /\ CBusClock(MasterReqs(cancel), resp)
          /\ MmuClock(cancel, flushReq, ArbAccess, priv, satp, MemResp(enable))
          /\ orphan' = IF cbBusy /\ ~resp.ok THEN orphan \/ cancel ELSE FALSE
      BY <3>1 DEF CoreClock, HistoryClock
    <3>3. MemResp(enable).ok => cbBusy /\ resp.ok
      BY DEF MemResp, CBusResp, NoResponse
    <3>4. Masters = {0, 1}
      BY CoreAssumption DEF Masters
    <3>5. cancel \in BOOLEAN /\ cbBusy \in BOOLEAN /\ orphan \in BOOLEAN
      BY DEF Cancel, CoreTypeOK, CBusTypeOK
    <3> HIDE DEF cancel, flushReq, resp
    <3>6. CASE ~cbBusy
      <4>1. cbReq' = MmuMemReq(cancel) /\ MmuMemReq(cancel).valid
        BY <3>2, <3>4, <3>6
           DEF CBusClock, CBusLatch, Chosen, MasterReqs, NoRequest
      <4>2. ~cancel /\ mmuState \in {"REQ", "WAIT", "REQ_P", "WAIT_P"}
        BY <4>1 DEF MmuMemReq, NoRequest
      <4>3. ~MemResp(enable).ok
        BY <3>3, <3>6
      <4>4. MmuAsk \/ (mmuState \in {"WAIT", "WAIT_P"} /\ UNCHANGED mmuVars)
        BY <3>2, <4>2, <4>3
           DEF MmuClock, MmuIdle, MmuWalk, MmuAccessDone, MmuFinish
      <4>5. QED
        BY <4>1, <4>2, <4>4 DEF MmuAsk, mmuVars, walkVars, MmuMemReq
    <3>7. CASE cbBusy
      <4>1. ~resp.ok /\ UNCHANGED cbVars /\ ~cancel /\ ~orphan
        BY <3>2, <3>5, <3>7 DEF CBusClock, CBusDone
      <4>2. mmuState \in {"WAIT", "WAIT_P"} /\ cbReq = MmuMemReq(FALSE)
        BY <3>7, <4>1 DEF OwnAnswer
      <4>3. UNCHANGED mmuVars
        BY <3>2, <3>3, <4>1, <4>2
           DEF MmuClock, MmuIdle, MmuAsk, MmuWalk, MmuAccessDone, MmuFinish
      <4>4. QED
        BY <4>1, <4>2, <4>3 DEF cbVars, mmuVars, walkVars, MmuMemReq
    <3>8. QED
      BY <3>5, <3>6, <3>7
  <2>2. CASE UNCHANGED coreVars
    BY <2>2 DEF coreVars, cbVars, mmuVars, walkVars, histVars, OwnAnswer, MmuMemReq
  <2>3. QED
    BY <2>1, <2>2
<1>3. QED
  BY CoreTypeCorrect, <1>1, <1>2, PTL DEF CoreSpec
=============================================================================
