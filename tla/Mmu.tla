-------------------------------- MODULE Mmu --------------------------------
(***************************************************************************)
(* The Sv39 memory management unit, src/mmu.sv: one request at a time, a   *)
(* page walk of up to three levels, a small TLB filled by the walk, and    *)
(* then the access itself at the translated address.                       *)
(*                                                                         *)
(* TlbSize is 8 in the code.  The r, w, x and u bits of a TLB entry are    *)
(* left out: the code stores them and never reads them.                    *)
(***************************************************************************)
EXTENDS PageTable

CONSTANT TlbSize

ASSUME TlbAssumption == TlbSize \in Nat \ {0}

TlbRows == 0 .. TlbSize - 1

VARIABLES
    mmuState,    \* cur, with the three REQ and WAIT states of the walk merged
    mmuLevel,    \* the level of the walk, the suffix of REQ_n and WAIT_n
    mmuReq,      \* saved_req
    mmuTable,    \* root_addr at level 2, pt_addr below
    mmuPaddr,    \* paddr
    mmuResp,     \* saved_resp
    mmuFault,    \* page_fault and fault_cause: the access that faulted
    tlb,
    tlbPtr       \* tlb_replace_ptr

walkVars == <<mmuState, mmuLevel, mmuReq, mmuTable, mmuPaddr, mmuResp, mmuFault>>
mmuVars  == <<walkVars, tlb, tlbPtr>>

MmuStates == {"IDLE", "REQ", "WAIT", "REQ_P", "WAIT_P", "RESP"}

TlbEntries == [valid : BOOLEAN, va : Addr, pa : Addr, level : Levels]
NoEntry    == [valid |-> FALSE, va |-> 0, pa |-> 0, level |-> 0]

MmuTypeOK ==
    /\ mmuState \in MmuStates
    /\ mmuLevel \in Levels
    /\ mmuReq \in Requests
    /\ mmuTable \in Addr /\ mmuPaddr \in Addr
    /\ mmuResp \in Responses
    /\ mmuFault \in Faults
    /\ tlb \in [TlbRows -> TlbEntries]
    /\ tlbPtr \in TlbRows

MmuInit ==
    /\ mmuState = "IDLE" /\ mmuLevel = 0
    /\ mmuReq = NoRequest
    /\ mmuTable = 0 /\ mmuPaddr = 0
    /\ mmuResp = NoResponse
    /\ mmuFault = "none"
    /\ tlb = [i \in TlbRows |-> NoEntry]
    /\ tlbPtr = 0
-----------------------------------------------------------------------------
\* The row that answers: when several match, the last one wins.  Neither the
\* permissions nor the mode are looked at again.
TlbMatch(va, i) ==
    tlb[i].valid /\ SamePage(tlb[i].va, va, tlb[i].level)
TlbHit(va) == \E i \in TlbRows : TlbMatch(va, i)
TlbServes(va, i) ==
    TlbMatch(va, i) /\ \A j \in TlbRows : j > i => ~TlbMatch(va, j)
TlbPaddrSmallPage(va, i) == (tlb[i].pa + (va % Span(0))) % AddrSpace
TlbPaddr(va, i) == (tlb[i].pa + (va % Span(tlb[i].level))) % AddrSpace
-----------------------------------------------------------------------------
\* cpu_resp: the finished access, or a released stall on a page fault.
MmuCpuResp(flush) ==
    IF flush THEN NoResponse
    ELSE IF mmuFault # "none" THEN [ok |-> TRUE, data |-> Zero]
    ELSE IF mmuState = "RESP" THEN mmuResp
    ELSE NoResponse

\* mem_req: the entry to read, or the translated request.
MmuMemReqNoFlush(flush) ==
    IF mmuState \in {"REQ", "WAIT"}
    THEN [valid |-> TRUE, write |-> FALSE,
          addr |-> PteAddr(mmuTable, mmuReq.addr, mmuLevel)]
    ELSE IF mmuState \in {"REQ_P", "WAIT_P"}
         THEN [mmuReq EXCEPT !.addr = mmuPaddr]
    ELSE NoRequest
MmuMemReqUntilIdle(flush) ==
    IF ~flush /\ mmuState \in {"REQ_P", "WAIT_P", "RESP"}
    THEN [mmuReq EXCEPT !.addr = mmuPaddr]
    ELSE IF flush THEN NoRequest ELSE MmuMemReqNoFlush(flush)
MmuMemReq(flush) ==
    IF flush THEN NoRequest
    ELSE IF mmuState \in {"REQ", "WAIT"}
         THEN [valid |-> TRUE, write |-> FALSE,
               addr |-> PteAddr(mmuTable, mmuReq.addr, mmuLevel)]
    ELSE IF mmuState \in {"REQ_P", "WAIT_P"}
         THEN [mmuReq EXCEPT !.addr = mmuPaddr]
    ELSE NoRequest

\* A flush drops the request, a pending fault and every TLB entry.
MmuFlushKeepsTlb ==
    /\ mmuState' = "IDLE" /\ mmuLevel' = 0
    /\ mmuReq' = NoRequest
    /\ mmuTable' = 0 /\ mmuPaddr' = 0
    /\ mmuResp' = NoResponse
    /\ mmuFault' = "none"
    /\ UNCHANGED <<tlb, tlbPtr>>
MmuFlush ==
    /\ mmuState' = "IDLE" /\ mmuLevel' = 0
    /\ mmuReq' = NoRequest
    /\ mmuTable' = 0 /\ mmuPaddr' = 0
    /\ mmuResp' = NoResponse
    /\ mmuFault' = "none"
    /\ tlb' = [i \in TlbRows |-> NoEntry]
    /\ UNCHANGED tlbPtr

\* IDLE: a request goes out as it is when nothing is translated, through the
\* TLB on a hit, and into a walk from the root otherwise.
MmuPhysical(paddr) ==
    /\ mmuState' = "REQ_P"
    /\ mmuPaddr' = paddr
    /\ UNCHANGED mmuLevel

MmuTake(req, mode, root) ==
    /\ mmuReq' = req
    /\ mmuTable' = IF root = Nil THEN 0 ELSE root
    /\ \/ ~Translates(mode, root) /\ MmuPhysical(req.addr)
       \/ /\ Translates(mode, root)
          /\ \E i \in TlbRows :
                TlbServes(req.addr, i) /\ MmuPhysical(TlbPaddr(req.addr, i))
       \/ /\ Translates(mode, root) /\ ~TlbHit(req.addr)
          /\ mmuState' = "REQ" /\ mmuLevel' = 2
          /\ UNCHANGED mmuPaddr

MmuIdle(req, mode, root) ==
    /\ mmuState = "IDLE"
    /\ mmuResp' = NoResponse
    /\ mmuFault' = "none"
    /\ \/ req.valid /\ MmuTake(req, mode, root)
       \/ ~req.valid /\ UNCHANGED <<mmuState, mmuLevel, mmuReq, mmuTable, mmuPaddr>>
    /\ UNCHANGED <<tlb, tlbPtr>>

\* REQ_n and REQ_P last one cycle and do not look at the memory's answer.
MmuAsk ==
    /\ mmuState \in {"REQ", "REQ_P"}
    /\ mmuState' = IF mmuState = "REQ" THEN "WAIT" ELSE "WAIT_P"
    /\ UNCHANGED <<mmuLevel, mmuReq, mmuTable, mmuPaddr, mmuResp, mmuFault,
                   tlb, tlbPtr>>

\* raise_page_fault
MmuRaise(access, mode, pte) ==
    /\ WalkFault(pte, mmuLevel, access, mode)
    /\ mmuState' = "RESP"
    /\ mmuFault' = access
    /\ mmuReq' = NoRequest
    /\ mmuResp' = NoResponse
    /\ mmuPaddr' = 0 /\ mmuTable' = 0
    /\ UNCHANGED <<mmuLevel, tlb, tlbPtr>>

\* A good leaf fills the next TLB row and gives the physical address.
MmuLeafNoWrap(access, mode, pte) ==
    /\ ~WalkFault(pte, mmuLevel, access, mode)
    /\ IsLeaf(pte)
    /\ mmuState' = "REQ_P"
    /\ mmuPaddr' = Leaf(pte.ppn, mmuReq.addr, mmuLevel)
    /\ tlbPtr' = tlbPtr + 1
    /\ UNCHANGED <<mmuLevel, mmuReq, mmuTable, mmuResp, mmuFault, tlb>>
MmuLeaf(access, mode, pte) ==
    /\ ~WalkFault(pte, mmuLevel, access, mode)
    /\ IsLeaf(pte)
    /\ mmuState' = "REQ_P"
    /\ mmuPaddr' = Leaf(pte.ppn, mmuReq.addr, mmuLevel)
    /\ tlb' = [tlb EXCEPT ![tlbPtr] =
                  [valid |-> TRUE, va |-> mmuReq.addr, level |-> mmuLevel,
                   pa |-> Leaf(pte.ppn, 0, mmuLevel)]]
    /\ tlbPtr' = (tlbPtr + 1) % TlbSize
    /\ UNCHANGED <<mmuLevel, mmuReq, mmuTable, mmuResp, mmuFault>>

MmuPointer(access, mode, pte) ==
    /\ ~WalkFault(pte, mmuLevel, access, mode)
    /\ ~IsLeaf(pte)
    /\ mmuState' = "REQ"
    /\ mmuLevel' = mmuLevel - 1
    /\ mmuTable' = PageAt(pte.ppn)
    /\ UNCHANGED <<mmuReq, mmuPaddr, mmuResp, mmuFault, tlb, tlbPtr>>

\* WAIT_n: whatever answer comes is read as the entry that was asked for.
MmuWalk(access, mode, resp) ==
    /\ mmuState = "WAIT" /\ resp.ok
    /\ LET pte == PteOf(resp.data)
       IN  \/ MmuRaise(access, mode, pte)
           \/ MmuLeaf(access, mode, pte)
           \/ MmuPointer(access, mode, pte)

MmuAccessDone(resp) ==
    /\ mmuState = "WAIT_P" /\ resp.ok
    /\ mmuState' = "RESP"
    /\ mmuResp' = resp
    /\ UNCHANGED <<mmuLevel, mmuReq, mmuTable, mmuPaddr, mmuFault, tlb, tlbPtr>>

\* RESP: the answer is up for this cycle; a fault stays until IDLE.
MmuFinish ==
    /\ mmuState = "RESP"
    /\ mmuState' = "IDLE"
    /\ mmuReq' = NoRequest
    /\ mmuResp' = NoResponse
    /\ mmuPaddr' = 0
    /\ UNCHANGED <<mmuLevel, mmuTable, mmuFault, tlb, tlbPtr>>

MmuClock(flush, req, access, mode, root, resp) ==
    \/ flush /\ MmuFlush
    \/ /\ ~flush
       /\ \/ MmuIdle(req, mode, root)
          \/ MmuAsk
          \/ MmuWalk(access, mode, resp)
          \/ MmuAccessDone(resp)
          \/ mmuState \in {"WAIT", "WAIT_P"} /\ ~resp.ok /\ UNCHANGED mmuVars
          \/ MmuFinish
=============================================================================
