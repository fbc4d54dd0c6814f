-------------------------------- MODULE Core --------------------------------
(***************************************************************************)
(* The whole machine: the pipeline, the fetch bridge, the arbiter, the     *)
(* MMU, the CBus arbiter and the memory, wired as in src/datapath.sv and   *)
(* VTop.sv, and clocked together.  The environment chooses, every cycle,   *)
(* whether an enabled interrupt line is up, whether the memory is enabled, *)
(* what the instruction in EX computes, and whether a multiply or divide   *)
(* ends.                                                                   *)
(*                                                                         *)
(* Two history variables record what the machine has done, for the         *)
(* properties; no register reads them.                                     *)
(***************************************************************************)
EXTENDS Pipeline, IBusToDBus, DBusArbiter, Mmu, CBusArbiter, CBusDevice

CONSTANT IrqLine    \* the values the interrupt line may take

ASSUME CoreAssumption ==
    /\ IrqLine \subseteq BOOLEAN /\ NumInputs = 2 /\ NumMasters = 2
    /\ \A a \in Addr : CsrArg[a].csr = "satp" /\ CsrArg[a].value # Nil =>
          CsrArg[a].value % PageSize = 0

VARIABLES
    stores,     \* writes the memory performed since a store last left MEM,
                \* now and when the instruction in WB left MEM
    orphan      \* the CBus transaction was begun for a cancelled request

histVars == <<stores, orphan>>
coreVars == <<pipeVars, bridgeVars, arbVars, mmuVars, cbVars, tx, histVars>>

DataPort  == 0
FetchPort == 1
-----------------------------------------------------------------------------
(* The wires.  cancel is bus_cancel, which the pipeline also derives.      *)

Cancel(irq) == TrapValid(irq) \/ MretValid \/ SretValid \/ mmuFault # "none"

\* The memory bus seen from the MMU.
MemResp(enable) == CBusResp(0, DeviceResp(enable))

\* data_mem: the request of the instruction in MEM is up as long as it is
\* there, also in a cycle that cancels it.
DataReq == IF MemReq
           THEN [valid |-> TRUE, addr |-> M.alu,
                 write |-> OpOf(M) = "store"]
           ELSE NoRequest

PortReqs(cancel) ==
    [i \in Ports |-> IF i = FetchPort THEN BridgeReq(cancel, fReq) ELSE DataReq]

PortResp(i, cancel) == ArbResp(i, cancel, MmuCpuResp(cancel))

PipeInputs(irq, ex, mduLast) ==
    LET cancel == Cancel(irq)
        fetch  == PortResp(FetchPort, cancel)
        data   == PortResp(DataPort, cancel)
    IN  [iok |-> BridgeOk(cancel, fReq, fetch),
         iword |-> BridgeWord(cancel, fReq, fetch),
         dok |-> data.ok, dval |-> data.data,
         fault |-> mmuFault, irq |-> irq, ex |-> ex, mduLast |-> mduLast]

\* VTop connects the MMU to port 0; the instruction port is tied to 0.
MasterReqs(cancel) ==
    [i \in Masters |-> IF i = 0 THEN MmuMemReq(cancel) ELSE NoRequest]
-----------------------------------------------------------------------------
(* History.                                                                *)

Cap2(n) == IF n > 2 THEN 2 ELSE n

HistoryInit == stores = [M |-> 0, W |-> 0] /\ orphan = FALSE

HistoryClock(irq, enable, in) ==
    LET now == Cap2(stores.M + (IF DeviceStores(enable) THEN 1 ELSE 0))
    IN  /\ stores' = [M |-> IF OpOf(M) = "store" /\ ~MemStall(in) THEN 0 ELSE now,
                      W |-> IF MemStall(in) THEN stores.W ELSE now]
        /\ orphan' = IF cbBusy /\ ~DeviceResp(enable).ok
                     THEN orphan \/ Cancel(irq) ELSE FALSE
-----------------------------------------------------------------------------
CoreInit ==
    /\ PipeInit /\ BridgeInit /\ ArbInit /\ MmuInit /\ CBusInit /\ DeviceInit
    /\ HistoryInit

CoreClock(irq, enable, ex, mduLast) ==
    LET cancel == Cancel(irq)
        in     == PipeInputs(irq, ex, mduLast)
    IN  /\ PipeClock(in)
        /\ BridgeClock(cancel, fReq, PortResp(FetchPort, cancel))
        /\ ArbClock(cancel, PortReqs(cancel), MmuCpuResp(cancel))
        /\ MmuClock(cancel, ArbFinalReq(cancel), ArbAccess, priv, satp,
                    MemResp(enable))
        /\ CBusClock(MasterReqs(cancel), DeviceResp(enable))
        /\ DeviceClock(enable, CBusReq)
        /\ HistoryClock(irq, enable, in)

CoreNext ==
    \E irq \in IrqLine, enable, mduLast \in BOOLEAN, ex \in Outcomes(E) :
        CoreClock(irq, enable, ex, mduLast)

CoreSpec == CoreInit /\ [][CoreNext]_coreVars
=============================================================================
