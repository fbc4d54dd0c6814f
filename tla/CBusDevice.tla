----------------------------- MODULE CBusDevice -----------------------------
(***************************************************************************)
(* The memory on the CBus, as the testbench models it in                   *)
(* verilate/vsrc/cbus_device.cpp: a request that finds it idle starts a    *)
(* single-beat transaction, and in some later cycle in which the device is *)
(* enabled the transaction ends with ready and last.  p_disable makes the  *)
(* delay any number of cycles, which also covers the 32 cycles of          *)
(* vivado/src/with_delay/bram_wrapper.sv.  Contents are fixed: code and    *)
(* page tables are not stored to, so an answer is named by its address.    *)
(***************************************************************************)
EXTENDS Common

VARIABLE tx    \* the transaction in progress

DeviceTypeOK == tx \in Requests
DeviceInit   == tx = NoRequest

\* eval_resp: the data of a write's answer is 0.
DeviceResp(enable) ==
    IF enable /\ tx.valid
    THEN [ok |-> TRUE, data |-> IF tx.write THEN Zero ELSE LineOf(tx.addr)]
    ELSE NoResponse

\* The store takes effect in the cycle that ends its transaction.
DeviceStores(enable) == enable /\ tx.valid /\ tx.write

DeviceStart(enable, req) ==
    /\ enable /\ ~tx.valid /\ req.valid
    /\ tx' = req

DeviceEnd(enable) ==
    /\ enable /\ tx.valid
    /\ tx' = NoRequest

DeviceClock(enable, req) ==
    \/ DeviceStart(enable, req)
    \/ DeviceEnd(enable)
    \/ ~enable /\ UNCHANGED tx
    \/ enable /\ ~tx.valid /\ ~req.valid /\ UNCHANGED tx
=============================================================================
