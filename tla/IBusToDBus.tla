----------------------------- MODULE IBusToDBus -----------------------------
(***************************************************************************)
(* The bridge from the fetch port to the arbiter, src/ibus_to_dbus.sv.  It *)
(* keeps the last 64-bit line fetched and at most one outstanding miss.    *)
(* The request of a miss is up for one cycle only: from then on the bridge *)
(* just waits for an answer, so the arbiter has to take it in that cycle.  *)
(*                                                                         *)
(* req is ibus_req (an address or Nil), resp the dbus response.            *)
(***************************************************************************)
EXTENDS Common

VARIABLES
    miss,    \* miss_pending, req_addr, req_hi
    line     \* cache_valid, cache_addr, cache_data

bridgeVars == <<miss, line>>

NoMiss == [pending |-> FALSE, addr |-> 0, upper |-> FALSE]
NoLine == [valid |-> FALSE, addr |-> 0, data |-> Zero]

BridgeTypeOK ==
    /\ miss \in [pending : BOOLEAN, addr : Addr, upper : BOOLEAN]
    /\ line \in [valid : BOOLEAN, addr : Addr, data : Addr \cup {Zero}]

BridgeInit == miss = NoMiss /\ line = NoLine

Hit(cancel, req) ==
    ~cancel /\ line.valid /\ req # Nil /\ line.addr = LineOf(req)

MissFire(cancel, req) ==
    ~cancel /\ req # Nil /\ ~Hit(cancel, req) /\ ~miss.pending

\* dreq: the one-cycle request of a miss.
BridgeReq(cancel, req) ==
    IF MissFire(cancel, req)
    THEN [valid |-> TRUE, addr |-> LineOf(req), write |-> FALSE]
    ELSE NoRequest

\* iresp.data_ok, forced while a cancel is on.
BridgeOk(cancel, req, resp) ==
    cancel \/ Hit(cancel, req) \/ (resp.ok /\ miss.pending)

\* iresp.data.  Which half of an answer is taken depends on the request
\* that missed, not on the one present.
BridgeWord(cancel, req, resp) ==
    IF Hit(cancel, req) THEN WordOf(line.data, UpperHalf(req))
                        ELSE WordOf(resp.data, miss.upper)
-----------------------------------------------------------------------------
BridgeCancelKeepsLine == miss' = NoMiss /\ UNCHANGED line
BridgeCancelKeepsMiss == line' = NoLine /\ UNCHANGED miss
BridgeCancel == miss' = NoMiss /\ line' = NoLine

BridgeMiss(req) ==
    /\ MissFire(FALSE, req)
    /\ miss' = [pending |-> TRUE, addr |-> LineOf(req), upper |-> UpperHalf(req)]
    /\ UNCHANGED line

BridgeFill(resp) ==
    /\ miss.pending /\ resp.ok
    /\ line' = [valid |-> TRUE, addr |-> miss.addr, data |-> resp.data]
    /\ miss' = [miss EXCEPT !.pending = FALSE]

BridgeClock(cancel, req, resp) ==
    \/ cancel /\ BridgeCancel
    \/ /\ ~cancel
       /\ \/ BridgeMiss(req)
          \/ BridgeFill(resp)
          \/ /\ ~MissFire(FALSE, req)
             /\ ~(miss.pending /\ resp.ok)
             /\ UNCHANGED bridgeVars
=============================================================================
