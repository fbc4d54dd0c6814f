---------------------------- MODULE CBusArbiter ----------------------------
(***************************************************************************)
(* The arbiter of the memory bus, util/CBusArbiter.sv, behind the          *)
(* DBusToCBus adapters.  It latches a request and keeps it on the bus      *)
(* until the device answers with last.  It has no cancel input: a          *)
(* transaction on the bus always runs to its end, whatever happened to     *)
(* the requester meanwhile, and its answer goes to the input that index    *)
(* names, whatever that input is asking for by then.                       *)
(***************************************************************************)
EXTENDS Common

CONSTANT NumMasters

ASSUME NumMastersAssumption == NumMasters \in Nat \ {0}

Masters == 0 .. NumMasters - 1

VARIABLES
    cbBusy,     \* busy
    cbIndex,    \* index
    cbReq       \* saved_req

cbVars == <<cbBusy, cbIndex, cbReq>>

CBusTypeOK ==
    /\ cbBusy \in BOOLEAN
    /\ cbIndex \in Masters
    /\ cbReq \in Requests

CBusInit == cbBusy = FALSE /\ cbIndex = 0 /\ cbReq = NoRequest

\* oreq: nothing is put on the bus before it is latched.
CBusReq == IF cbBusy THEN cbReq ELSE NoRequest

\* select: the first valid input, 0 when there is none.
Chosen(ireqs, i) ==
    \/ ireqs[i].valid /\ \A j \in Masters : j < i => ~ireqs[j].valid
    \/ i = 0 /\ \A j \in Masters : ~ireqs[j].valid

\* iresps[i], through DBusToCBus: data_ok is ready && last.
CBusResp(i, oresp) == IF cbBusy /\ i = cbIndex THEN oresp ELSE NoResponse
-----------------------------------------------------------------------------
CBusDone ==
    /\ cbBusy' = FALSE
    /\ cbReq' = NoRequest
    /\ UNCHANGED cbIndex

CBusLatch(ireqs) ==
    \E i \in Masters :
        /\ Chosen(ireqs, i)
        /\ cbBusy' = ireqs[i].valid
        /\ cbIndex' = i
        /\ cbReq' = ireqs[i]

CBusClockRelatches(ireqs, oresp) ==
    \/ cbBusy /\ oresp.ok /\ CBusDone
    \/ ~(cbBusy /\ oresp.ok) /\ CBusLatch(ireqs)
CBusClock(ireqs, oresp) ==
    \/ cbBusy /\ oresp.ok /\ CBusDone
    \/ cbBusy /\ ~oresp.ok /\ UNCHANGED cbVars
    \/ ~cbBusy /\ CBusLatch(ireqs)
=============================================================================
