---------------------------- MODULE DBusArbiter ----------------------------
(***************************************************************************)
(* The arbiter in front of the MMU, src/dbus_arbiter.sv.  It latches the   *)
(* lowest-numbered valid input while idle, presents the latched request    *)
(* until it is answered, and hands the answer to that input only.  A       *)
(* cancel drops whatever it holds.  Input 0 is the data port, input 1 the  *)
(* fetch port; the number of inputs is a parameter of the code too.        *)
(***************************************************************************)
EXTENDS Common

CONSTANT NumInputs

ASSUME NumInputsAssumption == NumInputs \in Nat \ {0}

Ports == 0 .. NumInputs - 1

VARIABLES
    arbBusy,     \* busy
    arbIndex,    \* index
    arbReq       \* saved_req

arbVars == <<arbBusy, arbIndex, arbReq>>

ArbTypeOK ==
    /\ arbBusy \in BOOLEAN
    /\ arbIndex \in Ports
    /\ arbReq \in Requests

ArbInit == arbBusy = FALSE /\ arbIndex = 0 /\ arbReq = NoRequest

\* The preferred input of those that ask.
Preferred(reqs, i) ==
    reqs[i].valid /\ \A j \in Ports : j < i => ~reqs[j].valid

\* final_req
ArbFinalReq(cancel) == IF ~cancel /\ arbBusy THEN arbReq ELSE NoRequest

\* access_type of the request being served.
ArbAccess ==
    IF ~arbBusy \/ arbIndex = 1 THEN "FETCH"
    ELSE IF arbReq.write THEN "STORE" ELSE "LOAD"

\* resps[i]
ArbResp(i, cancel, resp) ==
    IF ~cancel /\ arbBusy /\ resp.ok /\ i = arbIndex THEN resp ELSE NoResponse
-----------------------------------------------------------------------------
ArbRelease == arbBusy' = FALSE /\ arbIndex' = 0 /\ arbReq' = NoRequest

ArbAccept(reqs) ==
    /\ ~arbBusy
    /\ \E i \in Ports :
          /\ Preferred(reqs, i)
          /\ arbBusy' = TRUE
          /\ arbIndex' = i
          /\ arbReq' = reqs[i]

ArbClock(cancel, reqs, resp) ==
    \/ cancel /\ ArbRelease
    \/ ~cancel /\ arbBusy /\ resp.ok /\ ArbRelease
    \/ ~cancel /\ ArbAccept(reqs)
    \/ /\ ~cancel
       /\ IF arbBusy THEN ~resp.ok ELSE \A i \in Ports : ~reqs[i].valid
       /\ UNCHANGED arbVars
=============================================================================
