--------------------------- MODULE MulDivControl ---------------------------
(***************************************************************************)
(* The control of the iterative multiplier and divider,                    *)
(* src/muldiv_unit.sv: it latches its operands when it accepts a request   *)
(* in IDLE, iterates in MUL or DIV (one state here, since only the length  *)
(* differs), and offers the result for exactly one cycle in DONE.  A zero  *)
(* divisor and the signed overflow go from IDLE straight to DONE.  No      *)
(* input can stop an operation that has started.                           *)
(*                                                                         *)
(* The operands are named by the address of the instruction they were      *)
(* latched for; the number of iterations (32 or 64 in the code) is any.    *)
(***************************************************************************)
EXTENDS Common

VARIABLES
    mduState,    \* state: IDLE, BUSY (MUL or DIV) or DONE
    mduFor       \* whose operands are latched, Nil before the first request

mduVars == <<mduState, mduFor>>

MduTypeOK ==
    /\ mduState \in {"IDLE", "BUSY", "DONE"}
    /\ mduFor \in Addr \cup {Nil}

MduInit == mduState = "IDLE" /\ mduFor = Nil

\* resp_valid
MduDone == mduState = "DONE"

\* req is the instruction asking for the unit, or Nil; last says that this
\* cycle is the last one of the operation.
MduAccept(req, last) ==
    /\ mduState = "IDLE" /\ req # Nil
    /\ mduState' = IF last THEN "DONE" ELSE "BUSY"
    /\ mduFor' = req

MduIterate(last) ==
    /\ mduState = "BUSY"
    /\ mduState' = IF last THEN "DONE" ELSE "BUSY"
    /\ UNCHANGED mduFor

MduRelease ==
    /\ mduState = "DONE"
    /\ mduState' = "IDLE"
    /\ UNCHANGED mduFor

MduClock(req, last) ==
    \/ MduAccept(req, last)
    \/ MduIterate(last)
    \/ MduRelease
    \/ mduState = "IDLE" /\ req = Nil /\ UNCHANGED mduVars

MduNext == \E req \in Addr \cup {Nil}, last \in BOOLEAN : MduClock(req, last)
MduSpec == MduInit /\ [][MduNext]_mduVars
=============================================================================
