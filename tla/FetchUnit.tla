----------------------------- MODULE FetchUnit -----------------------------
(***************************************************************************)
(* The instruction fetch state machine, src/instr_mem.sv.  It walks        *)
(* NEW_INSTR -> CHECKING -> EXEC -> COMMIT for every instruction, offers   *)
(* what it fetched in COMMIT, and restarts at CHECKING on a redirect; a    *)
(* redirect that meets a stall is latched and served when the stall ends.  *)
(*                                                                         *)
(* One clock edge is one step FetchClock(stall, redirect, consume, ok, w): *)
(*   stall     pc_stall                                                    *)
(*   redirect  redirect_pc while the redirect is valid, otherwise Nil      *)
(*   consume   IF/ID takes the offered instruction                         *)
(*   ok, w     ibus_resp.data_ok and ibus_resp.data                        *)
(***************************************************************************)
EXTENDS Common

VARIABLES
    fCur,        \* cur
    fPc,         \* pc, 0 when the unit has no instruction
    fPrepared,   \* pc_prepared
    fInstr,      \* instr, the address of the word or Zero
    fReq,        \* ibus_req: the address requested, or Nil
    fExc,        \* iaddr_exc
    fPending     \* pending_redirect_pc, or Nil when none is latched

fetchVars == <<fCur, fPc, fPrepared, fInstr, fReq, fExc, fPending>>

FetchStates == {"NEW_INSTR", "CHECKING", "EXEC", "COMMIT"}

FetchTypeOK ==
    /\ fCur \in FetchStates
    /\ fPc \in Addr
    /\ fPrepared \in Addr
    /\ fInstr \in Words
    /\ fReq \in Addr \cup {Nil}
    /\ fExc \in BOOLEAN
    /\ fPending \in Addr \cup {Nil}

FetchInit ==
    /\ fCur = "NEW_INSTR"
    /\ fPc = 0
    /\ fPrepared = PcInit
    /\ fInstr = Zero
    /\ fReq = Nil
    /\ fExc = FALSE
    /\ fPending = Nil

\* instr_valid: pc, instr and iaddr_exc are stable and may be consumed.
FetchValid == fCur = "COMMIT"

\* A latched redirect wins over the one of this cycle.
EffectiveRedirect(redirect) == IF fPending # Nil THEN fPending ELSE redirect
-----------------------------------------------------------------------------
\* Everything holds during a stall, but a redirect must not be lost.
FetchStalled(redirect) ==
    /\ fPending' = IF redirect # Nil THEN redirect ELSE fPending
    /\ UNCHANGED <<fCur, fPc, fPrepared, fInstr, fReq, fExc>>

FetchRedirectKeepsReq(redirect) ==
    /\ EffectiveRedirect(redirect) # Nil
    /\ fCur' = "CHECKING"
    /\ fPrepared' = EffectiveRedirect(redirect)
    /\ fInstr' = Zero
    /\ fPc' = 0
    /\ fExc' = FALSE
    /\ fPending' = Nil
    /\ UNCHANGED fReq
FetchRedirect(redirect) ==
    /\ EffectiveRedirect(redirect) # Nil
    /\ fCur' = "CHECKING"
    /\ fPrepared' = EffectiveRedirect(redirect)
    /\ fInstr' = Zero
    /\ fPc' = 0
    /\ fReq' = Nil
    /\ fExc' = FALSE
    /\ fPending' = Nil

\* A pc of 0 is taken to mean that nothing was fetched yet.
FetchNewInstr ==
    /\ fCur = "NEW_INSTR"
    /\ fCur' = "CHECKING"
    /\ fPrepared' = IF fPc = 0 THEN PcInit ELSE Plus4(fPc)
    /\ fReq' = Nil
    /\ fExc' = FALSE
    /\ UNCHANGED <<fPc, fInstr, fPending>>

FetchAligned ==
    /\ fCur = "CHECKING"
    /\ ~Misaligned(fPrepared)
    /\ fCur' = "EXEC"
    /\ fReq' = Nil
    /\ UNCHANGED <<fPc, fPrepared, fInstr, fExc, fPending>>

FetchMisaligned ==
    /\ fCur = "CHECKING"
    /\ Misaligned(fPrepared)
    /\ fCur' = "COMMIT"
    /\ fExc' = TRUE
    /\ fInstr' = Zero
    /\ fPc' = fPrepared
    /\ fReq' = Nil
    /\ UNCHANGED <<fPrepared, fPending>>

\* The request is registered: it stays up in the cycle after the answer.
FetchExec(ok, w) ==
    /\ fCur = "EXEC"
    /\ fReq' = fPrepared
    /\ fCur' = IF ok \/ Misaligned(fPrepared) THEN "COMMIT" ELSE "EXEC"
    /\ IF ok THEN fInstr' = w /\ fPc' = fPrepared /\ fExc' = FALSE
             ELSE UNCHANGED <<fInstr, fPc, fExc>>
    /\ UNCHANGED <<fPrepared, fPending>>

FetchCommit(consume) ==
    /\ fCur = "COMMIT"
    /\ fCur' = IF consume THEN "NEW_INSTR" ELSE "COMMIT"
    /\ fReq' = Nil
    /\ UNCHANGED <<fPc, fPrepared, fInstr, fExc, fPending>>

FetchClock(stall, redirect, consume, ok, w) ==
    \/ stall /\ FetchStalled(redirect)
    \/ ~stall /\ FetchRedirect(redirect)
    \/ /\ ~stall
       /\ EffectiveRedirect(redirect) = Nil
       /\ \/ FetchNewInstr
          \/ FetchAligned
          \/ FetchMisaligned
          \/ FetchExec(ok, w)
          \/ FetchCommit(consume)
=============================================================================
