--------------------------- MODULE PipelineProps ---------------------------
(***************************************************************************)
(* What the pipeline keeps under any behaviour of the buses, the           *)
(* interrupt lines and the multiply/divide unit.                           *)
(***************************************************************************)
EXTENDS Pipeline

\* The pipeline never overlaps two instructions between ID and WB, but for
\* the write-back of one while the next is in ID.  The five stages of
\* datapath.sv share one fetch machine, and a stall stops both; what a
\* pipeline must otherwise guard against (a load still in MEM when its user
\* is in EX, a branch with a younger instruction behind a memory access, a
\* multiply holding EX/MEM while MEM/WB goes on) rests on this alone.
OneInFlight ==
    /\ ~(D.valid /\ E.valid) /\ ~(D.valid /\ M.valid)
    /\ ~(E.valid /\ M.valid) /\ ~(E.valid /\ W.valid)
    /\ ~(M.valid /\ W.valid)

\* What an instruction reads in ID is final: registers and CSRs (csr_value is
\* read in ID and written back in WB) have been written by every instruction
\* before it, so that neither the forwarding paths, which cover no CSR, nor
\* the bypass of reg_file, nor a read of a register older than its load ever
\* decides a value.  Only a misaligned pc, which is not an instruction,
\* reaches ID without the bus access that keeps the distance.
OperandsReady == D.valid /\ ~D.iexc => ~E.valid /\ ~M.valid /\ ~W.valid
-----------------------------------------------------------------------------
(* The program order.                                                      *)

\* The pc fetch goes on with when nothing is in the pipeline.
FetchPc ==
    IF fPending # Nil THEN fPending
    ELSE CASE fCur = "NEW_INSTR" -> IF fPc = 0 THEN PcInit ELSE Plus4(fPc)
           [] fCur = "COMMIT"    -> fPc
           [] OTHER              -> fPrepared

\* The oldest instruction not yet through write-back.
OldestPc == IF W.valid THEN W.pc ELSE IF M.valid THEN M.pc
            ELSE IF E.valid THEN E.pc ELSE IF D.valid THEN D.pc ELSE FetchPc

\* Where an instruction whose jump is resolved goes when it does not trap.
Following(slot) ==
    IF OpOf(slot) = "jump" /\ slot.alu # Nil THEN slot.alu ELSE Plus4(slot.pc)

\* Where the instruction in WB sends the program.
NextPc ==
    IF ExceptionW THEN TrapRedirect(TRUE, TrapCause, FALSE)
    ELSE IF MretValid THEN mepc
    ELSE IF SretValid THEN sepc
    ELSE Following(W)

\* The oldest instruction gives way to its successor only, and only when it
\* leaves write-back.
StreamStep == OldestPc' = IF W.valid THEN NextPc ELSE OldestPc
-----------------------------------------------------------------------------
(* The inductive form: how far an instruction has come when fetch is in a  *)
(* given state.                                                            *)

\* A pipeline register without an instruction decodes to nothing, so that it
\* neither jumps nor stalls.
BubblesEmpty ==
    /\ ~D.valid => D.instr = Zero
    /\ ~E.valid => E.instr = Zero
    /\ ~M.valid => M.instr = Zero
    /\ ~W.valid => W.instr = Zero

Spacing ==
    /\ fCur = "NEW_INSTR" => ~E.valid /\ ~M.valid
    /\ fCur = "CHECKING"  => ~D.valid /\ ~(E.valid /\ M.valid)
                             /\ ~(E.valid /\ W.valid) /\ ~(M.valid /\ W.valid)
    /\ fCur \in {"EXEC", "COMMIT"} => ~D.valid /\ ~E.valid
                                      /\ ~(M.valid /\ W.valid)

\* A redirect is left pending only by a trap that meets a multiply in EX: it
\* finds fetch before its request, and the pipeline it leaves is empty.
PendingAlone ==
    fPending # Nil =>
        fCur = "CHECKING" /\ ~E.valid /\ ~M.valid /\ ~W.valid

\* An instruction word that has arrived finds at most WB occupied.
FetchedAlone == fCur = "COMMIT" /\ ~fExc => ~M.valid

\* Every fetch state leaves the instruction before it a fixed distance ahead.
PipeInv == BubblesEmpty /\ Spacing /\ PendingAlone

\* Without interrupts, what fetch goes on with is the successor of the
\* youngest instruction in the pipeline, at every stage of both.
InOrder ==
    /\ fPending = Nil
    /\ fCur = "EXEC" => ~Misaligned(fPrepared)
    /\ fCur = "NEW_INSTR" => IF D.valid THEN fPc = D.pc ELSE fPc = 0 /\ ~W.valid
    /\ D.valid /\ W.valid => D.pc = Following(W)
    /\ E.valid => fPrepared = Plus4(E.pc)
    /\ M.valid => FetchPc = Following(M)
    /\ W.valid /\ ~D.valid => FetchPc = Following(W)

\* The multiply and divide unit works for the instruction in EX, and what it
\* gave travels with that instruction.
MduBusyFor ==
    /\ mduState # "IDLE" => E.valid /\ OpOf(E) = "mdu" /\ mduFor = E.pc
    /\ OpOf(M) = "mdu" => M.val = M.pc
    /\ OpOf(W) = "mdu" => W.val = W.pc
=============================================================================
