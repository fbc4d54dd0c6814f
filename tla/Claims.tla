------------------------------- MODULE Claims -------------------------------
(***************************************************************************)
(* What comments of the code say of it and the code does not do.  Each     *)
(* property is the claim; the run that checks it finds the behaviour that  *)
(* refutes it (see the findings in the README).                            *)
(***************************************************************************)
EXTENDS CoreProps

InterruptEntry == mcause'.irq /\ mcause' # mcause

\* final_redirect_pc_unit is said to arbitrate every final redirect, and has
\* an arm for sret: after an sret the program goes on at sepc.
SretRedirects == [][SretValid => OldestPc' = sepc]_coreVars

\* The MMU says a fault stays up long enough to be captured: a fetch that
\* the page tables refuse reaches write-back as a page fault, not as some
\* instruction.
FetchFaultCaptured ==
    W.valid /\ ~W.iexc /\ Translation(W.pc, "FETCH", priv, satp) = Nil => W.ipf

\* The pc an interrupt saves is said to be a recovery point: the first
\* instruction that has not completed.
InterruptResumes ==
    [][InterruptEntry => mepc' = IF W.valid THEN NextPc ELSE OldestPc]_coreVars

\* saf_unit is said to clear the instructions younger than one that commits
\* a trap: none of them is in write-back in the next cycle.
TrapClearsYounger == [][InterruptEntry => ~W'.valid]_coreVars

\* A cancel is said to keep the answers of old transactions from those that
\* come after: an answer the MMU can take belongs to its present request.
NoStaleAnswer ==
    cbBusy /\ mmuState \in {"WAIT", "WAIT_P"} => cbReq = MmuMemReq(FALSE)

\* The line ibus_to_dbus keeps is said never to outlive a change of satp:
\* LineCurrent of CoreProps, for a program that switches page tables.
NoStaleLine == LineCurrent
=============================================================================
