------------------------------ MODULE Campaign ------------------------------
(***************************************************************************)
(* What run_testbench promises of a list of tests, without processes and   *)
(* pipes: every test is started once, in order, and no more at a time than *)
(* there are hands; the run passes when all came to their end; a test that *)
(* fails ends the run, and the tests that are running then may be dropped. *)
(* With no hands at all the run passes with nothing done.                  *)
(***************************************************************************)
EXTENDS Integers, FiniteSets

VARIABLES
    hands,      \* how many there are to run the tests
    total,      \* how many tests there are
    failing,    \* those whose assertions fail
    next,       \* the first test not yet started
    running,    \* started and not ended
    good,       \* came to their end
    broken,     \* failed
    verdict     \* "none", "passed" or "failed"

campaignVars == <<hands, total, failing, next, running, good, broken, verdict>>

CampaignInit ==
    /\ hands \in Nat /\ total \in Nat /\ failing \subseteq 0 .. total - 1 /\ next = 0
    /\ running = {} /\ good = {} /\ broken = {} /\ verdict = "none"

Start ==
    /\ verdict = "none" /\ next < total /\ Cardinality(running) < hands
    /\ next' = next + 1 /\ running' = running \cup {next}
    /\ UNCHANGED <<hands, total, failing, good, broken, verdict>>

Finish(t) ==
    /\ t \in running /\ t \notin failing
    /\ running' = running \ {t} /\ good' = good \cup {t}
    /\ UNCHANGED <<hands, total, failing, next, broken, verdict>>

Break(t) ==
    /\ t \in running /\ t \in failing
    /\ running' = running \ {t} /\ broken' = broken \cup {t}
    /\ UNCHANGED <<hands, total, failing, next, good, verdict>>

Drop(t) ==
    /\ t \in running /\ broken # {}
    /\ running' = running \ {t}
    /\ UNCHANGED <<hands, total, failing, next, good, broken, verdict>>

Conclude ==
    /\ verdict = "none"
    /\ \/ /\ broken # {} /\ running = {} /\ verdict' = "failed"
       \/ /\ broken = {} /\ good = 0 .. total - 1 /\ verdict' = "passed"
       \/ hands = 0 /\ verdict' = "passed"
    /\ UNCHANGED <<hands, total, failing, next, running, good, broken>>

CampaignNext ==
    Start \/ Conclude \/ (\E t \in running : Finish(t) \/ Break(t) \/ Drop(t))

CampaignSpec == CampaignInit /\ [][CampaignNext]_campaignVars
=============================================================================
