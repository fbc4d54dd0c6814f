------------------------------ MODULE TestCase ------------------------------
(***************************************************************************)
(* One test of verilate/include/testbench.h: WITH <plugins> { body } AS    *)
(* (name), run by run_test of vsrc/testbench.cpp in the process itself,    *)
(* and the threads that report which test runs (ThreadWorker,              *)
(* vsrc/common.cpp).  A body is what it comes to: its end or an assertion  *)
(* that fails.                                                             *)
(***************************************************************************)
EXTENDS Integers, Sequences, FiniteSets

\* The controllers that plug-ins enable.
Controller ==
    [LOG |-> "logging", DEBUG |-> "debugging", STATUS |-> "status_line",
     TRACE |-> "fst_trace", STAT |-> "statistics"]

\* fails: the body has an assertion that fails.
Case == [plugins : Seq(DOMAIN Controller \cup {"SKIP"}), fails : BOOLEAN]

CONSTANT Suites    \* the test lists that a program may hold

ASSUME SuitesAssumption == Suites \subseteq Seq(Case)

VARIABLES
    suite,       \* test_list
    count,       \* tests done
    at,          \* idle between tests, in a test's setup, leaving it, aborting, ...
    step,        \* plug-ins done
    defers,      \* defer_list: what is to be undone
    on,          \* the controllers that are on
    traces,      \* FST traces that are open
    hooks,       \* history: calls of the pre-test hook, less of the post-test
    worker,      \* the ThreadWorker of run_test
    threads      \* the reporters: what each does, and its flag

caseVars == <<count, at, step, defers, on, traces, hooks, worker, threads>>

NoWorker == [stopped |-> TRUE, flag |-> 0]
-----------------------------------------------------------------------------
(* ThreadWorker: a flag is a heap cell of its own, named by its thread.    *)

\* The cell is written whether or not it is still allocated.
Stop(w, ts) ==
    IF w.stopped THEN ts ELSE [ts EXCEPT ![w.flag].flag = TRUE, ![w.flag].lost = (@ \/ ts[w.flag].gone)]

\* Move assignment, and then the temporary it came from is destroyed.
MoveKeepsSource(rhs) == [to |-> rhs, from |-> rhs]
Move(rhs) == [to |-> rhs, from |-> NoWorker]

\* run_test: a reporter is made and moved into place.
StartReporter ==
    LET moved == Move([stopped |-> FALSE, flag |-> Len(threads) + 1])
    IN  /\ worker' = moved.to
        /\ threads' = Stop(moved.from,
                           Append(threads, [of |-> count, flag |-> FALSE, gone |-> FALSE, lost |-> FALSE]))

\* The thread looks at its flag between two reports, and frees it at last.
RetireByObject(r) ==
    /\ at # "dead" /\ ~threads[r].gone /\ worker.flag = r /\ threads[r].flag
    /\ threads' = [threads EXCEPT ![r].gone = TRUE]
    /\ UNCHANGED <<suite, count, at, step, defers, on, traces, hooks, worker>>
Retire(r) ==
    /\ at # "dead" /\ ~threads[r].gone /\ threads[r].flag
    /\ threads' = [threads EXCEPT ![r].gone = TRUE]
    /\ UNCHANGED <<suite, count, at, step, defers, on, traces, hooks, worker>>
-----------------------------------------------------------------------------
(* _run: the pre-test hook, the list of defers, the plug-ins, the body.    *)
This == suite[count + 1]

\* The plug-ins that are reached: SKIP leaves out those behind it, and the body.
Reached(c) ==
    {n \in DOMAIN c.plugins : \A m \in 1 .. n : c.plugins[m] # "SKIP"}

\* What a test comes to: its body fails, or a second trace is to be opened.
Fails(c) ==
    \/ c.fails /\ Reached(c) = DOMAIN c.plugins
    \/ \E m, n \in Reached(c) :
           m # n /\ c.plugins[m] = "TRACE" /\ c.plugins[n] = "TRACE"

BeginTest ==
    /\ at = "idle" /\ count < Len(suite)
    /\ StartReporter
    /\ hooks' = hooks + 1
    /\ at' = IF defers = <<>> THEN "setup" ELSE "abort"
    /\ defers' = Append(defers, "post")
    /\ step' = 0
    /\ UNCHANGED <<suite, count, on, traces>>

\* ENABLE_WITH_BOTH_FN; start_fst_trace asserts that no trace is open.
Enable(p) ==
    /\ p # "SKIP"
    /\ on' = on \cup {Controller[p]}
    /\ traces' = IF p = "TRACE" THEN traces + 1 ELSE traces
    /\ IF p = "TRACE" /\ traces > 0
       THEN at' = "abort" /\ UNCHANGED <<step, defers>>
       ELSE step' = step + 1 /\ defers' = Append(defers, p) /\ UNCHANGED at
    /\ UNCHANGED <<suite, count, hooks, worker, threads>>

\* SKIP returns: the destructor of the defer list runs what is on it.
SkipForgets(p) ==
    /\ p = "SKIP"
    /\ at' = "leave" /\ defers' = <<"post">>
    /\ UNCHANGED <<suite, count, step, on, traces, hooks, worker, threads>>
Skip(p) ==
    /\ p = "SKIP"
    /\ at' = "leave"
    /\ UNCHANGED <<suite, count, step, defers, on, traces, hooks, worker, threads>>

Plugin ==
    /\ at = "setup" /\ step < Len(This.plugins)
    /\ LET p == This.plugins[step + 1] IN Enable(p) \/ Skip(p)

Pass ==
    /\ at = "setup" /\ step = Len(This.plugins) /\ ~This.fails
    /\ at' = "leave"
    /\ UNCHANGED <<suite, count, step, defers, on, traces, hooks, worker, threads>>

\* What the defers in a list undo.
Undone(ds) == {Controller[p] : p \in ds \ {"post"}}

\* An assertion fails.
Fail ==
    /\ at = "setup" /\ step = Len(This.plugins) /\ This.fails
    /\ at' = "abort"
    /\ UNCHANGED <<suite, count, step, defers, on, traces, hooks, worker, threads>>

\* abort ends the process, after abort_testbench where a program has it
\* handle the signal: it runs every defer.
Die ==
    /\ at = "abort"
    /\ at' = "dead"
    /\ \/ UNCHANGED <<on, traces, hooks>>
       \/ LET ds == {defers[i] : i \in DOMAIN defers}
          IN  /\ on' = on \ Undone(ds)
              /\ traces' = IF "TRACE" \in ds THEN 0 ELSE traces
              /\ hooks' = IF "post" \in ds THEN hooks - 1 ELSE hooks
    /\ UNCHANGED <<suite, count, step, defers, worker, threads>>

\* run_defers takes the list from its end.  stop_fst_trace enables tracing
\* for the last sample, and then the controller is turned off.
RunDefer ==
    /\ at = "leave" /\ defers # <<>>
    /\ LET d == defers[Len(defers)]
       IN  /\ on' = on \ Undone({d})
           /\ traces' = IF d = "TRACE" THEN 0 ELSE traces
           /\ hooks' = IF d = "post" THEN hooks - 1 ELSE hooks
    /\ defers' = SubSeq(defers, 1, Len(defers) - 1)
    /\ UNCHANGED <<suite, count, at, step, worker, threads>>

\* run returns, and run_test destroys its worker.
EndTest ==
    /\ at = "leave" /\ defers = <<>>
    /\ threads' = Stop(worker, threads) /\ worker' = NoWorker
    /\ count' = count + 1
    /\ at' = "idle"
    /\ UNCHANGED <<suite, step, defers, on, traces, hooks>>

\* run_serial returns.
Return ==
    /\ at = "idle" /\ count = Len(suite)
    /\ at' = "end"
    /\ UNCHANGED <<suite, count, step, defers, on, traces, hooks, worker, threads>>

\* After enable_logging and enable_status_line of the runner
CaseInit ==
    /\ suite \in Suites
    /\ count = 0 /\ at = "idle" /\ step = 0 /\ defers = <<>>
    /\ on = {"logging", "status_line"} /\ traces = 0 /\ hooks = 0
    /\ worker = NoWorker /\ threads = <<>>

CaseStep == BeginTest \/ Plugin \/ Pass \/ Fail \/ Die \/ RunDefer \/ EndTest \/ Return
Reporter == \E r \in DOMAIN threads : Retire(r)
=============================================================================
