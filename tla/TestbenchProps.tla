--------------------------- MODULE TestbenchProps ---------------------------
(***************************************************************************)
(* What a run of the tests promises.                                       *)
(***************************************************************************)
EXTENDS Testbench

\* The types of the variables of a test and of the pool.
BenchTypeOK ==
    /\ count \in 0 .. Total /\ defers \in Seq({"post"} \cup DOMAIN Controller)
    /\ at \in {"idle", "setup", "leave", "abort", "dead", "end"}
    /\ hooks \in {0, 1} /\ traces \in Nat
    /\ nWorkers \in 0 .. MaxWorkers /\ spawned \in 0 .. nWorkers /\ reaped \in 0 .. nWorkers
    /\ master \in {"spawn", "loop", "reap", "done"}
    /\ ready \subseteq Worker
    /\ first \in [Worker -> BOOLEAN] /\ open \in [Worker -> BOOLEAN]
    /\ dispatched \in 0 .. Total /\ passed \in 0 .. Total /\ exited \in 0 .. nWorkers
    /\ failed \in BOOLEAN
    /\ bytes \in [Worker -> Nat] /\ commands \in [Worker -> Seq(-1 .. Total - 1)]
    /\ life \in [Worker -> {"unborn", "ask", "wait", "run", "dead"}]
    /\ test \in [Worker -> -1 .. Total - 1] /\ ended \subseteq 0 .. Total - 1

\* A worker that waits has asked once and was answered at most once: there
\* is one character or one number on its way, and for the others nothing.
OneToken ==
    \A w \in Worker :
        /\ life[w] = "wait" => bytes[w] + Len(commands[w]) = 1
        /\ life[w] \in {"unborn", "ask", "run"} => bytes[w] = 0 /\ commands[w] = <<>>

\* The tests that came to their end are those that passed counts and one for
\* each worker whose report, its next request, is not read: a request counts
\* an end once, and never the end of nothing, which a worker's first would be.
\* After a failure the reports not yet read stay uncounted.
Unreported == {w \in Worker : open[w] /\ commands[w] = <<>> /\ test[w] \in ended}
PassedCounts == Cardinality(ended) = passed + Cardinality(Unreported)

\* Without a failure run_parallel returns when all tests have passed.  Without
\* a worker, too, it returns without failure, but then none has.
AllPassed ==
    Parallel /\ master = "done" /\ ~failed =>
        passed = IF nWorkers = 0 THEN 0 ELSE Total

\* run_parallel returns with no worker left: those that still live after a
\* failure are killed (the comments at testbench.cpp lines 180 and 188).
NobodyLeft == master = "done" => \A w \in Worker : ~Alive(w)

\* Between two tests nothing of the one before is left: its hooks are paired,
\* its traces closed, its controllers off and the list of defers empty, also
\* after SKIP in the middle of the plug-ins.  DeferListProxy and
\* start_fst_trace assert parts of it.
NothingLeftOn ==
    at \in {"idle", "end"} =>
        /\ defers = <<>> /\ hooks = 0 /\ traces = 0
        /\ \A i \in 1 .. count : \A n \in Reached(suite[i]) :
               Controller[suite[i].plugins[n]] \notin on

\* A reporter's flag is set by the only ThreadWorker that owns it and never
\* after the thread freed it.
FlagOwned == \A r \in DOMAIN threads :
    /\ ~threads[r].lost
    /\ threads[r].flag <=> ~(worker.flag = r /\ ~worker.stopped)

\* A reporter that was told to stop does, unless the process ends before.
ReportersEnd ==
    (\E r \in DOMAIN threads : threads[r].flag) ~>
        (at = "dead" \/ \A r \in DOMAIN threads : threads[r].flag => threads[r].gone)

\* run_testbench ends, whatever tests fail and whenever workers die.
Ends == <>(master = "done" \/ at \in {"end", "dead"})

Pending(w) == {commands[w][i] : i \in DOMAIN commands[w]} \ {-1}
Failing    == {i \in 0 .. Total - 1 : Fails(suite[i + 1])}
InTest     == at \in {"setup", "leave"}

\* The list of tests as the run sees it: the first that nobody was given,
\* those that are given out, and those of workers that a failure ended.
NextTest == IF Parallel THEN dispatched
            ELSE IF at \in {"idle", "end"} THEN count ELSE count + 1
RunningTests ==
    IF Parallel
    THEN {test[w] : w \in {v \in Worker : life[v] = "run"}}
           \cup UNION {Pending(w) : w \in {v \in Worker : Alive(v)}}
    ELSE IF InTest THEN {count} ELSE {}
GoodTests == IF Parallel THEN ended ELSE 0 .. count - 1
BrokenTests ==
    IF Parallel
    THEN {i \in {test[w] : w \in {v \in Worker : life[v] = "dead"}} \ {-1} : i \in Failing}
    ELSE IF at \in {"abort", "dead"} THEN {count} ELSE {}
Verdict ==
    CASE Parallel /\ master = "done" -> IF failed THEN "failed" ELSE "passed"
      [] ~Parallel /\ at = "end"     -> "passed"
      [] ~Parallel /\ at = "dead"    -> "failed"
      [] OTHER -> "none"

Promise == INSTANCE Campaign WITH
    hands <- nWorkers, total <- Total, failing <- Failing, next <- NextTest, running <- RunningTests,
    good <- GoodTests, broken <- BrokenTests, verdict <- Verdict

\* Each test is started once and in order by somebody, never more at a time
\* than there are workers; a run with any passes only if all tests ended, and
\* fails only for a test that does.
ImplementsCampaign == Promise!CampaignSpec
=============================================================================
