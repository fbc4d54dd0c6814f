----------------------------- MODULE Testbench -----------------------------
(***************************************************************************)
(* run_testbench of verilate/vsrc/testbench.cpp.  With one worker the      *)
(* tests run in the process itself.  With more, the master forks them and  *)
(* each asks over a pipe of its own for one test after the other.  A       *)
(* worker's memory is its own, so there a test is a single step with its   *)
(* outcome.                                                                *)
(*                                                                         *)
(* A worker forked later has inherited the master's ends of the pipes of   *)
(* all earlier ones: HungUp is about that.                                 *)
(***************************************************************************)
EXTENDS TestCase

CONSTANT MaxWorkers    \* bound: the option --num-workers

ASSUME MaxWorkersAssumption == MaxWorkers \in Nat \ {0}

VARIABLES
    nWorkers,    \* n_workers: nothing checks the option, so 0 is one of them
    master,      \* where run_parallel is
    spawned,     \* workers forked
    ready,       \* the fd_set of select, as far as it is not yet scanned
    first,       \* workers that have not asked before
    open,        \* worker[j] is not closed
    dispatched, exited, passed, failed,
    reaped,      \* workers waited for
    bytes,       \* dummy characters in each worker -> master pipe
    commands,    \* numbers in each master -> worker pipe
    life,        \* what each worker does
    test,        \* the test it runs
    ended        \* history: the tests that came to their end

masterVars == <<master, spawned, ready, first, open, dispatched, exited, passed, failed, reaped>>
workerVars == <<bytes, commands, life, test, ended>>
poolVars   == <<nWorkers, masterVars, workerVars>>
benchVars  == <<suite, caseVars, poolVars>>

Worker == 1 .. MaxWorkers
Total  == Len(suite)
Alive(w) == life[w] \in {"ask", "wait", "run"}
-----------------------------------------------------------------------------
(* run_worker                                                              *)
Ask(w) ==
    /\ life[w] = "ask"
    /\ bytes' = [bytes EXCEPT ![w] = @ + 1]
    /\ life' = [life EXCEPT ![w] = "wait"]
    /\ UNCHANGED <<suite, nWorkers, masterVars, commands, test, ended>>

Take(w) ==
    /\ life[w] = "wait" /\ commands[w] # <<>>
    /\ commands' = [commands EXCEPT ![w] = Tail(@)]
    /\ IF Head(commands[w]) < 0
       THEN life' = [life EXCEPT ![w] = "dead"] /\ UNCHANGED test
       ELSE /\ life' = [life EXCEPT ![w] = "run"]
            /\ test' = [test EXCEPT ![w] = Head(commands[w])]
    /\ UNCHANGED <<suite, nWorkers, masterVars, bytes, ended>>

Closed == master \in {"reap", "done"}

\* The pipe is empty and its last writer is gone.
HungUp(w) ==
    /\ life[w] = "wait" /\ commands[w] = <<>>
    /\ Closed /\ \A v \in Worker : v > w => ~Alive(v)
    /\ life' = [life EXCEPT ![w] = "dead"]
    /\ UNCHANGED <<suite, nWorkers, masterVars, bytes, commands, test, ended>>

Finish(w) ==
    /\ life[w] = "run" /\ ~Fails(suite[test[w] + 1])
    /\ life' = [life EXCEPT ![w] = "ask"]
    /\ ended' = ended \cup {test[w]}
    /\ UNCHANGED <<suite, nWorkers, masterVars, bytes, commands, test>>

Crash(w) ==
    /\ life[w] = "run" /\ Fails(suite[test[w] + 1])
    /\ life' = [life EXCEPT ![w] = "dead"]
    /\ UNCHANGED <<suite, nWorkers, masterVars, bytes, commands, test, ended>>

WorkerStep(w) == Ask(w) \/ Take(w) \/ HungUp(w) \/ Finish(w) \/ Crash(w)
-----------------------------------------------------------------------------
(* run_parallel                                                            *)
Spawn ==
    /\ master = "spawn" /\ spawned < nWorkers
    /\ spawned' = spawned + 1
    /\ life' = [life EXCEPT ![spawned + 1] = "ask"]
    /\ master' = IF spawned + 1 = nWorkers THEN "loop" ELSE "spawn"
    /\ UNCHANGED <<suite, nWorkers, ready, first, open, dispatched, exited, passed, failed,
                   reaped, bytes, commands, test, ended>>

ReadableWithByte(w) == open[w] /\ w <= nWorkers /\ bytes[w] > 0
\* What select reports: a character, or the end of a pipe without a writer.
Readable(w) == open[w] /\ w <= nWorkers /\ (bytes[w] > 0 \/ ~Alive(w))

Select ==
    /\ master = "loop" /\ ready = {} /\ ~failed /\ exited < nWorkers
    /\ ready' = {w \in Worker : Readable(w)} /\ ready' # {}
    /\ UNCHANGED <<suite, nWorkers, master, spawned, first, open, dispatched, exited, passed,
                   failed, reaped, workerVars>>

IsNext(w) == w \in ready /\ \A v \in ready : w <= v

\* A worker asks: what it ran before has passed.  It gets the next test, or
\* a -1, with which its pipe is closed.
OneMore   == dispatched <= Total
MoreTests == dispatched < Total

PassedAlways(w) == passed + 1
Passed(w) == IF first[w] THEN passed ELSE passed + 1

Unread(w) == bytes
Read(w)   == [bytes EXCEPT ![w] = @ - 1]

Answer(w) ==
    /\ IsNext(w) /\ bytes[w] > 0
    /\ ready' = ready \ {w}
    /\ bytes' = Read(w)
    /\ first' = [first EXCEPT ![w] = FALSE]
    /\ passed' = Passed(w)
    /\ \/ /\ MoreTests
          /\ commands' = [commands EXCEPT ![w] = Append(@, dispatched)]
          /\ dispatched' = dispatched + 1
          /\ UNCHANGED <<open, exited>>
       \/ /\ ~MoreTests
          /\ commands' = [commands EXCEPT ![w] = Append(@, -1)]
          /\ open' = [open EXCEPT ![w] = FALSE]
          /\ exited' = exited + 1
          /\ UNCHANGED dispatched
    /\ UNCHANGED <<suite, nWorkers, master, spawned, failed, reaped, life, test, ended>>

SeeExit(w) ==
    /\ IsNext(w) /\ bytes[w] = 0
    /\ ready' = ready \ {w} /\ open' = [open EXCEPT ![w] = FALSE] /\ exited' = exited + 1
    /\ UNCHANGED <<suite, nWorkers, master, spawned, first, dispatched, passed, failed,
                   reaped, workerVars>>
\* The child failed and the pipe was closed: the scan ends here.
SeeFailure(w) ==
    /\ IsNext(w) /\ bytes[w] = 0
    /\ failed' = TRUE /\ ready' = {}
    /\ UNCHANGED <<suite, nWorkers, master, spawned, first, open, dispatched, exited, passed,
                   reaped, workerVars>>

CloseEarly ==
    /\ master = "loop" /\ ready = {} /\ (failed \/ exited > 0)
    /\ master' = "reap"
    /\ UNCHANGED <<suite, nWorkers, spawned, ready, first, open, dispatched, exited, passed,
                   failed, reaped, workerVars>>
\* All master -> worker pipes are closed.
Close ==
    /\ master = "loop" /\ ready = {} /\ (failed \/ exited >= nWorkers)
    /\ master' = "reap"
    /\ UNCHANGED <<suite, nWorkers, spawned, ready, first, open, dispatched, exited, passed,
                   failed, reaped, workerVars>>

\* After a failure a worker that still lives is killed; it is waited for.
LeftAlone(w) == life
Killed(w)    == [life EXCEPT ![w] = "dead"]

Reap(w) ==
    /\ master = "reap" /\ w = reaped + 1 /\ w <= nWorkers
    /\ ~Alive(w) \/ failed
    /\ life' = Killed(w)
    /\ reaped' = w
    /\ UNCHANGED <<suite, nWorkers, master, spawned, ready, first, open, dispatched, exited,
                   passed, failed, bytes, commands, test, ended>>

\* run_parallel returns the number of tests that passed.
Leave ==
    /\ master = "reap" /\ reaped = nWorkers
    /\ master' = "done"
    /\ UNCHANGED <<suite, nWorkers, spawned, ready, first, open, dispatched, exited, passed,
                   failed, reaped, workerVars>>

MasterStep ==
    Spawn \/ Select \/ Close \/ Leave \/ (\E w \in Worker : Answer(w) \/ SeeFailure(w) \/ Reap(w))
-----------------------------------------------------------------------------
(* run_testbench                                                           *)
Parallel == nWorkers # 1

PoolInit ==
    /\ nWorkers \in 0 .. MaxWorkers /\ spawned = 0 /\ ready = {}
    /\ master = IF nWorkers = 0 THEN "loop" ELSE "spawn"
    /\ first = [w \in Worker |-> TRUE] /\ open = [w \in Worker |-> TRUE]
    /\ dispatched = 0 /\ exited = 0 /\ passed = 0 /\ failed = FALSE /\ reaped = 0
    /\ bytes = [w \in Worker |-> 0] /\ commands = [w \in Worker |-> <<>>]
    /\ life = [w \in Worker |-> "unborn"] /\ test = [w \in Worker |-> -1]
    /\ ended = {}

BenchInit == CaseInit /\ PoolInit

RunMaster    == Parallel /\ MasterStep /\ UNCHANGED caseVars
RunWorker(w) == Parallel /\ WorkerStep(w) /\ UNCHANGED caseVars
RunSerial    == ~Parallel /\ CaseStep /\ UNCHANGED poolVars
RunReporter  == ~Parallel /\ Reporter /\ UNCHANGED poolVars

BenchNext == RunMaster \/ (\E w \in Worker : RunWorker(w)) \/ RunSerial \/ RunReporter

\* The system schedules every process and thread, and a test comes to an end.
BenchSpec ==
    /\ BenchInit /\ [][BenchNext]_benchVars
    /\ WF_benchVars(RunMaster) /\ WF_benchVars(RunSerial) /\ WF_benchVars(RunReporter)
    /\ \A w \in Worker : WF_benchVars(RunWorker(w))
=============================================================================
