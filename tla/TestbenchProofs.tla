-------------------------- MODULE TestbenchProofs --------------------------
(***************************************************************************)
(* Proofs about the driver for every number of workers and list of tests.  *)
(* The invariant PoolIInv of the parallel run has four parts: types; the   *)
(* token that a worker and the master hand to each other; the master's     *)
(* accounts, which relate passed, dispatched and exited to what first and  *)
(* open say of each worker; and which workers live in each phase of        *)
(* run_parallel.  CaseIInv says what a test has switched on at each of its *)
(* plug-ins and defers, TestsIInv what passed counts; on the three rests   *)
(* the proof that the driver implements Campaign, step by step.            *)
(***************************************************************************)
EXTENDS TestbenchProps, FiniteSetTheorems, SequenceTheorems, TLAPS

\* Workers whose answer to a test the master still waits for, and those it
\* has told to exit.
Owing == {w \in Worker : open[w] /\ ~first[w]}
Told  == {w \in Worker : ~open[w]}

PoolType ==
    /\ suite \in Seq(Case) /\ nWorkers \in 0 .. MaxWorkers
    /\ ready \subseteq Worker /\ failed \in BOOLEAN
    /\ first \in [Worker -> BOOLEAN] /\ open \in [Worker -> BOOLEAN]
    /\ dispatched \in Nat /\ passed \in Nat /\ exited \in Nat
    /\ spawned \in Nat /\ reaped \in Nat
    /\ bytes \in [Worker -> Nat] /\ commands \in [Worker -> Seq(Int)]
    /\ life \in [Worker -> {"unborn", "ask", "wait", "run", "dead"}]

Accounts ==
    /\ \A w \in Worker : w \in ready \/ ~first[w] \/ ~open[w] => w <= nWorkers
    /\ \A w \in ready : open[w]
    /\ passed + Cardinality(Owing) = dispatched
    /\ exited = Cardinality(Told)
    /\ dispatched <= Total
    /\ exited > 0 => dispatched = Total
    /\ nWorkers = 0 => dispatched = 0

Phases ==
    /\ master \in {"spawn", "loop", "reap", "done"}
    /\ \A w \in Worker : w > nWorkers \/ w > spawned => life[w] = "unborn"
    /\ spawned <= nWorkers /\ reaped <= nWorkers
    /\ master = "spawn" => spawned < nWorkers
    /\ master # "spawn" => spawned = nWorkers
    /\ master \in {"spawn", "loop"} => reaped = 0
    /\ master \in {"reap", "done"} => ready = {} /\ (failed \/ exited >= nWorkers)
    /\ master = "done" => reaped = nWorkers
    /\ \A w \in Worker : w <= reaped => ~Alive(w)

PoolIInv == PoolType /\ OneToken /\ Accounts /\ Phases
-----------------------------------------------------------------------------
LEMMA WorkersFinite ==
    ASSUME NEW S \in SUBSET Worker
    PROVE  IsFiniteSet(S) /\ Cardinality(S) \in Nat
<1>1. IsFiniteSet(Worker)
  BY MaxWorkersAssumption, FS_Interval DEF Worker
<1>2. IsFiniteSet(S)
  BY <1>1, FS_Subset
<1> QED
  BY <1>2, FS_CardinalityType

\* One worker more or less.
LEMMA OneMoreWorker ==
    ASSUME NEW S \in SUBSET Worker, NEW w \in Worker
    PROVE  /\ w \notin S => Cardinality(S \cup {w}) = Cardinality(S) + 1
           /\ w \in S => Cardinality(S \ {w}) = Cardinality(S) - 1
<1>1. IsFiniteSet(S)
  BY WorkersFinite
<1> QED
  BY <1>1, FS_AddElement, FS_RemoveElement

\* One token in all, and there is a number: then nothing else is on its way.
LEMMA LastToken ==
    ASSUME NEW b \in Nat, NEW s \in Seq(Int), s # <<>>, b + Len(s) = 1
    PROVE  b = 0 /\ Tail(s) = <<>>
<1>1. Len(s) \in Nat \ {0}
  BY EmptySeq, LenProperties
<1>2. \A n \in Nat \ {0} : b + n = 1 => b = 0 /\ n = 1
  OBVIOUS
<1>3. b = 0 /\ Len(s) = 1
  BY <1>1, <1>2
<1>4. Tail(s) \in Seq(Int) /\ Len(Tail(s)) = 0
  BY <1>3, HeadTailProperties
<1> QED
  BY <1>3, <1>4, EmptySeq

LEMMA SuiteFixed == BenchNext => suite' = suite
<1>1. CaseStep => suite' = suite
  BY DEF CaseStep, BeginTest, Plugin, Enable, Skip, Pass, Fail, Die, RunDefer, EndTest, Return
<1>2. Reporter => suite' = suite
  BY DEF Reporter, Retire
<1>3. ASSUME NEW w \in Worker, WorkerStep(w) PROVE suite' = suite
  BY <1>3 DEF WorkerStep, Ask, Take, HungUp, Finish, Crash
<1>4. MasterStep => suite' = suite
  BY DEF MasterStep, Spawn, Select, Close, Leave, Answer, SeeFailure, Reap
<1> QED
  BY <1>1, <1>2, <1>3, <1>4 DEF BenchNext, RunMaster, RunWorker, RunSerial, RunReporter

LEMMA PoolInitially == BenchInit => PoolIInv
<1> SUFFICES ASSUME BenchInit PROVE PoolIInv
  OBVIOUS
<1>1. suite \in Seq(Case) /\ Total \in Nat
  BY SuitesAssumption DEF BenchInit, CaseInit, Total
<1>2. PoolType
  <2>1. first = [w \in Worker |-> TRUE] /\ open = [w \in Worker |-> TRUE]
    BY DEF BenchInit, PoolInit
  <2>2. first \in [Worker -> BOOLEAN] /\ open \in [Worker -> BOOLEAN]
    BY <2>1
  <2>3. bytes \in [Worker -> Nat] /\ commands \in [Worker -> Seq(Int)]
        /\ life \in [Worker -> {"unborn", "ask", "wait", "run", "dead"}]
    BY DEF BenchInit, PoolInit
  <2>4. nWorkers \in 0 .. MaxWorkers /\ ready \subseteq Worker /\ failed \in BOOLEAN
        /\ dispatched \in Nat /\ passed \in Nat /\ exited \in Nat
        /\ spawned \in Nat /\ reaped \in Nat
    BY DEF BenchInit, PoolInit
  <2> QED
    BY <1>1, <2>2, <2>3, <2>4 DEF PoolType
<1>3. OneToken
  BY DEF BenchInit, PoolInit, OneToken
<1>4. Accounts
  <2>1. Owing = {} /\ Told = {}
    BY DEF BenchInit, PoolInit, Owing, Told
  <2>2. Cardinality(Owing) = 0 /\ Cardinality(Told) = 0
    BY <2>1, FS_EmptySet
  <2> QED
    BY <1>1, <2>2 DEF BenchInit, PoolInit, Accounts
<1>5. Phases
  BY MaxWorkersAssumption DEF BenchInit, PoolInit, Phases, Worker, Alive
<1> QED
  BY <1>2, <1>3, <1>4, <1>5 DEF PoolIInv

\* A worker's step leaves the master's accounts alone.
LEMMA WorkerKeeps ==
    ASSUME PoolIInv, NEW w \in Worker, WorkerStep(w)
    PROVE  PoolIInv'
<1>1. suite' = suite /\ UNCHANGED <<nWorkers, masterVars>>
  BY DEF WorkerStep, Ask, Take, HungUp, Finish, Crash
<1>2. Accounts'
  BY <1>1 DEF PoolIInv, Accounts, masterVars, Owing, Told, Total
<1>3. /\ life[w] \in {"ask", "wait", "run"}
      /\ life' \in [Worker -> {"unborn", "ask", "wait", "run", "dead"}]
      /\ \A v \in Worker : v # w => life'[v] = life[v]
      /\ life'[w] # "unborn"
  BY DEF PoolIInv, PoolType, WorkerStep, Ask, Take, HungUp, Finish, Crash
<1>4. Phases'
  BY <1>1, <1>3 DEF PoolIInv, Phases, masterVars, Alive
<1>5. CASE Ask(w)
  BY <1>1, <1>2, <1>3, <1>4, <1>5 DEF Ask, PoolIInv, PoolType, OneToken, masterVars
<1>6. CASE Take(w)
  <2>1. commands[w] \in Seq(Int) /\ commands[w] # <<>> /\ bytes[w] \in Nat
        /\ bytes[w] + Len(commands[w]) = 1
    BY <1>6 DEF Take, PoolIInv, PoolType, OneToken
  <2>2. bytes[w] = 0 /\ Tail(commands[w]) = <<>>
    BY <2>1, LastToken
  <2>5. Tail(commands[w]) \in Seq(Int)
    BY <2>1
  <2>3. PoolType'
    BY <1>1, <1>3, <1>6, <2>5 DEF Take, PoolIInv, PoolType, masterVars
  <2>4. OneToken'
    BY <1>3, <1>6, <2>2 DEF Take, PoolIInv, PoolType, OneToken
  <2> QED
    BY <1>2, <1>4, <2>3, <2>4 DEF PoolIInv
<1>7. CASE HungUp(w) \/ Finish(w) \/ Crash(w)
  BY <1>1, <1>2, <1>3, <1>4, <1>7
     DEF HungUp, Finish, Crash, PoolIInv, PoolType, OneToken, masterVars
<1> QED
  BY <1>5, <1>6, <1>7 DEF WorkerStep

\* An answer moves the token back and settles the account of one worker.
LEMMA AnswerKeeps ==
    ASSUME PoolIInv, NEW w \in Worker, Answer(w)
    PROVE  PoolIInv'
<1>1. w \in ready /\ open[w] /\ w <= nWorkers /\ bytes[w] \in Nat /\ bytes[w] > 0
  BY DEF Answer, IsNext, PoolIInv, PoolType, Accounts
<1>2. /\ UNCHANGED <<suite, nWorkers, master, spawned, failed, reaped, life>>
      /\ ready' = ready \ {w} /\ bytes' = [bytes EXCEPT ![w] = @ - 1]
      /\ first' = [first EXCEPT ![w] = FALSE]
      /\ passed' = IF first[w] THEN passed ELSE passed + 1
  BY DEF Answer, Read, Passed
<1>9. dispatched \in Nat /\ Total \in Nat
  BY DEF PoolIInv, PoolType, Total
<1> DEFINE i == IF MoreTests THEN dispatched ELSE -1
<1>3. i \in Int /\ commands' = [commands EXCEPT ![w] = Append(@, i)]
  BY <1>9 DEF Answer
<1> HIDE DEF i
<1>4. \/ open' = open /\ dispatched < Total /\ dispatched' = dispatched + 1 /\ exited' = exited
      \/ open' = [open EXCEPT ![w] = FALSE] /\ dispatched >= Total
         /\ dispatched' = dispatched /\ exited' = exited + 1
  BY <1>9 DEF Answer, MoreTests
<1>5. PoolType'
  <2>1. first' \in [Worker -> BOOLEAN] /\ open' \in [Worker -> BOOLEAN]
    <3>1. open' = open \/ open' = [open EXCEPT ![w] = FALSE]
      BY <1>4
    <3> QED
      BY <1>2, <3>1 DEF PoolIInv, PoolType
  <2>2. bytes' \in [Worker -> Nat]
    BY <1>1, <1>2 DEF PoolIInv, PoolType
  <2>3. commands' \in [Worker -> Seq(Int)]
    BY <1>3 DEF PoolIInv, PoolType
  <2>4. dispatched' \in Nat /\ exited' \in Nat /\ passed' \in Nat
    BY <1>2, <1>4 DEF PoolIInv, PoolType
  <2> QED
    BY <1>2, <2>1, <2>2, <2>3, <2>4 DEF PoolIInv, PoolType
<1>6. OneToken'
  BY <1>1, <1>2, <1>3 DEF PoolIInv, PoolType, OneToken
<1>7. Phases'
  BY <1>1, <1>2, <1>4 DEF PoolIInv, PoolType, Phases, Alive
<1>8. Accounts'
  <2>1. Owing \in SUBSET Worker /\ Told \in SUBSET Worker
        /\ Cardinality(Owing) \in Nat /\ Cardinality(Told) \in Nat
    BY WorkersFinite DEF Owing, Told
  <2>2. w \notin Told /\ (w \in Owing <=> ~first[w])
    BY <1>1 DEF Owing, Told
  <2>3. Total \in Nat /\ Total' = Total
    BY <1>2 DEF Total, PoolIInv, PoolType
  <2>4. CASE open' = open /\ dispatched < Total /\ dispatched' = dispatched + 1 /\ exited' = exited
    <3>1. Owing' = Owing \cup {w} /\ Told' = Told
      BY <1>1, <1>2, <2>4 DEF Owing, Told, PoolIInv, PoolType
    <3>2. passed' + Cardinality(Owing') = dispatched'
      <4>1. CASE first[w]
        <5>1. Cardinality(Owing') = Cardinality(Owing) + 1
          BY <2>1, <2>2, <3>1, <4>1, OneMoreWorker
        <5> QED
          BY <1>2, <2>1, <2>4, <4>1, <5>1 DEF PoolIInv, PoolType, Accounts
      <4>2. CASE ~first[w]
        <5>1. Owing' = Owing
          BY <2>2, <3>1, <4>2
        <5> QED
          BY <1>2, <2>1, <2>4, <4>2, <5>1 DEF PoolIInv, PoolType, Accounts
      <4> QED
        BY <4>1, <4>2
    <3>3. dispatched' <= Total' /\ (exited' > 0 => dispatched' = Total')
      BY <2>3, <2>4 DEF PoolIInv, PoolType, Accounts
    <3>4. nWorkers' # 0
      BY <1>1, <1>2, MaxWorkersAssumption DEF Worker, PoolIInv, PoolType
    <3> QED
      BY <1>1, <1>2, <2>4, <3>1, <3>2, <3>3, <3>4 DEF PoolIInv, PoolType, Accounts
  <2>5. CASE open' = [open EXCEPT ![w] = FALSE] /\ dispatched >= Total
             /\ dispatched' = dispatched /\ exited' = exited + 1
    <3>1. Owing' = Owing \ {w} /\ Told' = Told \cup {w}
      BY <1>1, <1>2, <2>5 DEF Owing, Told, PoolIInv, PoolType
    <3>2. passed' + Cardinality(Owing') = dispatched'
      <4>1. CASE first[w]
        <5>1. Owing' = Owing
          BY <2>2, <3>1, <4>1
        <5> QED
          BY <1>2, <2>1, <2>5, <4>1, <5>1 DEF PoolIInv, PoolType, Accounts
      <4>2. CASE ~first[w]
        <5>1. Cardinality(Owing') = Cardinality(Owing) - 1
          BY <2>1, <2>2, <3>1, <4>2, OneMoreWorker
        <5> QED
          BY <1>2, <2>1, <2>5, <4>2, <5>1 DEF PoolIInv, PoolType, Accounts
      <4> QED
        BY <4>1, <4>2
    <3>3. exited' = Cardinality(Told')
      BY <2>1, <2>2, <2>5, <3>1, OneMoreWorker DEF PoolIInv, Accounts
    <3>4. dispatched' <= Total' /\ (exited' > 0 => dispatched' = Total')
      BY <2>3, <2>5 DEF PoolIInv, PoolType, Accounts
    <3> QED
      BY <1>1, <1>2, <2>5, <3>2, <3>3, <3>4 DEF PoolIInv, PoolType, Accounts
  <2> QED
    BY <1>4, <2>4, <2>5
<1> QED
  BY <1>5, <1>6, <1>7, <1>8 DEF PoolIInv

\* The other steps of the master.
LEMMA MasterKeeps ==
    ASSUME PoolIInv, MasterStep
    PROVE  PoolIInv'
<1>1. CASE Spawn
  <2>1. spawned \in Nat /\ spawned + 1 <= nWorkers /\ nWorkers \in 0 .. MaxWorkers
        /\ spawned + 1 \in Worker /\ life[spawned + 1] = "unborn"
    BY <1>1, MaxWorkersAssumption DEF Spawn, PoolIInv, PoolType, Phases, Worker
  <2>2. PoolType'
    BY <1>1, <2>1 DEF Spawn, PoolIInv, PoolType
  <2>3. OneToken'
    BY <1>1, <2>1 DEF Spawn, PoolIInv, PoolType, OneToken
  <2>4. Accounts'
    BY <1>1 DEF Spawn, PoolIInv, Accounts, Owing, Told, Total
  <2>5. Phases'
    BY <1>1, <2>1 DEF Spawn, PoolIInv, PoolType, Phases, Alive, Worker
  <2> QED
    BY <2>2, <2>3, <2>4, <2>5 DEF PoolIInv
<1>2. CASE Select
  BY <1>2 DEF Select, PoolIInv, PoolType, OneToken, Accounts, Phases, Owing, Told, Total,
              Readable, Alive, workerVars
<1>3. CASE Close
  BY <1>3 DEF Close, PoolIInv, PoolType, OneToken, Accounts, Phases, Owing, Told, Total,
              Alive, workerVars
<1>4. CASE Leave
  BY <1>4 DEF Leave, PoolIInv, PoolType, OneToken, Accounts, Phases, Owing, Told, Total,
              Alive, workerVars
<1>5. ASSUME NEW w \in Worker, SeeFailure(w) PROVE PoolIInv'
  BY <1>5 DEF SeeFailure, PoolIInv, PoolType, OneToken, Accounts, Phases, Owing, Told, Total,
              Alive, workerVars
<1>6. ASSUME NEW w \in Worker, Reap(w) PROVE PoolIInv'
  <2>1. life' = [life EXCEPT ![w] = "dead"] /\ reaped' = w /\ w = reaped + 1 /\ w <= nWorkers
        /\ master = "reap"
    BY <1>6 DEF Reap, Killed
  <2>2. UNCHANGED <<suite, nWorkers, master, spawned, ready, first, open, dispatched, exited,
                    passed, failed, bytes, commands>>
    BY <1>6 DEF Reap
  <2>3. PoolType' /\ OneToken'
    BY <2>1, <2>2 DEF PoolIInv, PoolType, OneToken, Worker
  <2>4. Accounts'
    BY <2>2 DEF PoolIInv, Accounts, Owing, Told, Total
  <2>5. Phases'
    <3>1. w \in Nat /\ reaped \in Nat /\ life \in [Worker -> {"unborn", "ask", "wait", "run", "dead"}]
      BY DEF PoolIInv, PoolType, Worker
    <3>4. spawned = nWorkers /\ nWorkers \in Int
          /\ \A v \in Worker : v > nWorkers \/ v > spawned => life[v] = "unborn"
      BY <2>1 DEF PoolIInv, PoolType, Phases, Worker
    <3>2. \A v \in Worker : v > nWorkers \/ v > spawned => life'[v] = "unborn"
      BY <2>1, <3>1, <3>4 DEF Worker
    <3>3. \A v \in Worker : v <= reaped' => ~Alive(v)'
      BY <2>1, <3>1 DEF PoolIInv, Phases, Alive, Worker
    <3> QED
      BY <2>1, <2>2, <3>2, <3>3 DEF PoolIInv, Phases
  <2> QED
    BY <2>3, <2>4, <2>5 DEF PoolIInv
<1> QED
  BY <1>1, <1>2, <1>3, <1>4, <1>5, <1>6, AnswerKeeps DEF MasterStep

LEMMA PoolStep == PoolIInv /\ [BenchNext]_benchVars => PoolIInv'
<1> SUFFICES ASSUME PoolIInv, [BenchNext]_benchVars PROVE PoolIInv'
  OBVIOUS
<1>1. CASE RunMaster
  BY <1>1, MasterKeeps DEF RunMaster
<1>2. ASSUME NEW w \in Worker, RunWorker(w) PROVE PoolIInv'
  BY <1>2, WorkerKeeps DEF RunWorker
<1>3. ASSUME suite' = suite, UNCHANGED poolVars PROVE PoolIInv'
  BY <1>3 DEF poolVars, masterVars, workerVars, PoolIInv, PoolType, OneToken, Accounts, Phases,
              Owing, Told, Total, Alive
<1>4. CASE RunSerial \/ RunReporter
  BY <1>3, <1>4, SuiteFixed DEF BenchNext, RunSerial, RunReporter
<1>5. CASE UNCHANGED benchVars
  BY <1>3, <1>5 DEF benchVars
<1> QED
  BY <1>1, <1>2, <1>4, <1>5 DEF BenchNext

LEMMA PoolInvariant == BenchSpec => []PoolIInv
<1> QED
  BY PoolInitially, PoolStep, PTL DEF BenchSpec
-----------------------------------------------------------------------------
\* Between a worker and the master there is one request or one number, never
\* both: the protocol of run_worker and run_parallel needs no other lock.
THEOREM BenchOneToken == BenchSpec => []OneToken
<1>1. PoolIInv => OneToken
  BY DEF PoolIInv
<1> QED
  BY <1>1, PoolInvariant, PTL

\* run_parallel returns with no worker alive, although a worker forked later
\* keeps an earlier one's pipe open: the kill is what makes it true.
THEOREM BenchNobodyLeft == BenchSpec => []NobodyLeft
<1>1. PoolIInv => NobodyLeft
  BY DEF PoolIInv, PoolType, Phases, NobodyLeft, Alive, Worker
<1> QED
  BY <1>1, PoolInvariant, PTL

\* Without a failure the number run_parallel returns is the number of tests,
\* if it has a worker, and 0 if it has none.
THEOREM BenchAllPassed == BenchSpec => []AllPassed
<1>1. PoolIInv => AllPassed
  <2> SUFFICES ASSUME PoolIInv, master = "done", ~failed
               PROVE  passed = IF nWorkers = 0 THEN 0 ELSE Total
    BY DEF AllPassed
  <2>1. exited >= nWorkers /\ nWorkers \in Nat /\ Total \in Nat
    BY MaxWorkersAssumption DEF PoolIInv, PoolType, Phases, Total
  <2>2. Told \subseteq 1 .. nWorkers
    BY DEF PoolIInv, PoolType, Accounts, Told, Worker
  <2>3. Told = 1 .. nWorkers
    <3>1. IsFiniteSet(1 .. nWorkers) /\ Cardinality(1 .. nWorkers) = nWorkers
      BY <2>1, FS_Interval
    <3>2. Cardinality(Told) <= nWorkers /\ (Cardinality(Told) = nWorkers => Told = 1 .. nWorkers)
      BY <2>2, <3>1, FS_Subset
    <3> QED
      BY <2>1, <3>2 DEF PoolIInv, PoolType, Accounts
  <2>4. Owing = {}
    BY <2>1, <2>3 DEF PoolIInv, PoolType, Accounts, Owing, Told, Worker
  <2>5. passed = dispatched
    BY <2>4, FS_EmptySet DEF PoolIInv, PoolType, Accounts
  <2>6. nWorkers # 0 => dispatched = Total
    BY <2>1 DEF PoolIInv, PoolType, Accounts
  <2> QED
    BY <2>5, <2>6 DEF PoolIInv, Accounts
<1> QED
  BY <1>1, PoolInvariant, PTL
-----------------------------------------------------------------------------
(***************************************************************************)
(* A run in the process itself: what a test has enabled and deferred, what *)
(* it comes to, and who owns the flag of its reporter.                     *)
(***************************************************************************)
Deferred == {defers[i] : i \in DOMAIN defers}

TestInv ==
    /\ count \in 0 .. Total /\ traces \in Nat /\ hooks \in {0, 1}
    /\ at \in {"idle", "setup", "leave", "abort", "dead", "end"}
    /\ defers \in Seq({"post"} \cup DOMAIN Controller)
    /\ at \in {"setup", "leave", "abort", "dead"} => count < Total
    /\ at = "end" => count = Total
    /\ at \in {"idle", "end"} => defers = <<>> /\ hooks = 0 /\ traces = 0
    /\ at \in {"setup", "abort"} => defers # <<>>
    /\ at \in {"setup", "leave", "abort"} =>
           /\ hooks = IF defers = <<>> THEN 0 ELSE 1
           /\ \A i \in DOMAIN defers : defers[i] = "post" <=> i = 1
    /\ at \in {"setup", "leave"} /\ traces > 0 => "TRACE" \in Deferred

\* The plug-ins of the test that runs, and what it comes to.
PluginInv ==
    /\ step \in Nat
    /\ at = "setup" => /\ 1 .. step \subseteq Reached(This)
                       /\ traces > 0 <=> \E n \in 1 .. step : This.plugins[n] = "TRACE"
                       /\ \A m, n \in 1 .. step :
                             This.plugins[m] = "TRACE" /\ This.plugins[n] = "TRACE" => m = n
    /\ at = "leave" => Reached(This) = 1 .. step /\ ~Fails(This)
    /\ at \in {"abort", "dead"} => Fails(This)

\* A controller that a test turned on is on only while its defer is listed.
OnlyDeferred ==
    at \in {"idle", "setup", "leave", "end"} =>
        \A i \in 1 .. Total : \A n \in Reached(suite[i]) :
            /\ i <= count \/ (i = count + 1 /\ at \in {"setup", "leave"} /\ n <= step)
            /\ Controller[suite[i].plugins[n]] \in on
            => Controller[suite[i].plugins[n]] \in Undone(Deferred)

Cells == [of : Nat, flag : BOOLEAN, gone : BOOLEAN, lost : BOOLEAN]

ThreadInv ==
    /\ threads \in Seq(Cells)
    /\ worker = IF at \in {"idle", "end"} THEN NoWorker
                ELSE [stopped |-> FALSE, flag |-> Len(threads)]
    /\ at \notin {"idle", "end"} => threads # <<>>
    /\ \A r \in DOMAIN threads : threads[r].gone => threads[r].flag
    /\ FlagOwned

CaseIInv == TestInv /\ PluginInv /\ OnlyDeferred /\ ThreadInv
-----------------------------------------------------------------------------
(***************************************************************************)
(* The pool, test by test: the number a worker was given last is ended, or *)
(* its own, and every number given out is one of these.                    *)
(***************************************************************************)
Given(w) == IF commands[w] = <<>> THEN test[w] ELSE Head(commands[w])
Done     == ended \cup {-1}

Number(w) ==
    /\ test[w] \in -1 .. dispatched - 1 /\ Given(w) \in -1 .. dispatched - 1
    /\ commands[w] = <<>> \/ commands[w] = <<Given(w)>>
    /\ commands[w] # <<>> => /\ life[w] \in {"wait", "dead"} /\ bytes[w] = 0
                             /\ test[w] \in Done /\ Given(w) \notin ended
    /\ bytes[w] > 0 => life[w] \in {"wait", "dead"} /\ test[w] \in Done
    /\ life[w] \in {"unborn", "ask", "wait"} => test[w] \in Done
    /\ life[w] = "run" => test[w] \notin Done
    /\ Given(w) \notin Done => open[w] /\ ~first[w]
    /\ open[w] => IF first[w] THEN commands[w] = <<>> /\ test[w] = -1 ELSE Given(w) # -1

Numbers ==
    /\ ended \subseteq 0 .. dispatched - 1 /\ ended \cap Failing = {}
    /\ test \in [Worker -> Int]
    /\ \A w \in Worker : Number(w)
    /\ \A v, w \in Worker : v # w /\ Given(v) = Given(w) => Given(w) \in Done
    /\ \A t \in 0 .. dispatched - 1 : t \in ended \/ \E w \in Worker : Given(w) = t

\* Why a worker is dead before the pipes are closed.
Deaths ==
    /\ master = "spawn" => ready = {}
    /\ \A w \in Worker :
          /\ commands[w] # <<>> /\ Given(w) = -1 => ~open[w]
          /\ master \in {"spawn", "loop"} /\ life[w] = "dead" =>
                bytes[w] = 0 /\ commands[w] = <<>> /\ (open[w] => test[w] \in Failing)
          /\ w \in ready => bytes[w] > 0 \/ life[w] = "dead"
          /\ w <= spawned => life[w] # "unborn"
    /\ failed => \E w \in Worker : life[w] = "dead" /\ test[w] \in Failing

TestsIInv == Numbers /\ Deaths
-----------------------------------------------------------------------------
(* A run in the process keeps CaseIInv.                                    *)

Defers == {"post"} \cup DOMAIN Controller
Plugs  == DOMAIN Controller \cup {"SKIP"}

LEMMA Push ==
    ASSUME NEW S, NEW s \in Seq(S), NEW d \in S
    PROVE  /\ Append(s, d) \in Seq(S) /\ Append(s, d) # <<>>
           /\ Len(Append(s, d)) = Len(s) + 1 /\ Append(s, d)[Len(s) + 1] = d
           /\ \A i \in DOMAIN s : i \in DOMAIN Append(s, d) /\ Append(s, d)[i] = s[i]
           /\ \A i \in DOMAIN Append(s, d) :
                  i \in DOMAIN s \/ (i = Len(s) + 1 /\ Append(s, d)[i] = d)
  OBVIOUS

\* run_defers: the last one goes.
LEMMA Pop ==
    ASSUME NEW S, NEW s \in Seq(S), s # <<>>
    PROVE  /\ Len(s) \in DOMAIN s
           /\ SubSeq(s, 1, Len(s) - 1) \in Seq(S)
           /\ Len(SubSeq(s, 1, Len(s) - 1)) = Len(s) - 1
           /\ \A i \in DOMAIN SubSeq(s, 1, Len(s) - 1) :
                  i \in DOMAIN s /\ SubSeq(s, 1, Len(s) - 1)[i] = s[i]
           /\ \A i \in DOMAIN s :
                  s[i] # s[Len(s)] => /\ i \in DOMAIN SubSeq(s, 1, Len(s) - 1)
                                     /\ SubSeq(s, 1, Len(s) - 1)[i] = s[i]
<1>1. Len(s) \in Nat \ {0} /\ DOMAIN s = 1 .. Len(s)
  BY EmptySeq, LenProperties
<1>2. SubSeq(s, 1, Len(s) - 1) = [i \in 1 .. Len(s) - 1 |-> s[i]]
  BY <1>1, SubSeqProperties
<1> DEFINE t == [i \in 1 .. Len(s) - 1 |-> s[i]]
<1>3. t \in Seq(S) /\ Len(t) = Len(s) - 1 /\ DOMAIN t = 1 .. Len(s) - 1
  BY <1>1
<1> QED
  BY <1>1, <1>2, <1>3

LEMMA ThisCase ==
    ASSUME suite \in Seq(Case), TestInv, count < Total
    PROVE  /\ This \in Case /\ This.plugins \in Seq(Plugs)
           /\ DOMAIN This.plugins = 1 .. Len(This.plugins) /\ Len(This.plugins) \in Nat
           /\ Reached(This) \subseteq 1 .. Len(This.plugins)
<1>1. count + 1 \in 1 .. Len(suite)
  BY DEF TestInv, Total
<1>2. This \in Case
  BY <1>1 DEF This
<1>3. This.plugins \in Seq(Plugs)
  BY <1>2 DEF Case, Plugs
<1>4. DOMAIN This.plugins = 1 .. Len(This.plugins) /\ Len(This.plugins) \in Nat
  BY <1>3
<1> QED
  BY <1>2, <1>3, <1>4 DEF Reached

LEMMA TestKeeps ==
    ASSUME suite \in Seq(Case), TestInv, PluginInv, CaseStep
    PROVE  TestInv'
<1> USE DEF TestInv
<1>1. suite' = suite /\ Total' = Total /\ Total \in Nat
  BY DEF CaseStep, BeginTest, Plugin, Enable, Skip, Pass, Fail, Die, RunDefer, EndTest,
         Return, Total
<1>2. CASE BeginTest
  <2>1. defers = <<>> /\ hooks = 0 /\ traces = 0 /\ count < Total
    BY <1>2 DEF BeginTest, Total
  <2>2. defers' = Append(defers, "post") /\ hooks' = 1 /\ at' = "setup" /\ count' = count
        /\ traces' = 0
    BY <1>2, <2>1 DEF BeginTest
  <2>3. "post" \in Defers /\ defers \in Seq(Defers)
    BY DEF Defers
  <2>4. defers' \in Seq(Defers) /\ defers' # <<>>
        /\ \A i \in DOMAIN defers' : i = 1 /\ defers'[i] = "post"
    <3>1. Len(defers) = 0 /\ DOMAIN defers = {}
      BY <2>1
    <3> QED
      BY <2>2, <2>3, <3>1, Push
  <2> QED
    BY <1>1, <2>1, <2>2, <2>4 DEF Defers
<1>3. CASE Plugin
  <2>1. at = "setup" /\ count < Total /\ step < Len(This.plugins)
    BY <1>3 DEF Plugin
  <2> DEFINE p == This.plugins[step + 1]
  <2>2. Enable(p) \/ Skip(p)
    BY <1>3 DEF Plugin
  <2>3. CASE Skip(p)
    BY <1>1, <2>1, <2>3 DEF Skip, Deferred
  <2>4. CASE Enable(p)
    <3>1. UNCHANGED <<count, hooks>> /\ traces' \in Nat
      BY <2>4 DEF Enable
    <3>2. CASE p = "TRACE" /\ traces > 0
      BY <1>1, <2>1, <2>4, <3>1, <3>2 DEF Enable, Deferred
    <3>3. CASE ~(p = "TRACE" /\ traces > 0)
      <4>1. defers' = Append(defers, p) /\ at' = at
            /\ traces' = IF p = "TRACE" THEN traces + 1 ELSE traces
        BY <2>4, <3>3 DEF Enable
      <4>2. p \in Defers /\ p # "post" /\ defers \in Seq(Defers)
        <5>1. p # "SKIP"
          BY <2>4 DEF Enable
        <5>2. step + 1 \in DOMAIN This.plugins
          BY <2>1, ThisCase DEF PluginInv
        <5> QED
          BY <2>1, <5>1, <5>2, ThisCase DEF Plugs, Defers, Controller
      <4> HIDE DEF p
      <4>3. /\ defers' \in Seq(Defers) /\ defers' # <<>>
            /\ \A i \in DOMAIN defers :
                  i \in DOMAIN defers' /\ defers'[i] = defers[i]
            /\ Len(defers) + 1 \in DOMAIN defers' /\ defers'[Len(defers) + 1] = p
            /\ \A i \in DOMAIN defers' : i \in DOMAIN defers \/ (i = Len(defers) + 1 /\ defers'[i] = p)
        BY <4>1, <4>2, Push
      <4>4. \A i \in DOMAIN defers' : defers'[i] = "post" <=> i = 1
        <5>1. Len(defers) + 1 # 1
          BY <2>1
        <5> QED
          BY <2>1, <4>2, <4>3, <5>1
      <4>5. traces' > 0 => "TRACE" \in Deferred'
        <5>1. "TRACE" \in Deferred \/ p = "TRACE" => "TRACE" \in Deferred'
          BY <4>3 DEF Deferred
        <5> QED
          BY <2>1, <4>1, <5>1
      <4>6. hooks' = 1 /\ hooks' \in {0, 1}
        BY <2>1, <3>1
      <4> QED
        BY <1>1, <2>1, <3>1, <4>1, <4>3, <4>4, <4>5, <4>6 DEF Defers
    <3> QED
      BY <3>2, <3>3
  <2> QED
    BY <2>2, <2>3, <2>4
<1>4. CASE Pass \/ Fail
  BY <1>1, <1>4 DEF Pass, Fail, Deferred
<1>5. CASE Die
  <2>1. at = "abort" /\ at' = "dead" /\ UNCHANGED <<count, defers>> /\ hooks = 1
    BY <1>5 DEF Die
  <2>2. hooks' \in {0, 1} /\ traces' \in Nat
    BY <1>5, <2>1 DEF Die
  <2> QED
    BY <1>1, <2>1, <2>2
<1>6. CASE RunDefer
  <2> DEFINE d == defers[Len(defers)]
             rest == SubSeq(defers, 1, Len(defers) - 1)
  <2>1. at = "leave" /\ defers # <<>> /\ defers \in Seq(Defers) /\ hooks = 1
        /\ UNCHANGED <<count, at>> /\ defers' = rest
        /\ traces' = (IF d = "TRACE" THEN 0 ELSE traces)
        /\ hooks' = (IF d = "post" THEN hooks - 1 ELSE hooks)
    BY <1>6 DEF RunDefer, Defers
  <2>2. /\ Len(defers) \in DOMAIN defers /\ rest \in Seq(Defers)
        /\ Len(rest) = Len(defers) - 1
        /\ \A i \in DOMAIN rest : i \in DOMAIN defers /\ rest[i] = defers[i]
        /\ \A i \in DOMAIN defers : defers[i] # d => i \in DOMAIN rest /\ rest[i] = defers[i]
    BY <2>1, Pop
  <2> HIDE DEF rest
  <2>3. Len(defers) \in Nat /\ (rest = <<>> <=> Len(defers) = 1)
    BY <2>1, <2>2
  <2>4. d = "post" <=> Len(defers) = 1
    BY <2>1, <2>2
  <2>5. hooks' = IF rest = <<>> THEN 0 ELSE 1
    BY <2>1, <2>3, <2>4
  <2>6. traces' > 0 => "TRACE" \in {rest[i] : i \in DOMAIN rest}
    BY <2>1, <2>2 DEF Deferred
  <2> HIDE DEF d
  <2>7. \A i \in DOMAIN rest : rest[i] = "post" <=> i = 1
    BY <2>1, <2>2
  <2>8. traces' \in Nat /\ hooks' \in {0, 1}
    BY <2>1
  <2> QED
    BY <1>1, <2>1, <2>2, <2>5, <2>6, <2>7, <2>8 DEF Deferred, Defers
<1>7. CASE EndTest
  BY <1>1, <1>7 DEF EndTest, Deferred
<1>8. CASE Return
  BY <1>1, <1>8 DEF Return, Deferred, Total
<1> QED
  BY <1>2, <1>3, <1>4, <1>5, <1>6, <1>7, <1>8 DEF CaseStep

\* A plug-in is reached if those before it are and none of them is SKIP.
LEMMA NextReached ==
    ASSUME suite \in Seq(Case), TestInv, PluginInv, at = "setup",
           step < Len(This.plugins)
    PROVE  /\ step + 1 \in DOMAIN This.plugins
           /\ This.plugins[step + 1] # "SKIP" => 1 .. step + 1 \subseteq Reached(This)
           /\ This.plugins[step + 1] = "SKIP" =>
                 /\ Reached(This) = 1 .. step /\ Reached(This) # DOMAIN This.plugins
<1>1. /\ DOMAIN This.plugins = 1 .. Len(This.plugins) /\ Len(This.plugins) \in Nat
      /\ Reached(This) \subseteq 1 .. Len(This.plugins)
      /\ step \in Nat /\ 1 .. step \subseteq Reached(This)
  BY ThisCase DEF TestInv, PluginInv
<1>2. step + 1 \in DOMAIN This.plugins
  BY <1>1
<1>3. ASSUME This.plugins[step + 1] # "SKIP" PROVE 1 .. step + 1 \subseteq Reached(This)
  <2>1. \A m \in 1 .. step + 1 : This.plugins[m] # "SKIP"
    BY <1>1, <1>3 DEF Reached
  <2> QED
    BY <1>1, <2>1 DEF Reached
<1>4. ASSUME This.plugins[step + 1] = "SKIP"
      PROVE  Reached(This) = 1 .. step /\ Reached(This) # DOMAIN This.plugins
  <2>1. \A n \in Reached(This) : n <= step
    BY <1>1, <1>4 DEF Reached
  <2> DEFINE reached == Reached(This)
  <2>2. \A n \in reached : n \in 1 .. step
    BY <1>1, <2>1
  <2>3. 1 .. step \subseteq reached
    BY <1>1
  <2> HIDE DEF reached
  <2>4. reached = 1 .. step
    BY <2>2, <2>3
  <2>5. step + 1 \notin reached
    BY <1>1, <2>4
  <2> QED
    BY <1>2, <2>4, <2>5 DEF reached
<1> QED
  BY <1>2, <1>3, <1>4

LEMMA PluginKeeps ==
    ASSUME suite \in Seq(Case), TestInv, PluginInv, CaseStep
    PROVE  PluginInv'
<1>1. suite' = suite /\ (count' = count => This' = This)
  BY DEF CaseStep, BeginTest, Plugin, Enable, Skip, Pass, Fail, Die, RunDefer, EndTest,
         Return, This
<1>2. step \in Nat
  BY DEF PluginInv
<1>3. CASE BeginTest
  BY <1>3 DEF BeginTest, TestInv, PluginInv
<1>4. CASE Plugin
  <2> DEFINE p == This.plugins[step + 1]
  <2>1. at = "setup" /\ step < Len(This.plugins) /\ (Enable(p) \/ Skip(p))
    BY <1>4 DEF Plugin
  <2>2. /\ step + 1 \in DOMAIN This.plugins
        /\ p # "SKIP" => 1 .. step + 1 \subseteq Reached(This)
        /\ p = "SKIP" => Reached(This) = 1 .. step /\ Reached(This) # DOMAIN This.plugins
    BY <2>1, NextReached
  <2>3. /\ traces > 0 <=> \E n \in 1 .. step : This.plugins[n] = "TRACE"
        /\ \A m, n \in 1 .. step :
              This.plugins[m] = "TRACE" /\ This.plugins[n] = "TRACE" => m = n
        /\ traces \in Nat
    BY <2>1 DEF PluginInv, TestInv
  <2>4. CASE Skip(p)
    <3>1. p = "SKIP" /\ at' = "leave" /\ count' = count /\ step' = step
      BY <2>4 DEF Skip
    <3>2. ~Fails(This)
      BY <2>2, <2>3, <3>1 DEF Fails
    <3> QED
      BY <1>1, <1>2, <2>2, <3>1, <3>2 DEF PluginInv
  <2>5. CASE Enable(p)
    <3>1. p # "SKIP" /\ count' = count /\ traces' = IF p = "TRACE" THEN traces + 1 ELSE traces
      BY <2>5 DEF Enable
    <3>2. CASE p = "TRACE" /\ traces > 0
      <4>1. at' = "abort" /\ step' = step
        BY <2>5, <3>2 DEF Enable
      <4>2. PICK n \in 1 .. step : This.plugins[n] = "TRACE"
        BY <2>3, <3>2
      <4>3. n \in Reached(This) /\ step + 1 \in Reached(This) /\ n # step + 1
        BY <1>2, <2>2, <3>1
      <4>4. Fails(This)
        BY <3>2, <4>2, <4>3 DEF Fails
      <4> QED
        BY <1>1, <1>2, <3>1, <4>1, <4>4 DEF PluginInv
    <3>3. CASE ~(p = "TRACE" /\ traces > 0)
      <4>1. at' = "setup" /\ step' = step + 1
        BY <2>1, <2>5, <3>3 DEF Enable
      <4>2. 1 .. step' = (1 .. step) \cup {step + 1}
        BY <1>2, <4>1
      <4>3. traces' > 0 <=> \E n \in 1 .. step' : This.plugins[n] = "TRACE"
        BY <2>3, <3>1, <4>2
      <4>4. \A m, n \in 1 .. step' :
              This.plugins[m] = "TRACE" /\ This.plugins[n] = "TRACE" => m = n
        BY <2>3, <3>3, <4>2
      <4> QED
        BY <1>1, <1>2, <2>2, <3>1, <4>1, <4>3, <4>4 DEF PluginInv
    <3> QED
      BY <3>2, <3>3
  <2> QED
    BY <2>1, <2>4, <2>5
<1>5. CASE Pass \/ Fail
  <2>1. at = "setup" /\ step = Len(This.plugins) /\ count' = count /\ step' = step
        /\ at' = (IF This.fails THEN "abort" ELSE "leave")
    BY <1>5 DEF Pass, Fail
  <2>2. Reached(This) = 1 .. step /\ DOMAIN This.plugins = 1 .. step
    BY <2>1, ThisCase DEF PluginInv, TestInv
  <2>3. Fails(This) <=> This.fails
    BY <2>1, <2>2 DEF PluginInv, Fails
  <2> QED
    BY <1>1, <1>2, <2>1, <2>2, <2>3 DEF PluginInv
<1>6. CASE Die
  BY <1>1, <1>6 DEF Die, PluginInv
<1>7. CASE RunDefer
  BY <1>1, <1>7 DEF RunDefer, PluginInv
<1>8. CASE EndTest \/ Return
  BY <1>8 DEF EndTest, Return, PluginInv
<1> QED
  BY <1>3, <1>4, <1>5, <1>6, <1>7, <1>8 DEF CaseStep

LEMMA ReachedType ==
    ASSUME suite \in Seq(Case), NEW i \in 1 .. Total
    PROVE  Reached(suite[i]) \subseteq Nat \ {0}
<1>1. suite[i] \in Case
  BY DEF Total
<1>2. suite[i].plugins \in Seq(Plugs)
  BY <1>1 DEF Case, Plugs
<1>3. DOMAIN suite[i].plugins = 1 .. Len(suite[i].plugins)
  BY <1>2
<1> QED
  BY <1>3 DEF Reached

\* What is turned off with the last of the defers was turned on with it.
LEMMA OnlyKeeps ==
    ASSUME suite \in Seq(Case), TestInv, PluginInv, OnlyDeferred, CaseStep
    PROVE  OnlyDeferred'
<1>1. suite' = suite /\ Total' = Total /\ count \in Nat /\ step \in Nat
  BY DEF CaseStep, BeginTest, Plugin, Enable, Skip, Pass, Fail, Die, RunDefer, EndTest,
         Return, Total, TestInv, PluginInv
<1>2. ASSUME at \in {"idle", "setup", "leave", "end"}, on' = on, Deferred \ {"post"} \subseteq Deferred',
             NEW i \in 1 .. Total, NEW n \in Reached(suite[i]),
             i <= count \/ (i = count + 1 /\ at \in {"setup", "leave"} /\ n <= step),
             Controller[suite[i].plugins[n]] \in on'
      PROVE  Controller[suite[i].plugins[n]] \in Undone(Deferred')
  BY <1>2 DEF OnlyDeferred, Undone
<1> DEFINE Was(i, n) == i <= count \/ (i = count + 1 /\ at \in {"setup", "leave"} /\ n <= step)
           Is(i, n) == i <= count' \/ (i = count' + 1 /\ at' \in {"setup", "leave"} /\ n <= step')
<1>3. ASSUME at \in {"idle", "setup", "leave", "end"}, on' = on, Deferred \ {"post"} \subseteq Deferred',
             \A i \in 1 .. Total : \A n \in Reached(suite[i]) : Is(i, n) => Was(i, n)
      PROVE  OnlyDeferred'
  BY <1>1, <1>2, <1>3 DEF OnlyDeferred
<1>4. CASE BeginTest
  <2>1. at = "idle" /\ on' = on /\ count' = count /\ step' = 0 /\ Deferred \subseteq Deferred'
    BY <1>4 DEF BeginTest, TestInv, Deferred
  <2>2. \A i \in 1 .. Total : \A n \in Reached(suite[i]) : Is(i, n) => Was(i, n)
    <3>1. \A i \in 1 .. Total : Reached(suite[i]) \subseteq Nat \ {0}
      BY ReachedType
    <3> QED
      BY <1>1, <2>1, <3>1
  <2> QED
    BY <1>3, <2>1, <2>2
<1>5. CASE Plugin
  <2> DEFINE p == This.plugins[step + 1]
  <2>1. at = "setup" /\ count < Total /\ step < Len(This.plugins) /\ (Enable(p) \/ Skip(p))
        /\ count' = count
    BY <1>5 DEF Plugin, Enable, Skip, TestInv
  <2>2. CASE Skip(p)
    <3>1. on' = on /\ Deferred' = Deferred /\ step' = step
      BY <2>2 DEF Skip, Deferred
    <3> QED
      BY <1>3, <2>1, <3>1
  <2>3. CASE Enable(p)
    <3>1. CASE at' = "abort"
      BY <3>1 DEF OnlyDeferred
    <3>2. CASE at' # "abort"
      <4>1. on' = on \cup {Controller[p]} /\ defers' = Append(defers, p) /\ step' = step + 1
            /\ at' = at
        BY <2>3, <3>2 DEF Enable
      <4>2. p \in Defers /\ p # "post" /\ defers \in Seq(Defers)
        <5>1. p # "SKIP"
          BY <2>3 DEF Enable
        <5>2. step + 1 \in DOMAIN This.plugins
          BY <1>1, <2>1, ThisCase
        <5> QED
          BY <2>1, <5>1, <5>2, ThisCase DEF Plugs, Defers, Controller, TestInv
      <4>3. Deferred \subseteq Deferred' /\ p \in Deferred'
        <5>1. /\ \A i \in DOMAIN defers : i \in DOMAIN defers' /\ defers'[i] = defers[i]
              /\ Len(defers) + 1 \in DOMAIN defers' /\ defers'[Len(defers) + 1] = p
          <6> HIDE DEF p
          <6> QED
            BY <4>1, <4>2, Push
        <5> HIDE DEF p
        <5> QED
          BY <5>1 DEF Deferred
      <4>4. ASSUME NEW i \in 1 .. Total, NEW n \in Reached(suite[i]), Is(i, n),
                   Controller[suite[i].plugins[n]] \in on'
            PROVE  Controller[suite[i].plugins[n]] \in Undone(Deferred')
        <5>1. CASE i = count + 1 /\ n = step + 1
          <6>1. suite[i].plugins[n] = p
            BY <5>1 DEF This
          <6> QED
            BY <4>2, <4>3, <6>1 DEF Undone
        <5>2. CASE ~(i = count + 1 /\ n = step + 1)
          <6>1. n \in Nat
            BY ReachedType
          <6>2. Was(i, n)
            BY <1>1, <2>1, <4>1, <4>4, <5>2, <6>1
          <6>3. CASE Controller[suite[i].plugins[n]] \in on
            <7>1. Controller[suite[i].plugins[n]] \in Undone(Deferred)
              BY <2>1, <6>2, <6>3 DEF OnlyDeferred
            <7> QED
              BY <4>3, <7>1 DEF Undone
          <6>4. CASE Controller[suite[i].plugins[n]] = Controller[p]
            BY <4>2, <4>3, <6>4 DEF Undone
          <6> QED
            BY <4>1, <4>4, <6>3, <6>4
        <5> QED
          BY <5>1, <5>2
      <4> QED
        BY <1>1, <4>4 DEF OnlyDeferred
    <3> QED
      BY <3>1, <3>2
  <2> QED
    BY <2>1, <2>2, <2>3
<1>6. CASE Pass \/ Fail
  <2>1. at = "setup" /\ on' = on /\ Deferred' = Deferred /\ step' = step /\ count' = count
    BY <1>6 DEF Pass, Fail, Deferred
  <2> QED
    BY <1>3, <2>1
<1>7. CASE Die
  BY <1>7 DEF Die, OnlyDeferred
<1>8. CASE RunDefer
  <2> DEFINE d == defers[Len(defers)]
  <2>1. at = "leave" /\ at' = "leave" /\ step' = step /\ count' = count
        /\ on' = on \ Undone({d}) /\ defers # <<>> /\ defers \in Seq(Defers)
        /\ defers' = SubSeq(defers, 1, Len(defers) - 1)
    BY <1>8 DEF RunDefer, TestInv, Defers
  <2>2. Deferred \ {d} \subseteq Deferred'
    BY <2>1, Pop DEF Deferred
  <2> HIDE DEF d
  <2>3. ASSUME NEW i \in 1 .. Total, NEW n \in Reached(suite[i]), Is(i, n),
               Controller[suite[i].plugins[n]] \in on'
        PROVE  Controller[suite[i].plugins[n]] \in Undone(Deferred')
    <3>1. Controller[suite[i].plugins[n]] \in Undone(Deferred)
      BY <2>1, <2>3 DEF OnlyDeferred
    <3>2. PICK q \in Deferred \ {"post"} : Controller[suite[i].plugins[n]] = Controller[q]
      BY <3>1 DEF Undone
    <3>3. q # d
      BY <2>1, <2>3, <3>2 DEF Undone
    <3> QED
      BY <2>2, <3>2, <3>3 DEF Undone
  <2> QED
    BY <1>1, <2>1, <2>3 DEF OnlyDeferred
<1>9. CASE EndTest
  <2>1. at = "leave" /\ at' = "idle" /\ count' = count + 1 /\ on' = on /\ Deferred' = Deferred
    BY <1>9 DEF EndTest, Deferred
  <2>2. Reached(suite[count + 1]) = 1 .. step
    BY <2>1 DEF PluginInv, This
  <2>3. \A i \in 1 .. Total : \A n \in Reached(suite[i]) : Is(i, n) => Was(i, n)
    BY <1>1, <2>1, <2>2
  <2> QED
    BY <1>3, <2>1, <2>3
<1>10. CASE Return
  BY <1>3, <1>10 DEF Return, Deferred
<1> QED
  BY <1>4, <1>5, <1>6, <1>7, <1>8, <1>9, <1>10 DEF CaseStep

\* Writing a reporter's cell keeps the others.
LEMMA CellKept ==
    ASSUME NEW s \in Seq(Cells), NEW i \in DOMAIN s, NEW cell \in Cells
    PROVE  /\ [s EXCEPT ![i] = cell] \in Seq(Cells)
           /\ DOMAIN [s EXCEPT ![i] = cell] = DOMAIN s
           /\ Len([s EXCEPT ![i] = cell]) = Len(s)
  OBVIOUS

\* The one reporter that is not told to stop is the worker's.
LEMMA ThreadKeeps ==
    ASSUME TestInv, ThreadInv, CaseStep \/ Reporter
    PROVE  ThreadInv'
<1>1. /\ threads \in Seq(Cells) /\ Len(threads) \in Nat /\ DOMAIN threads = 1 .. Len(threads)
      /\ \A r \in DOMAIN threads : /\ threads[r] \in Cells /\ ~threads[r].lost
                                   /\ threads[r].gone => threads[r].flag
                                   /\ threads[r].flag <=> ~(worker.flag = r /\ ~worker.stopped)
  <2>1. threads \in Seq(Cells)
    BY DEF ThreadInv
  <2>2. /\ Len(threads) \in Nat /\ DOMAIN threads = 1 .. Len(threads)
        /\ \A r \in DOMAIN threads : threads[r] \in Cells
    BY <2>1
  <2> QED
    BY <2>1, <2>2, Zenon DEF ThreadInv, FlagOwned
<1>2. NoWorker.stopped /\ count \in Nat
  BY DEF NoWorker, TestInv
<1>3. CASE BeginTest
  <2> DEFINE cell == [of |-> count, flag |-> FALSE, gone |-> FALSE, lost |-> FALSE]
  <2>1. at = "idle" /\ defers = <<>> /\ at' = "setup" /\ worker = NoWorker
    BY <1>3 DEF BeginTest, TestInv, ThreadInv
  <2>2. worker' = [stopped |-> FALSE, flag |-> Len(threads) + 1]
        /\ threads' = Append(threads, cell)
    BY <1>3 DEF BeginTest, StartReporter, Move, Stop, NoWorker
  <2>9. cell \in Cells
    BY <1>2 DEF Cells
  <2>3. threads' \in Seq(Cells) /\ threads' # <<>> /\ Len(threads') = Len(threads) + 1
        /\ DOMAIN threads' = 1 .. Len(threads')
    BY <1>1, <2>2, <2>9
  <2>4. \A r \in DOMAIN threads' :
            threads'[r] = IF r = Len(threads) + 1 THEN cell ELSE threads[r]
    BY <1>1, <2>2
  <2>5. \A r \in DOMAIN threads' : r # Len(threads) + 1 =>
            r \in DOMAIN threads /\ threads[r].flag /\ ~threads[r].lost
    BY <1>1, <1>2, <2>1, <2>3
  <2>6. (\A r \in DOMAIN threads : threads[r].gone => threads[r].flag)'
    BY <2>4, <2>5
  <2>7. FlagOwned'
    BY <2>2, <2>4, <2>5 DEF FlagOwned
  <2>8. worker'.flag = Len(threads')
    BY <2>2, <2>3
  <2> QED
    BY <2>1, <2>2, <2>3, <2>6, <2>7 DEF ThreadInv
<1>4. CASE EndTest
  <2> DEFINE f == Len(threads)
  <2>1. at = "leave" /\ at' = "idle" /\ worker' = NoWorker /\ threads # <<>>
        /\ worker = [stopped |-> FALSE, flag |-> f] /\ threads' = Stop(worker, threads)
    BY <1>4 DEF EndTest, ThreadInv
  <2>2. f \in DOMAIN threads /\ ~threads[f].flag /\ ~threads[f].gone
    <3>1. f # 0
      BY <1>1, <2>1
    <3> QED
      BY <1>1, <2>1, <3>1
  <2> DEFINE cell == [threads[f] EXCEPT !.flag = TRUE, !.lost = (@ \/ threads[f].gone)]
  <2>3. threads' = [threads EXCEPT ![f] = cell]
    BY <1>1, <2>1, <2>2 DEF Stop, Cells
  <2>4. cell \in Cells /\ ~cell.lost /\ cell.flag
    BY <1>1, <2>2 DEF Cells
  <2> HIDE DEF f, cell
  <2>5. threads' \in Seq(Cells) /\ DOMAIN threads' = DOMAIN threads
    BY <1>1, <2>2, <2>3, <2>4, CellKept
  <2>6. \A r \in DOMAIN threads' : ~threads'[r].lost /\ threads'[r].flag
    <3>1. \A r \in DOMAIN threads : threads'[r] = IF r = f THEN cell ELSE threads[r]
      BY <2>3
    <3>2. \A r \in DOMAIN threads : r # f => ~threads[r].lost /\ threads[r].flag
      BY <1>1, <2>1
    <3> QED
      BY <2>4, <2>5, <3>1, <3>2
  <2> QED
    BY <1>2, <2>1, <2>5, <2>6 DEF ThreadInv, FlagOwned
<1>5. CASE Reporter
  <2>1. PICK r \in DOMAIN threads :
            /\ threads[r].flag /\ threads' = [threads EXCEPT ![r].gone = TRUE]
            /\ UNCHANGED <<at, worker>>
    BY <1>5 DEF Reporter, Retire
  <2> DEFINE cell == [threads[r] EXCEPT !.gone = TRUE]
  <2>2. threads' = [threads EXCEPT ![r] = cell]
    BY <2>1
  <2>3. cell \in Cells /\ cell.flag = threads[r].flag /\ cell.lost = threads[r].lost
    BY <1>1 DEF Cells
  <2> HIDE DEF cell
  <2>4. threads' \in Seq(Cells) /\ DOMAIN threads' = DOMAIN threads /\ Len(threads') = Len(threads)
    BY <1>1, <2>2, <2>3, CellKept
  <2>5. \A q \in DOMAIN threads : threads'[q] = IF q = r THEN cell ELSE threads[q]
    BY <2>2
  <2>6. \A q \in DOMAIN threads : /\ threads'[q].flag = threads[q].flag
                                  /\ ~threads'[q].lost
                                  /\ threads'[q].gone => threads'[q].flag
    BY <1>1, <2>1, <2>3, <2>5
  <2>7. threads # <<>> => threads' # <<>>
    BY <1>1, <2>4
  <2> QED
    BY <1>1, <2>1, <2>4, <2>6, <2>7 DEF ThreadInv, FlagOwned
<1>6. CASE UNCHANGED <<worker, threads>> /\ (at' \in {"idle", "end"} <=> at \in {"idle", "end"})
  BY <1>6 DEF ThreadInv, FlagOwned
<1> QED
  BY <1>3, <1>4, <1>5, <1>6
     DEF CaseStep, Plugin, Enable, Skip, Pass, Fail, Die, RunDefer, Return

LEMMA CaseInitially == BenchInit => CaseIInv
<1> SUFFICES ASSUME BenchInit PROVE CaseIInv
  OBVIOUS
<1> USE DEF BenchInit, CaseInit
<1>1. Total \in Nat
  BY SuitesAssumption DEF Total
<1>2. TestInv /\ PluginInv
  BY <1>1 DEF TestInv, PluginInv
<1>3. OnlyDeferred
  BY <1>1 DEF OnlyDeferred
<1>4. ThreadInv
  BY DEF ThreadInv, FlagOwned
<1> QED
  BY <1>2, <1>3, <1>4 DEF CaseIInv

LEMMA CaseKeeps ==
    PoolIInv /\ CaseIInv /\ [BenchNext]_benchVars => CaseIInv'
<1> SUFFICES ASSUME PoolIInv, CaseIInv, [BenchNext]_benchVars PROVE CaseIInv'
  OBVIOUS
<1>1. suite \in Seq(Case)
  BY DEF PoolIInv, PoolType
<1>2. CASE CaseStep
  BY <1>1, <1>2, TestKeeps, PluginKeeps, OnlyKeeps, ThreadKeeps DEF CaseIInv
<1>3. CASE Reporter
  <2>1. ThreadInv'
    BY <1>3, ThreadKeeps DEF CaseIInv
  <2>2. UNCHANGED <<suite, count, at, step, defers, on, traces, hooks>>
    BY <1>3 DEF Reporter, Retire
  <2> QED
    BY <2>1, <2>2 DEF CaseIInv, TestInv, PluginInv, OnlyDeferred, Total, Deferred, This
<1>4. CASE suite' = suite /\ UNCHANGED caseVars
  BY <1>4 DEF caseVars, CaseIInv, TestInv, PluginInv, OnlyDeferred, ThreadInv, FlagOwned,
              Total, Deferred, This
<1> QED
  BY <1>2, <1>3, <1>4, SuiteFixed
     DEF BenchNext, benchVars, RunMaster, RunWorker, RunSerial, RunReporter

LEMMA CaseInvariant == BenchSpec => []CaseIInv
<1> QED
  BY PoolInvariant, CaseInitially, CaseKeeps, PTL DEF BenchSpec

\* Between two tests nothing of the one before is left, also after SKIP in
\* the middle of the plug-ins, for any list of plug-ins.
THEOREM BenchNothingLeftOn == BenchSpec => []NothingLeftOn
<1>1. PoolIInv /\ CaseIInv => NothingLeftOn
  <2> SUFFICES ASSUME PoolIInv, CaseIInv, at \in {"idle", "end"}
               PROVE  /\ defers = <<>> /\ hooks = 0 /\ traces = 0
                      /\ \A i \in 1 .. count : \A n \in Reached(suite[i]) :
                            Controller[suite[i].plugins[n]] \notin on
    BY DEF NothingLeftOn
  <2>1. defers = <<>> /\ hooks = 0 /\ traces = 0 /\ count \in 0 .. Total
    BY DEF CaseIInv, TestInv
  <2>2. Undone(Deferred) = {}
    BY <2>1 DEF Undone, Deferred
  <2>3. Total \in Nat
    BY DEF PoolIInv, PoolType, Total
  <2> QED
    BY <2>1, <2>2, <2>3 DEF CaseIInv, OnlyDeferred
<1> QED
  BY <1>1, PoolInvariant, CaseInvariant, PTL

\* A reporter's flag is set by its only owner and never after it was freed.
THEOREM BenchFlagOwned == BenchSpec => []FlagOwned
<1>1. CaseIInv => FlagOwned
  BY DEF CaseIInv, ThreadInv
<1> QED
  BY <1>1, CaseInvariant, PTL
-----------------------------------------------------------------------------
(* The pool keeps TestsIInv.                                               *)

\* What is the same of a worker that takes no step.
LEMMA OthersNumber ==
    ASSUME NEW v \in Worker, Number(v), dispatched \in Nat, ended \subseteq ended',
           dispatched' \in {dispatched, dispatched + 1},
           ended' = ended \/ Given(v) \in ended \/ Given(v) \notin ended',
           test'[v] = test[v], commands'[v] = commands[v], bytes'[v] = bytes[v],
           life'[v] = life[v], open'[v] = open[v], first'[v] = first[v]
    PROVE  Number(v)' /\ Given(v)' = Given(v)
<1>1. Given(v)' = Given(v)
  BY DEF Given
<1>2. commands[v] # <<>> => Given(v) \notin ended'
  BY DEF Number, Done
<1>3. life[v] = "run" => test[v] \notin Done'
  <2>1. life[v] = "run" => Given(v) = test[v] /\ Given(v) \notin Done
    BY DEF Number, Given
  <2> QED
    BY <2>1 DEF Done
<1>4. Done \subseteq Done'
  BY DEF Done
<1>5. -1 .. dispatched - 1 \subseteq -1 .. dispatched' - 1
  <2>1. ASSUME NEW d \in Nat, NEW e \in {d, d + 1} PROVE -1 .. d - 1 \subseteq -1 .. e - 1
    OBVIOUS
  <2> QED
    BY <2>1
<1> HIDE DEF Done, Given
<1> DEFINE g == Given(v)
           K(t, h, c, b, l, o, f, e, D) ==
              /\ c = <<>> \/ c = <<h>>
              /\ c # <<>> => l \in {"wait", "dead"} /\ b = 0 /\ t \in D /\ h \notin e
              /\ b > 0 => l \in {"wait", "dead"} /\ t \in D
              /\ l \in {"unborn", "ask", "wait"} => t \in D
              /\ l = "run" => t \notin D
              /\ h \notin D => o /\ ~f
              /\ o => IF f THEN c = <<>> /\ t = -1 ELSE h # -1
<1>6. K(test[v], g, commands[v], bytes[v], life[v], open[v], first[v], ended', Done')
  BY <1>2, <1>3, <1>4 DEF Number
<1>7. K(test'[v], Given(v)', commands'[v], bytes'[v], life'[v], open'[v], first'[v], ended', Done')
  BY <1>1, <1>6
<1>8. test'[v] \in -1 .. dispatched' - 1 /\ Given(v)' \in -1 .. dispatched' - 1
  BY <1>1, <1>5 DEF Number
<1> QED
  BY <1>1, <1>7, <1>8 DEF Number

LEMMA WorkerNumbers ==
    ASSUME PoolIInv, Numbers, NEW w \in Worker, WorkerStep(w)
    PROVE  Numbers'
<1>1. UNCHANGED <<suite, dispatched, open, first>> /\ Failing' = Failing /\ Total' = Total
  BY DEF WorkerStep, Ask, Take, HungUp, Finish, Crash, masterVars, Failing, Total
<1>2. /\ dispatched \in Nat /\ bytes \in [Worker -> Nat] /\ commands \in [Worker -> Seq(Int)]
      /\ life \in [Worker -> {"unborn", "ask", "wait", "run", "dead"}]
      /\ test \in [Worker -> Int] /\ Number(w) /\ -1 \notin ended
      /\ life[w] \in {"ask", "run"} => bytes[w] = 0 /\ commands[w] = <<>>
  BY DEF PoolIInv, PoolType, OneToken, Numbers
<1>3. ASSUME ended' = ended, Number(w)', test' \in [Worker -> Int],
             Given(w)' = Given(w) \/ (Given(w) \in Done /\ Given(w)' \in Done),
             \A v \in Worker : v # w =>
                /\ test'[v] = test[v] /\ commands'[v] = commands[v]
                /\ bytes'[v] = bytes[v] /\ life'[v] = life[v]
      PROVE  Numbers'
  <2>1. \A v \in Worker : v # w => Number(v)' /\ Given(v)' = Given(v)
    BY <1>1, <1>2, <1>3, OthersNumber DEF Numbers
  <2>2. Done' = Done
    BY <1>3 DEF Done
  <2>3. \A v, u \in Worker : v # u /\ Given(v)' = Given(u)' => Given(u)' \in Done'
    BY <1>3, <2>1, <2>2 DEF Numbers
  <2>4. \A t \in 0 .. dispatched - 1 : t \in ended \/ \E v \in Worker : Given(v)' = t
    <3> SUFFICES ASSUME NEW t \in 0 .. dispatched - 1, t \notin ended
                 PROVE  \E v \in Worker : Given(v)' = t
      OBVIOUS
    <3>1. PICK v \in Worker : Given(v) = t
      BY DEF Numbers
    <3>2. t \notin Done
      BY <1>2 DEF Done
    <3> QED
      BY <1>3, <2>1, <3>1, <3>2
  <2> QED
    BY <1>1, <1>3, <2>1, <2>2, <2>3, <2>4 DEF Numbers
<1>4. CASE Ask(w)
  <2>1. /\ bytes' = [bytes EXCEPT ![w] = @ + 1] /\ life' = [life EXCEPT ![w] = "wait"]
        /\ UNCHANGED <<commands, test, ended>> /\ life[w] = "ask"
    BY <1>4 DEF Ask
  <2>2. Given(w)' = Given(w)
    BY <2>1 DEF Given
  <2>3. Number(w)'
    BY <1>1, <1>2, <2>1, <2>2 DEF Number, Done
  <2> QED
    BY <1>2, <1>3, <2>1, <2>2, <2>3
<1>5. CASE Take(w)
  <2>1. /\ life[w] = "wait" /\ commands[w] = <<Given(w)>> /\ test[w] \in Done
        /\ bytes[w] = 0 /\ Given(w) \notin ended /\ Given(w) \in -1 .. dispatched - 1
    BY <1>2, <1>5 DEF Take, Number
  <2>2. Tail(commands[w]) = <<>> /\ Head(commands[w]) = Given(w)
    BY <2>1
  <2>3. /\ commands' = [commands EXCEPT ![w] = <<>>] /\ UNCHANGED <<bytes, ended>>
        /\ IF Given(w) < 0
           THEN life' = [life EXCEPT ![w] = "dead"] /\ UNCHANGED test
           ELSE life' = [life EXCEPT ![w] = "run"] /\ test' = [test EXCEPT ![w] = Given(w)]
    BY <1>5, <2>2 DEF Take
  <2>4. Given(w) = -1 \/ Given(w) >= 0
    BY <1>2, <2>1
  <2>5. Given(w)' = test'[w]
    BY <1>2, <2>3 DEF Given
  <2>6. CASE Given(w) = -1
    <3>1. life'[w] = "dead" /\ test' = test /\ commands'[w] = <<>>
      BY <1>2, <2>3, <2>6
    <3>2. Number(w)'
      BY <1>1, <1>2, <2>1, <2>3, <2>5, <3>1 DEF Number, Done
    <3> QED
      BY <1>2, <1>3, <2>1, <2>3, <2>5, <2>6, <3>1, <3>2 DEF Done
  <2>7. CASE Given(w) >= 0
    <3>1. life'[w] = "run" /\ test'[w] = Given(w) /\ commands'[w] = <<>>
          /\ test' \in [Worker -> Int]
      BY <1>2, <2>1, <2>3, <2>7
    <3>2. Number(w)'
      BY <1>1, <1>2, <2>1, <2>3, <2>5, <2>7, <3>1 DEF Number, Done
    <3> QED
      BY <1>2, <1>3, <2>3, <2>5, <3>1, <3>2
  <2> QED
    BY <2>4, <2>6, <2>7
<1>6. CASE HungUp(w) \/ Crash(w)
  <2>1. life' = [life EXCEPT ![w] = "dead"] /\ UNCHANGED <<bytes, commands, test, ended>>
    BY <1>6 DEF HungUp, Crash
  <2>2. Given(w)' = Given(w)
    BY <2>1 DEF Given
  <2>3. Number(w)'
    <3>1. life[w] = "run" => bytes[w] = 0 /\ commands[w] = <<>>
      BY <1>2
    <3> QED
      BY <1>1, <1>2, <2>1, <2>2, <3>1 DEF Number, Done
  <2> QED
    BY <1>2, <1>3, <2>1, <2>2, <2>3
<1>7. CASE Finish(w)
  <2>1. /\ life[w] = "run" /\ life' = [life EXCEPT ![w] = "ask"]
        /\ ended' = ended \cup {test[w]} /\ UNCHANGED <<bytes, commands, test>>
        /\ ~Fails(suite[test[w] + 1])
    BY <1>7 DEF Finish
  <2>2. Given(w) = test[w] /\ Given(w) \notin Done /\ Given(w) \in 0 .. dispatched - 1
        /\ Given(w)' = Given(w) /\ commands[w] = <<>> /\ bytes[w] = 0
    BY <1>2, <2>1 DEF Given, Number, Done
  <2>3. Done' = Done \cup {Given(w)}
    BY <2>1, <2>2 DEF Done
  <2>4. Number(w)'
    BY <1>1, <1>2, <2>1, <2>2, <2>3 DEF Number
  <2>5. \A v \in Worker : v # w => Number(v)' /\ Given(v)' = Given(v)
    <3> SUFFICES ASSUME NEW v \in Worker, v # w PROVE Number(v)' /\ Given(v)' = Given(v)
      OBVIOUS
    <3>1. Given(v) # Given(w)
      BY <2>2 DEF Numbers
    <3>2. Given(v) \in ended \/ Given(v) \notin ended'
      BY <2>1, <2>2, <3>1
    <3> QED
      BY <1>1, <1>2, <2>1, <3>2, OthersNumber DEF Numbers
  <2>6. ended' \subseteq 0 .. dispatched - 1 /\ ended' \cap Failing' = {}
    BY <1>1, <2>1, <2>2 DEF Numbers, Failing
  <2>7. \A v, u \in Worker : v # u /\ Given(v)' = Given(u)' => Given(u)' \in Done'
    BY <2>2, <2>3, <2>5 DEF Numbers
  <2>8. \A t \in 0 .. dispatched - 1 : t \in ended' \/ \E v \in Worker : Given(v)' = t
    BY <2>1, <2>2, <2>5 DEF Numbers
  <2> QED
    BY <1>1, <1>2, <2>1, <2>4, <2>5, <2>6, <2>7, <2>8 DEF Numbers
<1> QED
  BY <1>4, <1>5, <1>6, <1>7 DEF WorkerStep

\* A number that is given out is new, and goes to a worker that has none.
LEMMA AnswerNumbers ==
    ASSUME PoolIInv, Numbers, Deaths, NEW w \in Worker, Answer(w)
    PROVE  Numbers'
<1>1. /\ UNCHANGED <<suite, life, test, ended>> /\ bytes[w] > 0 /\ w \in ready
      /\ bytes' = [bytes EXCEPT ![w] = @ - 1] /\ first' = [first EXCEPT ![w] = FALSE]
  BY DEF Answer, Read, IsNext
<1>2. Failing' = Failing /\ Total' = Total /\ Done' = Done
  BY <1>1 DEF Failing, Total, Done
<1>3. /\ dispatched \in Nat /\ bytes \in [Worker -> Nat] /\ commands \in [Worker -> Seq(Int)]
      /\ first \in [Worker -> BOOLEAN] /\ open \in [Worker -> BOOLEAN]
      /\ Number(w) /\ ended \subseteq 0 .. dispatched - 1 /\ open[w]
      /\ test \in [Worker -> Int]
  BY <1>1 DEF PoolIInv, PoolType, Numbers, Accounts
<1>4. life[w] \in {"wait", "dead"} /\ test[w] \in Done /\ commands[w] = <<>>
      /\ Given(w) \in Done
  BY <1>1, <1>3 DEF Number, Given
<1>5. bytes'[w] = 0
  <2>1. life[w] = "wait" => bytes[w] + Len(commands[w]) = 1
    BY DEF PoolIInv, OneToken
  <2>2. Len(commands[w]) = 0
    BY <1>4
  <2>3. life[w] # "dead"
    BY <1>1, <1>3 DEF Deaths, PoolIInv, Phases
  <2> QED
    BY <1>1, <1>3, <1>4, <2>1, <2>2, <2>3
<1> DEFINE i == IF MoreTests THEN dispatched ELSE -1
<1>6. /\ i \in Int /\ commands' = [commands EXCEPT ![w] = Append(@, i)]
      /\ \/ i = dispatched /\ dispatched' = dispatched + 1 /\ open' = open
         \/ i = -1 /\ dispatched' = dispatched /\ open' = [open EXCEPT ![w] = FALSE]
  BY <1>3 DEF Answer
<1> HIDE DEF i
<1>7. commands'[w] = <<i>> /\ Given(w)' = i
  <2>1. Append(commands[w], i) = <<i>> /\ Head(<<i>>) = i /\ <<i>> # <<>>
    BY <1>4, <1>6
  <2>2. commands'[w] = <<i>>
    BY <1>3, <1>6, <2>1
  <2> QED
    BY <2>1, <2>2 DEF Given
<1>8. Number(w)'
  <2>1. test'[w] = test[w] /\ life'[w] = life[w] /\ first'[w] = FALSE
        /\ (i = dispatched => open'[w])
    BY <1>1, <1>3, <1>6
  <2>2. test[w] \in -1 .. dispatched' - 1 /\ i \in -1 .. dispatched' - 1
    BY <1>3, <1>6 DEF Number
  <2>3. i \notin ended'
    BY <1>1, <1>3, <1>6
  <2>4. i \notin Done' => open'[w]
    BY <1>6, <2>1 DEF Done
  <2>5. open'[w] => i # -1
    BY <1>3, <1>6
  <2> QED
    BY <1>1, <1>2, <1>4, <1>5, <1>7, <2>1, <2>2, <2>3, <2>4, <2>5 DEF Number
<1>9. \A v \in Worker : v # w => Number(v)' /\ Given(v)' = Given(v)
  <2> SUFFICES ASSUME NEW v \in Worker, v # w PROVE Number(v)' /\ Given(v)' = Given(v)
    OBVIOUS
  <2>1. /\ commands'[v] = commands[v] /\ bytes'[v] = bytes[v] /\ open'[v] = open[v]
        /\ first'[v] = first[v] /\ life'[v] = life[v] /\ test'[v] = test[v]
    BY <1>1, <1>3, <1>6
  <2> QED
    BY <1>1, <1>3, <1>6, <2>1, OthersNumber DEF Numbers
<1>10. \A v \in Worker : Given(v) \in -1 .. dispatched - 1
  BY DEF Numbers, Number
<1>11. \A v, u \in Worker : v # u /\ Given(v)' = Given(u)' => Given(u)' \in Done'
  <2> SUFFICES ASSUME NEW v \in Worker, NEW u \in Worker, v # u, Given(v)' = Given(u)'
               PROVE  Given(u)' \in Done
    BY <1>2
  <2>1. i # -1 => \A x \in Worker : Given(x) # i
    BY <1>3, <1>6, <1>10
  <2>2. i = -1 => i \in Done
    BY DEF Done
  <2>3. CASE v # w /\ u # w
    BY <1>9, <2>3 DEF Numbers
  <2>4. CASE v = w \/ u = w
    BY <1>7, <1>9, <2>1, <2>2, <2>4
  <2> QED
    BY <2>3, <2>4
<1>12. \A t \in 0 .. dispatched' - 1 : t \in ended \/ \E v \in Worker : Given(v)' = t
  <2> SUFFICES ASSUME NEW t \in 0 .. dispatched' - 1, t \notin ended
               PROVE  \E v \in Worker : Given(v)' = t
    OBVIOUS
  <2>1. CASE t = dispatched
    BY <1>3, <1>6, <1>7, <2>1
  <2>2. CASE t # dispatched
    <3>1. t \in 0 .. dispatched - 1
      BY <1>3, <1>6, <2>2
    <3>2. PICK v \in Worker : Given(v) = t
      BY <3>1 DEF Numbers
    <3>3. v # w
      BY <1>4, <3>1, <3>2 DEF Done
    <3> QED
      BY <1>9, <3>2, <3>3
  <2> QED
    BY <2>1, <2>2
<1>13. ended' \subseteq 0 .. dispatched' - 1 /\ ended' \cap Failing' = {}
  BY <1>1, <1>2, <1>3, <1>6 DEF Numbers
<1> QED
  BY <1>1, <1>3, <1>8, <1>9, <1>11, <1>12, <1>13 DEF Numbers

\* A master's step that gives out no number.
LEMMA MasterNumbers ==
    ASSUME PoolIInv, Numbers, MasterStep, \A w \in Worker : ~Answer(w)
    PROVE  Numbers'
<1>1. UNCHANGED <<suite, dispatched, open, first, bytes, commands, test, ended>>
  BY DEF MasterStep, Spawn, Select, Close, Leave, SeeFailure, Reap, workerVars
<1>2. Failing' = Failing /\ Total' = Total /\ Done' = Done
      /\ \A w \in Worker : Given(w)' = Given(w)
  BY <1>1 DEF Failing, Total, Done, Given
<1>3. ASSUME NEW w \in Worker
      PROVE  life'[w] = life[w] \/ (life[w] = "unborn" /\ life'[w] = "ask") \/ life'[w] = "dead"
  <2>1. CASE Spawn
    <3>1. spawned + 1 \in Worker /\ life[spawned + 1] = "unborn"
      BY <2>1, MaxWorkersAssumption DEF Spawn, PoolIInv, PoolType, Phases, Worker
    <3> QED
      BY <2>1, <3>1 DEF Spawn, PoolIInv, PoolType
  <2>2. ASSUME NEW v \in Worker, Reap(v)
        PROVE  life'[w] = life[w] \/ life'[w] = "dead"
    BY <2>2 DEF Reap, Killed, PoolIInv, PoolType
  <2>3. CASE life' = life
    BY <2>3
  <2> QED
    BY <2>1, <2>2, <2>3 DEF MasterStep, Select, Close, Leave, SeeFailure, workerVars
<1>4. ASSUME NEW w \in Worker PROVE Number(w)'
  <2>1. Number(w) /\ bytes[w] \in Nat /\ (life[w] = "run" => bytes[w] = 0)
    BY DEF Numbers, PoolIInv, PoolType, OneToken
  <2>2. life[w] = "unborn" => bytes[w] = 0 /\ commands[w] = <<>>
    BY DEF PoolIInv, OneToken
  <2> QED
    BY <1>1, <1>2, <1>3, <2>1, <2>2 DEF Number
<1> QED
  BY <1>1, <1>2, <1>4 DEF Numbers

LEMMA DeathsKept ==
    ASSUME PoolIInv, Numbers, Deaths, (\E w \in Worker : WorkerStep(w)) \/ MasterStep
    PROVE  Deaths'
<1>1. suite' = suite /\ Failing' = Failing
  BY DEF WorkerStep, Ask, Take, HungUp, Finish, Crash, MasterStep, Spawn, Select, Close,
         Leave, Answer, SeeFailure, Reap, Failing, Total
<1>2. /\ dispatched \in Nat /\ bytes \in [Worker -> Nat] /\ commands \in [Worker -> Seq(Int)]
      /\ life \in [Worker -> {"unborn", "ask", "wait", "run", "dead"}]
      /\ test \in [Worker -> Int] /\ open \in [Worker -> BOOLEAN]
      /\ first \in [Worker -> BOOLEAN] /\ -1 \notin ended
  BY DEF PoolIInv, PoolType, Numbers
<1>10. \A w \in Worker : w <= spawned' => life'[w] # "unborn"
  <2>1. \A w \in Worker : w <= spawned => life[w] # "unborn"
    BY DEF Deaths
  <2>2. CASE Spawn
    <3>1. spawned \in Nat /\ spawned' = spawned + 1 /\ life' = [life EXCEPT ![spawned + 1] = "ask"]
      BY <2>2 DEF Spawn, PoolIInv, PoolType
    <3> QED
      BY <1>2, <2>1, <3>1 DEF Worker
  <2>3. CASE spawned' = spawned /\ life' = life
    BY <2>1, <2>3
  <2>4. ASSUME NEW w \in Worker, Reap(w) PROVE \A v \in Worker : v <= spawned' => life'[v] # "unborn"
    BY <1>2, <2>1, <2>4 DEF Reap, Killed
  <2>5. ASSUME NEW w \in Worker, WorkerStep(w)
        PROVE  \A v \in Worker : v <= spawned' => life'[v] # "unborn"
    BY <1>2, <2>1, <2>5 DEF WorkerStep, Ask, Take, HungUp, Finish, Crash, masterVars
  <2> QED
    BY <2>2, <2>3, <2>4, <2>5
       DEF MasterStep, Select, Close, Leave, Answer, SeeFailure, workerVars
<1>3. ASSUME NEW w \in Worker, WorkerStep(w) PROVE Deaths'
  <2>1. UNCHANGED <<master, ready, open, failed>>
    BY <1>3 DEF WorkerStep, Ask, Take, HungUp, Finish, Crash, masterVars
  <2>2. \A v \in Worker : v # w => /\ life'[v] = life[v] /\ test'[v] = test[v]
                                   /\ bytes'[v] = bytes[v] /\ commands'[v] = commands[v]
                                   /\ Given(v)' = Given(v)
    BY <1>2, <1>3 DEF WorkerStep, Ask, Take, HungUp, Finish, Crash, Given
  <2>3. life[w] # "dead" /\ Number(w)
    BY <1>3 DEF WorkerStep, Ask, Take, HungUp, Finish, Crash, Numbers
  <2>4. failed' => \E v \in Worker : life'[v] = "dead" /\ test'[v] \in Failing'
    BY <1>1, <1>10, <2>1, <2>2, <2>3 DEF Deaths
  <2>5. w \in ready => bytes'[w] > 0 \/ life'[w] = "dead"
    <3>1. w \in ready => bytes[w] > 0
      BY <2>3 DEF Deaths
    <3>2. bytes'[w] >= bytes[w]
      BY <1>2, <1>3 DEF WorkerStep, Ask, Take, HungUp, Finish, Crash
    <3> QED
      BY <1>2, <1>3, <3>1, <3>2 DEF WorkerStep, Ask, Take, HungUp, Finish, Crash
  <2>6. commands'[w] # <<>> /\ Given(w)' = -1 => ~open[w]
    <3>1. CASE commands' = commands /\ test' = test
      BY <3>1 DEF Deaths, Given
    <3>2. CASE Take(w)
      <4>1. commands[w] = <<Given(w)>>
        BY <2>3, <3>2 DEF Take, Number
      <4>2. Tail(commands[w]) = <<>>
        BY <4>1
      <4> QED
        BY <1>2, <3>2, <4>2 DEF Take
    <3> QED
      BY <1>3, <3>1, <3>2 DEF WorkerStep, Ask, HungUp, Finish, Crash
  <2>7. ASSUME master \in {"spawn", "loop"}, life'[w] = "dead"
        PROVE  bytes'[w] = 0 /\ commands'[w] = <<>> /\ (open[w] => test'[w] \in Failing)
    <3>1. CASE Take(w)
      <4>1. commands[w] = <<Given(w)>> /\ bytes[w] = 0 /\ life[w] = "wait"
        BY <2>3, <3>1 DEF Take, Number
      <4>2. Tail(commands[w]) = <<>> /\ Head(commands[w]) = Given(w)
        BY <4>1
      <4>3. Given(w) < 0 /\ Given(w) \in -1 .. dispatched - 1
        BY <1>2, <2>3, <2>7, <3>1, <4>1, <4>2 DEF Take, Number
      <4>4. Given(w) = -1
        BY <1>2, <4>3
      <4>5. ~open[w]
        BY <4>1, <4>4 DEF Deaths
      <4> QED
        BY <1>2, <3>1, <4>1, <4>2, <4>5 DEF Take
    <3>2. CASE Crash(w)
      <4>1. life[w] = "run" /\ bytes'[w] = bytes[w] /\ commands'[w] = commands[w]
            /\ test'[w] = test[w] /\ Fails(suite[test[w] + 1])
        BY <3>2 DEF Crash
      <4>2. bytes[w] = 0 /\ commands[w] = <<>>
        BY <4>1 DEF PoolIInv, OneToken
      <4>3. test[w] \in 0 .. Total - 1
        <5>1. test[w] \in -1 .. dispatched - 1 /\ test[w] # -1
          BY <2>3, <4>1 DEF Number, Done
        <5>2. dispatched <= Total /\ Total \in Nat
          BY DEF PoolIInv, PoolType, Accounts, Total
        <5> QED
          BY <1>2, <5>1, <5>2
      <4> QED
        BY <4>1, <4>2, <4>3 DEF Failing
    <3>3. CASE Ask(w) \/ HungUp(w) \/ Finish(w)
      BY <1>2, <2>7, <3>3 DEF Ask, HungUp, Finish, Closed
    <3> QED
      BY <1>3, <3>1, <3>2, <3>3 DEF WorkerStep
  <2> QED
    BY <1>1, <1>10, <2>1, <2>2, <2>4, <2>5, <2>6, <2>7 DEF Deaths
<1>4. ASSUME NEW w \in Worker, Answer(w) PROVE Deaths'
  <2>1. /\ UNCHANGED <<master, life, test, failed>> /\ ready' = ready \ {w}
        /\ bytes' = [bytes EXCEPT ![w] = @ - 1] /\ bytes[w] > 0 /\ w \in ready
    BY <1>4 DEF Answer, Read, IsNext
  <2> DEFINE i == IF MoreTests THEN dispatched ELSE -1
  <2>2. /\ i \in Int /\ commands' = [commands EXCEPT ![w] = Append(@, i)]
        /\ \/ i = dispatched /\ dispatched' = dispatched + 1 /\ open' = open
           \/ i = -1 /\ dispatched' = dispatched /\ open' = [open EXCEPT ![w] = FALSE]
    BY <1>2, <1>4 DEF Answer
  <2> HIDE DEF i
  <2>3. \A v \in Worker : v # w => /\ commands'[v] = commands[v] /\ bytes'[v] = bytes[v]
                                   /\ open'[v] = open[v] /\ Given(v)' = Given(v)
    BY <1>2, <2>1, <2>2 DEF Given
  <2>4. commands[w] = <<>>
    BY <2>1 DEF Numbers, Number
  <2>5. Given(w)' = i /\ (i = -1 => ~open'[w])
    <3>1. Append(commands[w], i) = <<i>> /\ Head(<<i>>) = i /\ <<i>> # <<>>
      BY <2>2, <2>4
    <3>2. commands'[w] = <<i>>
      BY <1>2, <2>2, <3>1
    <3> QED
      BY <1>2, <2>2, <3>1, <3>2 DEF Given
  <2>6. life[w] # "dead" \/ master \notin {"spawn", "loop"}
    BY <2>1 DEF Deaths
  <2>7. master = "spawn" => ready' = {}
    BY <2>1 DEF Deaths
  <2>8. failed' => \E v \in Worker : life'[v] = "dead" /\ test'[v] \in Failing'
    BY <1>1, <2>1 DEF Deaths
  <2> QED
    BY <1>1, <1>2, <1>10, <2>1, <2>3, <2>5, <2>6, <2>7, <2>8 DEF Deaths
<1>5. CASE Spawn
  <2>1. spawned + 1 \in Worker /\ life[spawned + 1] = "unborn" /\ ready = {}
        /\ master = "spawn"
    BY <1>5, MaxWorkersAssumption DEF Spawn, PoolIInv, PoolType, Phases, Worker, Deaths
  <2>2. \A v \in Worker : Given(v)' = Given(v)
    BY <1>5 DEF Spawn, Given
  <2>3. UNCHANGED <<ready, open, bytes, commands, test, failed>>
    BY <1>5 DEF Spawn
  <2>4. \A v \in Worker : life'[v] = "dead" <=> life[v] = "dead"
    BY <1>2, <1>5, <2>1 DEF Spawn
  <2> QED
    BY <1>1, <1>10, <2>1, <2>2, <2>3, <2>4 DEF Deaths
<1>6. CASE Select
  <2>1. UNCHANGED <<master, open, bytes, commands, test, life, failed>> /\ master = "loop"
        /\ ready' = {w \in Worker : Readable(w)}
    BY <1>6 DEF Select, workerVars
  <2>2. \A v \in Worker : Given(v)' = Given(v)
    BY <2>1 DEF Given
  <2>3. \A w \in Worker : Readable(w) => bytes[w] > 0 \/ life[w] = "dead"
    <3>1. spawned = nWorkers
      BY <2>1 DEF PoolIInv, Phases
    <3> QED
      BY <1>2, <3>1 DEF Deaths, Readable, Alive
  <2> QED
    BY <1>1, <1>10, <2>1, <2>2, <2>3 DEF Deaths
<1>7. CASE Close \/ Leave
  <2>1. UNCHANGED <<ready, open, bytes, commands, test, life, failed>>
        /\ master' \notin {"spawn", "loop"}
    BY <1>7 DEF Close, Leave, workerVars
  <2>2. \A v \in Worker : Given(v)' = Given(v)
    BY <2>1 DEF Given
  <2> QED
    BY <1>1, <1>10, <2>1, <2>2 DEF Deaths
<1>8. ASSUME NEW w \in Worker, SeeFailure(w) PROVE Deaths'
  <2>1. UNCHANGED <<master, open, bytes, commands, test, life>> /\ ready' = {}
        /\ bytes[w] = 0 /\ w \in ready /\ ready # {}
    BY <1>8 DEF SeeFailure, IsNext, workerVars
  <2>2. \A v \in Worker : Given(v)' = Given(v)
    BY <2>1 DEF Given
  <2>3. life[w] = "dead" /\ open[w] /\ master = "loop"
    BY <2>1 DEF Deaths, PoolIInv, Accounts, Phases
  <2>4. test[w] \in Failing
    BY <2>3 DEF Deaths
  <2> QED
    BY <1>1, <1>10, <2>1, <2>2, <2>3, <2>4 DEF Deaths
<1>9. ASSUME NEW w \in Worker, Reap(w) PROVE Deaths'
  <2>1. UNCHANGED <<master, ready, open, bytes, commands, test, failed>> /\ master = "reap"
        /\ life' = [life EXCEPT ![w] = "dead"]
    BY <1>9 DEF Reap, Killed
  <2>2. \A v \in Worker : Given(v)' = Given(v)
    BY <2>1 DEF Given
  <2>3. \A v \in Worker : life[v] = "dead" => life'[v] = "dead"
    BY <1>2, <2>1
  <2> QED
    BY <1>1, <1>10, <2>1, <2>2, <2>3 DEF Deaths
<1> QED
  BY <1>3, <1>4, <1>5, <1>6, <1>7, <1>8, <1>9 DEF MasterStep

LEMMA TestsInitially == BenchInit => TestsIInv
<1> SUFFICES ASSUME BenchInit PROVE TestsIInv
  OBVIOUS
<1> USE DEF BenchInit, PoolInit
<1>1. \A w \in Worker : /\ commands[w] = <<>> /\ test[w] = -1 /\ bytes[w] = 0
                        /\ life[w] = "unborn" /\ Given(w) = -1
  BY DEF Given
<1>2. dispatched = 0 /\ ended = {} /\ test \in [Worker -> Int] /\ -1 \in Done
  BY DEF Done
<1>3. \A w \in Worker : Number(w)
  BY <1>1, <1>2 DEF Number
<1>4. Numbers
  BY <1>1, <1>2, <1>3 DEF Numbers
<1>5. Deaths
  BY <1>1 DEF Deaths, Worker
<1> QED
  BY <1>4, <1>5 DEF TestsIInv

LEMMA TestsKept == PoolIInv /\ TestsIInv /\ [BenchNext]_benchVars => TestsIInv'
<1> SUFFICES ASSUME PoolIInv, TestsIInv, [BenchNext]_benchVars PROVE TestsIInv'
  OBVIOUS
<1>1. CASE RunMaster
  <2>1. MasterStep
    BY <1>1 DEF RunMaster
  <2>2. Numbers'
    BY <2>1, AnswerNumbers, MasterNumbers DEF TestsIInv
  <2> QED
    BY <2>1, <2>2, DeathsKept DEF TestsIInv
<1>2. ASSUME NEW w \in Worker, RunWorker(w) PROVE TestsIInv'
  BY <1>2, WorkerNumbers, DeathsKept DEF TestsIInv, RunWorker
<1>3. ASSUME suite' = suite, UNCHANGED poolVars PROVE TestsIInv'
  <2>1. /\ UNCHANGED <<master, ready, first, open, dispatched, failed, spawned, bytes, commands,
                       life, test, ended>>
    BY <1>3 DEF poolVars, masterVars, workerVars
  <2>2. Failing' = Failing /\ Done' = Done /\ \A w \in Worker : Given(w)' = Given(w)
    BY <1>3, <2>1 DEF Failing, Done, Given, Total
  <2>3. \A w \in Worker : Number(w)' = Number(w)
    BY <2>1, <2>2 DEF Number
  <2> QED
    BY <2>1, <2>2, <2>3 DEF TestsIInv, Numbers, Deaths
<1>4. CASE RunSerial \/ RunReporter
  BY <1>3, <1>4, SuiteFixed DEF BenchNext, RunSerial, RunReporter
<1>5. CASE UNCHANGED benchVars
  BY <1>3, <1>5 DEF benchVars
<1> QED
  BY <1>1, <1>2, <1>4, <1>5 DEF BenchNext

LEMMA TestsInvariant == BenchSpec => []TestsIInv
<1> QED
  BY PoolInvariant, TestsInitially, TestsKept, PTL DEF BenchSpec

\* Campaign counts with the Cardinality of its own copy of FiniteSets.
LEMMA SameCount == \A S : Promise!Cardinality(S) = Cardinality(S)
  BY DEF Promise!Cardinality, Cardinality

\* One to one, n numbers of workers and a set apart from them.
LEMMA TwoParts ==
    ASSUME NEW n \in Nat, NEW S, NEW T \in SUBSET Worker, NEW f \in [T -> Int],
           \A v, w \in T : f[v] = f[w] => v = w,
           \A w \in T : f[w] \notin S,
           0 .. n - 1 = S \cup {f[w] : w \in T}
    PROVE  IsFiniteSet(S) /\ n = Cardinality(S) + Cardinality(T)
<1> DEFINE U == {f[w] : w \in T}
<1>1. IsFiniteSet(0 .. n - 1) /\ Cardinality(0 .. n - 1) = n
  BY FS_Interval
<1>2. IsFiniteSet(S) /\ IsFiniteSet(U) /\ IsFiniteSet(T)
  BY <1>1, FS_Subset, WorkersFinite
<1>3. Cardinality(U) = Cardinality(T)
  <2>1. f \in Bijection(T, U)
    BY DEF Bijection, Injection, Surjection, IsInjective
  <2> HIDE DEF U
  <2> QED
    BY <1>2, <2>1, FS_Bijection DEF ExistsBijection
<1>4. S \cap U = {}
  OBVIOUS
<1>5. Cardinality(S \cup U) = Cardinality(S) + Cardinality(U) - Cardinality({})
  BY <1>2, <1>4, FS_Union
<1> HIDE DEF U
<1>6. Cardinality({}) = 0 /\ Cardinality(S) \in Nat /\ Cardinality(U) \in Nat
  BY <1>2, FS_EmptySet, FS_CardinalityType
<1>7. Cardinality(0 .. n - 1) = Cardinality(S \cup U)
  BY DEF U
<1>8. n = Cardinality(S \cup U)
  BY <1>1, <1>7
<1> QED
  BY <1>2, <1>3, <1>4, <1>5, <1>6, <1>8

\* The workers that the master expects an answer of: those whose number is a
\* test that has not ended, and those that have not told of its end.
Unended == {w \in Worker : Given(w) \notin Done}

LEMMA OwingParts ==
    ASSUME PoolIInv, TestsIInv
    PROVE  Cardinality(Owing) = Cardinality(Unended) + Cardinality(Unreported)
<1>1. \A w \in Worker : Number(w) /\ (commands[w] # <<>> /\ Given(w) = -1 => ~open[w])
  BY DEF TestsIInv, Numbers, Deaths
<1>2. Unended \subseteq Owing
  BY <1>1 DEF Unended, Owing, Number
<1>3. ASSUME NEW w \in Unreported PROVE w \in Owing /\ w \notin Unended
  <2>1. w \in Worker /\ open[w] /\ Given(w) = test[w] /\ test[w] \in ended /\ test[w] # -1
    BY <1>3 DEF Unreported, Given, PoolIInv, PoolType, TestsIInv, Numbers
  <2> QED
    BY <1>1, <2>1 DEF Number, Owing, Unended, Done
<1>4. ASSUME NEW w \in Owing, w \notin Unended PROVE w \in Unreported
  <2>1. w \in Worker /\ open[w] /\ ~first[w] /\ Given(w) \in Done
    BY <1>4 DEF Owing, Unended
  <2>2. Given(w) # -1 /\ Given(w) \in ended
    BY <1>1, <2>1 DEF Number, Done
  <2>3. commands[w] = <<>>
    BY <1>1, <2>1, <2>2 DEF Number
  <2> QED
    BY <2>1, <2>2, <2>3 DEF Unreported, Given
<1>5. Owing = Unended \cup Unreported /\ Unended \cap Unreported = {}
  BY <1>2, <1>3, <1>4 DEF Owing
<1>6. IsFiniteSet(Unended) /\ IsFiniteSet(Unreported)
  BY WorkersFinite DEF Unended, Unreported
<1>7. Cardinality(Owing) = Cardinality(Unended) + Cardinality(Unreported) - Cardinality({})
  BY <1>5, <1>6, FS_Union
<1> QED
  BY <1>6, <1>7, FS_EmptySet, FS_CardinalityType

\* passed is exact at every step, for any number of workers: what a worker
\* asks for the first time with does not count, each later request stands for
\* an end of its own, and no other end is missed than those of requests that
\* are not read.
THEOREM BenchPassedCounts == BenchSpec => []PassedCounts
<1>1. PoolIInv /\ TestsIInv => PassedCounts
  <2> SUFFICES ASSUME PoolIInv, TestsIInv
               PROVE  Cardinality(ended) = passed + Cardinality(Unreported)
    BY DEF PassedCounts
  <2>1. passed + Cardinality(Owing) = dispatched /\ passed \in Nat /\ dispatched \in Nat
    BY DEF PoolIInv, PoolType, Accounts
  <2> DEFINE f == [w \in Unended |-> Given(w)]
             all == 0 .. dispatched - 1
  <2>2. \A w \in Worker : Given(w) \in -1 .. dispatched - 1
    BY DEF TestsIInv, Numbers, Number
  <2>3. f \in [Unended -> Int] /\ Unended \in SUBSET Worker
    BY <2>1, <2>2 DEF Unended
  <2>4. \A v, w \in Unended : f[v] = f[w] => v = w
    BY DEF Unended, TestsIInv, Numbers
  <2>5. \A w \in Unended : f[w] \notin ended /\ f[w] \in all
    BY <2>1, <2>2 DEF Unended, Done
  <2>6. \A t \in all : t \in ended \/ \E w \in Unended : f[w] = t
    <3> SUFFICES ASSUME NEW t \in all, t \notin ended PROVE \E w \in Unended : f[w] = t
      OBVIOUS
    <3>1. PICK w \in Worker : Given(w) = t
      BY DEF TestsIInv, Numbers
    <3> QED
      BY <2>1, <3>1 DEF Unended, Done
  <2>7. all = ended \cup {f[w] : w \in Unended}
    <3>1. ended \subseteq all
      BY DEF TestsIInv, Numbers
    <3> HIDE DEF all, f
    <3> QED
      BY <2>5, <2>6, <3>1
  <2>8. IsFiniteSet(ended) /\ dispatched = Cardinality(ended) + Cardinality(Unended)
    <3> HIDE DEF f
    <3> QED
      BY <2>1, <2>3, <2>4, <2>5, <2>7, TwoParts
  <2>9. Cardinality(ended) \in Nat /\ Cardinality(Unended) \in Nat /\ Cardinality(Unreported) \in Nat
    BY <2>8, WorkersFinite, FS_CardinalityType DEF Unended, Unreported
  <2> QED
    BY <2>1, <2>8, <2>9, OwingParts
<1> QED
  BY <1>1, PoolInvariant, TestsInvariant, PTL

\* The types, the bounds of every counter among them: no worker is told to
\* exit twice, and no number beyond the last test is ever sent.
THEOREM BenchTypes == BenchSpec => []BenchTypeOK
<1>1. PoolIInv /\ TestsIInv /\ CaseIInv => BenchTypeOK
  <2> SUFFICES ASSUME PoolIInv, TestsIInv, CaseIInv PROVE BenchTypeOK
    OBVIOUS
  <2>1. /\ nWorkers \in Nat /\ nWorkers \in 0 .. MaxWorkers /\ Total \in Nat /\ dispatched \in 0 .. Total
        /\ spawned \in 0 .. nWorkers /\ reaped \in 0 .. nWorkers
    BY MaxWorkersAssumption DEF PoolIInv, PoolType, Accounts, Phases, Worker, Total
  <2>2. exited \in 0 .. nWorkers
    <3>1. Told \subseteq 1 .. nWorkers
      BY DEF PoolIInv, PoolType, Accounts, Told, Worker
    <3>2. IsFiniteSet(1 .. nWorkers) /\ Cardinality(1 .. nWorkers) = nWorkers
      BY <2>1, FS_Interval
    <3>3. Cardinality(Told) <= nWorkers
      BY <3>1, <3>2, FS_Subset
    <3> QED
      BY <2>1, <3>3 DEF PoolIInv, PoolType, Accounts
  <2>3. passed \in 0 .. Total
    <3>1. Cardinality(Owing) \in Nat
      BY WorkersFinite DEF Owing
    <3> QED
      BY <2>1, <3>1 DEF PoolIInv, PoolType, Accounts
  <2>4. \A w \in Worker : /\ test[w] \in -1 .. Total - 1 /\ commands[w] \in Seq(-1 .. Total - 1)
    <3> SUFFICES ASSUME NEW w \in Worker
                 PROVE  test[w] \in -1 .. Total - 1 /\ commands[w] \in Seq(-1 .. Total - 1)
      OBVIOUS
    <3>1. /\ test[w] \in -1 .. dispatched - 1 /\ Given(w) \in -1 .. dispatched - 1
          /\ commands[w] = <<>> \/ commands[w] = <<Given(w)>>
      BY DEF TestsIInv, Numbers, Number
    <3>2. test[w] \in -1 .. Total - 1 /\ Given(w) \in -1 .. Total - 1
      BY <2>1, <3>1
    <3>3. ASSUME NEW S, NEW x \in S PROVE <<>> \in Seq(S) /\ <<x>> \in Seq(S)
      OBVIOUS
    <3> QED
      BY <3>1, <3>2, <3>3
  <2>5. test \in [Worker -> -1 .. Total - 1] /\ commands \in [Worker -> Seq(-1 .. Total - 1)]
    BY <2>4 DEF PoolIInv, PoolType, TestsIInv, Numbers
  <2>6. ended \subseteq 0 .. Total - 1
    BY <2>1 DEF TestsIInv, Numbers
  <2>7. /\ count \in 0 .. Total /\ defers \in Seq({"post"} \cup DOMAIN Controller)
        /\ at \in {"idle", "setup", "leave", "abort", "dead", "end"}
        /\ hooks \in {0, 1} /\ traces \in Nat
    BY DEF CaseIInv, TestInv
  <2> QED
    BY <2>1, <2>2, <2>3, <2>5, <2>6, <2>7 DEF BenchTypeOK, PoolIInv, PoolType, Phases
<1> QED
  BY <1>1, PoolInvariant, TestsInvariant, CaseInvariant, PTL
-----------------------------------------------------------------------------
(***************************************************************************)
(* The run implements Campaign, in the process as well as in the pool.     *)
(* Busy are the workers whose number is a test that is under way, and      *)
(* FailedBy those that a failing test ended.                               *)
(***************************************************************************)
Busy     == {w \in Worker : Alive(w) /\ Given(w) \notin Done}
FailedBy == {w \in Worker : life[w] = "dead" /\ test[w] \in Failing}

LEMMA PoolMapping ==
    PoolIInv /\ TestsIInv /\ Parallel =>
        /\ RunningTests = {Given(w) : w \in Busy}
        /\ BrokenTests = {test[w] : w \in FailedBy}
<1> SUFFICES ASSUME PoolIInv, TestsIInv, Parallel
             PROVE  /\ RunningTests = {Given(w) : w \in Busy}
                    /\ BrokenTests = {test[w] : w \in FailedBy}
  OBVIOUS
<1>1. \A w \in Worker : Number(w) /\ -1 \notin ended
  BY DEF TestsIInv, Numbers
<1>2. ASSUME NEW w \in Worker
      PROVE  /\ commands[w] = <<>> => Pending(w) = {} /\ Given(w) = test[w]
             /\ commands[w] # <<>> => Pending(w) = {Given(w)} \ {-1}
  <2>1. CASE commands[w] = <<>>
    BY <2>1 DEF Pending, Given
  <2>2. CASE commands[w] # <<>>
    <3>1. commands[w] = <<Given(w)>>
      BY <1>1, <2>2 DEF Number
    <3>2. DOMAIN commands[w] = {1} /\ commands[w][1] = Given(w)
      BY <3>1
    <3> QED
      BY <2>2, <3>2 DEF Pending
  <2> QED
    BY <2>1, <2>2
<1>3. RunningTests = {test[w] : w \in {v \in Worker : life[v] = "run"}}
                  \cup UNION {Pending(w) : w \in {v \in Worker : Alive(v)}}
  BY DEF RunningTests
<1>4. ASSUME NEW w \in Worker, life[w] = "run" PROVE w \in Busy /\ Given(w) = test[w]
  BY <1>1, <1>2, <1>4 DEF Number, Busy, Alive
<1>5. ASSUME NEW w \in Worker, Alive(w), NEW t \in Pending(w) PROVE w \in Busy /\ Given(w) = t
  BY <1>1, <1>2, <1>5 DEF Number, Busy, Done
<1>6. ASSUME NEW w \in Busy
      PROVE  (life[w] = "run" /\ Given(w) = test[w]) \/ (Alive(w) /\ Given(w) \in Pending(w))
  BY <1>1, <1>2, <1>6 DEF Number, Busy, Alive, Done
<1>7. RunningTests = {Given(w) : w \in Busy}
  <2>1. \A t \in RunningTests : \E w \in Busy : t = Given(w)
    BY <1>3, <1>4, <1>5
  <2>2. \A w \in Busy : w \in Worker /\ Given(w) \in RunningTests
    BY <1>3, <1>6 DEF Busy
  <2> QED
    BY <2>1, <2>2
<1>8. BrokenTests = {test[w] : w \in FailedBy}
  BY DEF BrokenTests, FailedBy, Failing
<1> QED
  BY <1>7, <1>8

LEMMA PoolMappingNext ==
    (PoolIInv /\ TestsIInv /\ Parallel =>
        /\ RunningTests = {Given(w) : w \in Busy}
        /\ BrokenTests = {test[w] : w \in FailedBy})'
<1> QED
  BY PoolMapping, PTL

\* A step that changes nothing the promise sees.
LEMMA PoolStutters ==
    ASSUME PoolIInv, TestsIInv, PoolIInv', TestsIInv', Parallel, suite' = suite,
           nWorkers' = nWorkers, dispatched' = dispatched, ended' = ended,
           Busy' = Busy, \A w \in Busy : Given(w)' = Given(w),
           FailedBy' = FailedBy, \A w \in FailedBy : test'[w] = test[w],
           UNCHANGED <<master, failed>> \/ (master # "done" /\ master' # "done")
    PROVE  UNCHANGED Promise!campaignVars
<1>1. Total' = Total /\ Failing' = Failing /\ Parallel'
  BY DEF Total, Failing, Parallel
<1>2. RunningTests' = RunningTests /\ BrokenTests' = BrokenTests
  BY <1>1, PoolMapping, PoolMappingNext
<1>3. NextTest' = NextTest /\ GoodTests' = GoodTests /\ Verdict' = Verdict
  BY <1>1 DEF NextTest, GoodTests, Verdict
<1> QED
  BY <1>1, <1>2, <1>3 DEF Promise!campaignVars

LEMMA WorkerPromise ==
    ASSUME PoolIInv, TestsIInv, PoolIInv', TestsIInv', Parallel, NEW w \in Worker, WorkerStep(w)
    PROVE  [Promise!CampaignNext]_(Promise!campaignVars)
<1>1. /\ UNCHANGED <<suite, nWorkers, dispatched, master, failed>>
      /\ Total' = Total /\ Failing' = Failing /\ Parallel'
  BY DEF WorkerStep, Ask, Take, HungUp, Finish, Crash, masterVars, Failing, Total, Parallel
<1>2. /\ dispatched \in Nat /\ commands \in [Worker -> Seq(Int)]
      /\ life \in [Worker -> {"unborn", "ask", "wait", "run", "dead"}]
      /\ test \in [Worker -> Int] /\ Number(w) /\ -1 \notin ended
      /\ ended \cap Failing = {} /\ -1 \notin Failing
  <2>1. Total \in Nat
    BY DEF PoolIInv, PoolType, Total
  <2>2. -1 \notin Failing
    BY <2>1 DEF Failing
  <2>3. test \in [Worker -> Int] /\ ended \cap Failing = {} /\ \A v \in Worker : Number(v)
    BY DEF TestsIInv, Numbers
  <2>4. -1 \notin ended
    BY DEF PoolIInv, PoolType, TestsIInv, Numbers
  <2> QED
    BY <2>2, <2>3, <2>4 DEF PoolIInv, PoolType
<1>3. \A v \in Worker : v # w => /\ life'[v] = life[v] /\ test'[v] = test[v]
                                /\ Given(v)' = Given(v)
  BY <1>2 DEF WorkerStep, Ask, Take, HungUp, Finish, Crash, Given
<1>4. /\ RunningTests = {Given(v) : v \in Busy} /\ BrokenTests = {test[v] : v \in FailedBy}
      /\ RunningTests' = {Given(v)' : v \in Busy'} /\ BrokenTests' = {test'[v] : v \in FailedBy'}
  BY <1>1, PoolMapping, PoolMappingNext
<1>5. NextTest' = NextTest /\ GoodTests = ended /\ GoodTests' = ended' /\ Verdict' = Verdict
  BY <1>1 DEF NextTest, GoodTests, Verdict
<1>6. life[w] # "dead"
  BY DEF WorkerStep, Ask, Take, HungUp, Finish, Crash
<1>7. ASSUME ended' = ended, w \in Busy' <=> w \in Busy, w \in Busy => Given(w)' = Given(w),
             w \notin FailedBy'
      PROVE  UNCHANGED Promise!campaignVars
  <2>1. Done' = Done
    BY <1>7 DEF Done
  <2>2. Busy' = Busy /\ FailedBy' = FailedBy
    BY <1>1, <1>3, <1>6, <1>7, <2>1 DEF Busy, FailedBy, Alive
  <2>3. /\ \A v \in Busy : Given(v)' = Given(v)
        /\ \A v \in FailedBy : test'[v] = test[v]
    BY <1>3, <1>6, <1>7 DEF Busy, FailedBy
  <2> QED
    BY <1>1, <1>7, <2>2, <2>3, PoolStutters
<1>8. CASE Ask(w)
  BY <1>2, <1>7, <1>8 DEF Ask, Busy, FailedBy, Alive, Given, Done
<1>9. CASE Take(w)
  <2>1. /\ life[w] = "wait" /\ commands[w] = <<Given(w)>> /\ test[w] \in Done
        /\ ended' = ended /\ Given(w) \in -1 .. dispatched - 1
    BY <1>2, <1>9 DEF Take, Number
  <2>2. Tail(commands[w]) = <<>> /\ Head(commands[w]) = Given(w)
    BY <2>1
  <2>3. /\ commands'[w] = <<>>
        /\ IF Given(w) < 0
           THEN life' = [life EXCEPT ![w] = "dead"] /\ UNCHANGED test
           ELSE life' = [life EXCEPT ![w] = "run"] /\ test' = [test EXCEPT ![w] = Given(w)]
    BY <1>2, <1>9, <2>2 DEF Take
  <2>4. CASE Given(w) < 0
    <3>1. Given(w) = -1
      BY <1>2, <2>1, <2>4
    <3>2. life'[w] = "dead" /\ test'[w] = test[w]
      BY <1>2, <2>3, <2>4
    <3>3. w \notin Busy /\ w \notin Busy' /\ w \notin FailedBy'
      BY <1>1, <1>2, <2>1, <3>1, <3>2 DEF Busy, FailedBy, Alive, Done
    <3> QED
      BY <1>7, <2>1, <3>3
  <2>5. CASE ~(Given(w) < 0)
    <3>1. life'[w] = "run" /\ test'[w] = Given(w) /\ Given(w)' = Given(w)
      BY <1>2, <2>1, <2>3, <2>5 DEF Given
    <3>2. (w \in Busy' <=> w \in Busy) /\ w \notin FailedBy'
      BY <2>1, <3>1 DEF Busy, FailedBy, Alive, Done
    <3> QED
      BY <1>7, <2>1, <3>1, <3>2
  <2> QED
    BY <2>4, <2>5
<1>10. CASE HungUp(w)
  <2>1. /\ life[w] = "wait" /\ test[w] \in Done /\ Given(w) = test[w] /\ ended' = ended
        /\ life'[w] = "dead" /\ test' = test
    BY <1>2, <1>10 DEF HungUp, Number, Given
  <2>2. w \notin Busy /\ w \notin Busy' /\ w \notin FailedBy'
    BY <1>1, <1>2, <2>1 DEF Busy, FailedBy, Alive, Done
  <2> QED
    BY <1>7, <2>1, <2>2
<1>11. CASE Finish(w) \/ Crash(w)
  <2>1. /\ life[w] = "run" /\ life'[w] \in {"ask", "dead"} /\ test' = test
        /\ Given(w)' = Given(w) /\ Given(w) = test[w] /\ Given(w) \notin Done
        /\ Given(w) \in 0 .. dispatched - 1 /\ commands[w] = <<>>
    <3>1. life[w] = "run" /\ life'[w] \in {"ask", "dead"} /\ test' = test /\ commands' = commands
      BY <1>2, <1>11 DEF Finish, Crash
    <3>2. commands[w] = <<>>
      BY <1>2, <3>1 DEF Number
    <3> QED
      BY <1>2, <3>1, <3>2 DEF Given, Number, Done
  <2> DEFINE t == Given(w)
  <2>2. dispatched <= Total /\ Total \in Nat
    BY DEF PoolIInv, PoolType, Accounts, Total
  <2>3. t \in 0 .. Total - 1 /\ w \in Busy /\ t \in RunningTests /\ w \notin FailedBy
    BY <1>2, <1>4, <2>1, <2>2 DEF Busy, FailedBy, Alive
  <2>4. \A v \in Worker : v # w => Given(v) # t
    BY <2>1 DEF TestsIInv, Numbers
  <2> HIDE DEF t
  <2>5. CASE Finish(w)
    <3>1. life'[w] = "ask" /\ ended' = ended \cup {t} /\ ~Fails(suite[t + 1])
      BY <1>2, <2>1, <2>5 DEF Finish, t
    <3>2. Done' = Done \cup {t} /\ t \notin Failing
      BY <3>1 DEF Done, Failing
    <3>3. Busy' = Busy \ {w} /\ FailedBy' = FailedBy
      BY <1>1, <1>3, <2>1, <2>4, <3>1, <3>2 DEF Busy, FailedBy, Alive, t
    <3>4. RunningTests' = RunningTests \ {t}
      <4>1. \A v \in Busy : v # w => Given(v)' = Given(v) /\ Given(v) # t
        BY <1>3, <2>4 DEF Busy
      <4>2. Given(w) = t
        BY DEF t
      <4> QED
        BY <1>4, <3>3, <4>1, <4>2
    <3>5. BrokenTests' = BrokenTests
      BY <1>4, <2>1, <3>3
    <3> QED
      BY <1>1, <1>5, <2>3, <3>1, <3>2, <3>4, <3>5
         DEF Promise!CampaignNext, Promise!Finish
  <2>6. CASE Crash(w)
    <3>1. life'[w] = "dead" /\ ended' = ended /\ Fails(suite[t + 1])
      BY <1>2, <2>1, <2>6 DEF Crash, t
    <3>2. Done' = Done /\ t \in Failing
      BY <2>3, <3>1 DEF Done, Failing
    <3>3. Busy' = Busy \ {w} /\ FailedBy' = FailedBy \cup {w}
      BY <1>1, <1>3, <2>1, <3>1, <3>2 DEF Busy, FailedBy, Alive, t
    <3>4. RunningTests' = RunningTests \ {t}
      <4>1. \A v \in Busy : v # w => Given(v)' = Given(v) /\ Given(v) # t
        BY <1>3, <2>4 DEF Busy
      <4>2. Given(w) = t
        BY DEF t
      <4> QED
        BY <1>4, <3>3, <4>1, <4>2
    <3>5. BrokenTests' = BrokenTests \cup {t}
      <4>1. test[w] = t
        BY <2>1 DEF t
      <4> QED
        BY <1>4, <2>1, <3>3, <4>1
    <3> QED
      BY <1>1, <1>5, <2>3, <3>1, <3>2, <3>4, <3>5
         DEF Promise!CampaignNext, Promise!Break
  <2> QED
    BY <1>11, <2>5, <2>6
<1> QED
  BY <1>8, <1>9, <1>10, <1>11 DEF WorkerStep

\* While a worker asks, fewer tests run than there are workers.
LEMMA HandsFree ==
    ASSUME PoolIInv, TestsIInv, NEW w \in ready, w \notin Busy
    PROVE  Cardinality({Given(v) : v \in Busy}) < nWorkers
<1> DEFINE all == 1 .. nWorkers
           given == {Given(v) : v \in Busy}
           f == [v \in Busy |-> Given(v)]
<1>1. nWorkers \in Nat /\ w \in all
  BY MaxWorkersAssumption DEF PoolIInv, PoolType, Accounts, Worker
<1>2. Busy \subseteq all \ {w}
  BY <1>1 DEF Busy, TestsIInv, Numbers, Number, PoolIInv, Accounts, Worker
<1>3. /\ IsFiniteSet(all \ {w}) /\ Cardinality(all \ {w}) = nWorkers - 1
  <2>1. IsFiniteSet(all) /\ Cardinality(all) = nWorkers
    BY <1>1, FS_Interval
  <2> QED
    BY <1>1, <2>1, FS_RemoveElement
<1> HIDE DEF all
<1>4. IsFiniteSet(Busy) /\ Cardinality(Busy) <= nWorkers - 1 /\ Cardinality(Busy) \in Nat
  <2>1. IsFiniteSet(Busy) /\ Cardinality(Busy) <= Cardinality(all \ {w})
    BY <1>2, <1>3, FS_Subset
  <2> QED
    BY <1>3, <2>1, FS_CardinalityType
<1>5. f \in Surjection(Busy, given)
  BY DEF Surjection
<1>6. IsFiniteSet(given) /\ Cardinality(given) <= Cardinality(Busy) /\ Cardinality(given) \in Nat
  BY <1>4, <1>5, FS_Surjection, FS_CardinalityType
<1> QED
  BY <1>1, <1>4, <1>6

LEMMA MasterPromise ==
    ASSUME PoolIInv, TestsIInv, PoolIInv', TestsIInv', Parallel, MasterStep
    PROVE  [Promise!CampaignNext]_(Promise!campaignVars)
<1>1. /\ UNCHANGED <<suite, nWorkers, test, ended>> /\ Total' = Total /\ Failing' = Failing
      /\ Parallel' /\ Done' = Done
  BY DEF MasterStep, Spawn, Select, Close, Leave, Answer, SeeFailure, Reap, workerVars,
         Failing, Total, Parallel, Done
<1>2. /\ dispatched \in Nat /\ commands \in [Worker -> Seq(Int)]
      /\ life \in [Worker -> {"unborn", "ask", "wait", "run", "dead"}]
      /\ test \in [Worker -> Int] /\ -1 \notin ended /\ \A w \in Worker : Number(w)
      /\ ended \cap Failing = {} /\ -1 \notin Failing
  <2>1. Total \in Nat
    BY DEF PoolIInv, PoolType, Total
  <2>2. -1 \notin Failing
    BY <2>1 DEF Failing
  <2>3. test \in [Worker -> Int] /\ ended \cap Failing = {} /\ \A v \in Worker : Number(v)
    BY DEF TestsIInv, Numbers
  <2>4. -1 \notin ended
    BY DEF PoolIInv, PoolType, TestsIInv, Numbers
  <2> QED
    BY <2>2, <2>3, <2>4 DEF PoolIInv, PoolType
<1>3. /\ RunningTests = {Given(v) : v \in Busy} /\ BrokenTests = {test[v] : v \in FailedBy}
      /\ RunningTests' = {Given(v)' : v \in Busy'} /\ BrokenTests' = {test'[v] : v \in FailedBy'}
  BY <1>1, PoolMapping, PoolMappingNext
<1>4. NextTest = dispatched /\ NextTest' = dispatched' /\ GoodTests = ended /\ GoodTests' = ended'
  BY <1>1 DEF NextTest, GoodTests
<1>5. /\ master # "done" => Verdict = "none"
      /\ master' # "done" => Verdict' = "none"
      /\ master' = "done" => Verdict' = IF failed' THEN "failed" ELSE "passed"
  BY <1>1 DEF Verdict
<1>6. CASE Spawn
  <2>1. spawned + 1 \in Worker /\ life[spawned + 1] = "unborn"
    BY <1>6, MaxWorkersAssumption DEF Spawn, PoolIInv, PoolType, Phases, Worker
  <2>2. UNCHANGED <<dispatched, commands>> /\ master # "done" /\ master' # "done"
        /\ life' = [life EXCEPT ![spawned + 1] = "ask"]
    BY <1>6 DEF Spawn
  <2>3. \A w \in Worker : Given(w)' = Given(w)
    BY <1>1, <2>2 DEF Given
  <2>4. spawned + 1 \notin Busy'
    <3>1. Number(spawned + 1) /\ Given(spawned + 1) \in Done
      BY <1>2, <2>1 DEF Number, Given
    <3> QED
      BY <1>1, <2>1, <2>3, <3>1 DEF Busy
  <2>5. Busy' = Busy /\ FailedBy' = FailedBy
    BY <1>1, <1>2, <2>1, <2>2, <2>3, <2>4 DEF Busy, FailedBy, Alive
  <2> QED
    BY <1>1, <2>2, <2>3, <2>5, PoolStutters DEF Busy
<1>7. ASSUME UNCHANGED <<dispatched, commands, life>>, master # "done", master' # "done"
      PROVE  UNCHANGED Promise!campaignVars
  <2>1. \A w \in Worker : Given(w)' = Given(w)
    BY <1>1, <1>7 DEF Given
  <2>2. Busy' = Busy /\ FailedBy' = FailedBy
    BY <1>1, <1>7, <2>1 DEF Busy, FailedBy, Alive
  <2> QED
    BY <1>1, <1>7, <2>1, <2>2, PoolStutters DEF Busy
<1>8. CASE Select \/ Close
  BY <1>7, <1>8 DEF Select, Close, workerVars
<1>9. ASSUME NEW w \in Worker, SeeFailure(w) PROVE UNCHANGED Promise!campaignVars
  <2>1. master # "done" /\ UNCHANGED <<dispatched, commands, life, master>>
    BY <1>9 DEF SeeFailure, IsNext, workerVars, PoolIInv, Phases
  <2> QED
    BY <1>7, <2>1
<1>10. CASE Leave
  <2>1. /\ master = "reap" /\ master' = "done" /\ reaped = nWorkers
        /\ UNCHANGED <<dispatched, commands, life, failed>>
    BY <1>10 DEF Leave, workerVars
  <2>2. Busy' = Busy /\ FailedBy' = FailedBy /\ \A w \in Worker : Given(w)' = Given(w)
    BY <1>1, <2>1 DEF Busy, FailedBy, Alive, Given
  <2>3. RunningTests' = RunningTests /\ BrokenTests' = BrokenTests
    BY <1>1, <1>3, <2>2 DEF Busy
  <2>4. CASE failed
    <3>1. BrokenTests # {}
      BY <1>3, <2>4 DEF TestsIInv, Deaths, FailedBy
    <3>2. \A w \in Worker : ~Alive(w)
      BY <2>1 DEF PoolIInv, PoolType, Phases, Alive, Worker
    <3>3. RunningTests = {}
      BY <1>3, <3>2 DEF Busy
    <3> QED
      BY <1>1, <1>4, <1>5, <2>1, <2>3, <2>4, <3>1, <3>3
         DEF Promise!CampaignNext, Promise!Conclude
  <2>5. CASE ~failed /\ nWorkers # 0
    <3>1. exited >= nWorkers /\ nWorkers \in Nat \ {0} /\ Total \in Nat
      BY <2>1, <2>5, MaxWorkersAssumption DEF PoolIInv, PoolType, Phases, Worker, Total
    <3>2. Told \subseteq 1 .. nWorkers
      BY DEF PoolIInv, PoolType, Accounts, Told, Worker
    <3>3. Told = 1 .. nWorkers
      <4>1. IsFiniteSet(1 .. nWorkers) /\ Cardinality(1 .. nWorkers) = nWorkers
        BY <3>1, FS_Interval
      <4>2. Cardinality(Told) <= nWorkers /\ (Cardinality(Told) = nWorkers => Told = 1 .. nWorkers)
        BY <3>2, <4>1, FS_Subset
      <4> QED
        BY <3>1, <4>2 DEF PoolIInv, PoolType, Accounts
    <3>4. \A w \in Worker : Given(w) \in Done
      <4> SUFFICES ASSUME NEW w \in Worker PROVE ~open[w] \/ first[w]
        BY <1>2 DEF Number
      <4>1. w \in 1 .. nWorkers \/ w > nWorkers
        BY <3>1 DEF Worker
      <4>2. w > nWorkers => first[w]
        BY <3>1 DEF PoolIInv, Accounts, Worker
      <4> QED
        BY <3>3, <4>1, <4>2 DEF Told
    <3>5. \A w \in Worker : test[w] \in Done
      BY <1>2, <3>4 DEF Number, Given
    <3>6. FailedBy = {}
      BY <1>2, <3>5 DEF FailedBy, Done
    <3>7. BrokenTests = {}
      BY <1>3, <3>6
    <3>8. dispatched = Total
      BY <3>1 DEF PoolIInv, PoolType, Accounts
    <3>9. ended = 0 .. Total - 1
      <4>1. \A t \in 0 .. Total - 1 : t \in ended
        BY <1>2, <3>4, <3>8 DEF TestsIInv, Numbers, Done
      <4> QED
        BY <3>8, <4>1 DEF TestsIInv, Numbers
    <3> QED
      BY <1>1, <1>4, <1>5, <2>1, <2>3, <2>5, <3>7, <3>9
         DEF Promise!CampaignNext, Promise!Conclude
  <2>6. CASE nWorkers = 0
    <3>1. ~failed
      BY <2>6 DEF PoolIInv, PoolType, Phases, TestsIInv, Deaths, Worker
    <3> QED
      BY <1>1, <1>4, <1>5, <2>1, <2>3, <2>6, <3>1
         DEF Promise!CampaignNext, Promise!Conclude
  <2> QED
    BY <2>4, <2>5, <2>6
<1>11. ASSUME NEW w \in Worker, Answer(w) PROVE [Promise!CampaignNext]_(Promise!campaignVars)
  <2>1. /\ UNCHANGED <<master, failed, life>> /\ bytes[w] > 0 /\ w \in ready
    BY <1>11 DEF Answer, IsNext
  <2>2. master \in {"spawn", "loop"} /\ life[w] = "wait"
    <3>1. master \in {"spawn", "loop"}
      BY <2>1 DEF PoolIInv, Phases
    <3>2. life[w] # "dead"
      BY <2>1, <3>1 DEF TestsIInv, Deaths
    <3> QED
      BY <1>2, <2>1, <3>1, <3>2 DEF Number
  <2>3. commands[w] = <<>> /\ test[w] \in Done /\ Given(w) \in Done
    BY <1>2, <2>1 DEF Number, Given
  <2> DEFINE i == IF MoreTests THEN dispatched ELSE -1
  <2>4. /\ i \in Int /\ commands' = [commands EXCEPT ![w] = Append(@, i)]
        /\ \/ i = dispatched /\ dispatched' = dispatched + 1 /\ dispatched < Total
           \/ i = -1 /\ dispatched' = dispatched
    BY <1>2, <1>11 DEF Answer, MoreTests
  <2> HIDE DEF i
  <2>5. Given(w)' = i
    <3>1. Append(commands[w], i) = <<i>> /\ Head(<<i>>) = i /\ <<i>> # <<>>
      BY <2>3, <2>4
    <3>2. commands'[w] = <<i>>
      BY <1>2, <2>4, <3>1
    <3> QED
      BY <3>1, <3>2 DEF Given
  <2>6. \A v \in Worker : v # w => Given(v)' = Given(v)
    BY <1>1, <1>2, <2>4 DEF Given
  <2>7. FailedBy' = FailedBy /\ w \notin Busy
    BY <1>1, <2>1, <2>3 DEF FailedBy, Busy
  <2>8. CASE i = dispatched /\ dispatched' = dispatched + 1 /\ dispatched < Total
    <3>1. i \notin Done
      BY <1>2, <2>8 DEF TestsIInv, Numbers, Done
    <3>2. Busy' = Busy \cup {w}
      BY <1>1, <2>1, <2>2, <2>5, <2>6, <3>1 DEF Busy, Alive
    <3>3. RunningTests' = RunningTests \cup {i}
      <4>1. \A v \in Busy : Given(v)' = Given(v)
        BY <2>6, <2>7 DEF Busy
      <4> QED
        BY <1>3, <2>5, <3>2, <4>1
    <3>4. BrokenTests' = BrokenTests
      BY <1>1, <1>3, <2>7
    <3>5. Cardinality(RunningTests) < nWorkers
      BY <1>3, <2>1, <2>7, HandsFree
    <3>6. /\ Verdict = "none" /\ Verdict' = "none" /\ NextTest < Total /\ NextTest' = NextTest + 1
          /\ RunningTests' = RunningTests \cup {NextTest}
          /\ GoodTests' = GoodTests
      BY <1>1, <1>4, <1>5, <2>1, <2>2, <2>8, <3>3
    <3> QED
      BY <1>1, <3>4, <3>5, <3>6, SameCount DEF Promise!CampaignNext, Promise!Start
  <2>9. CASE i = -1 /\ dispatched' = dispatched
    <3>1. Busy' = Busy
      BY <1>1, <2>1, <2>5, <2>6, <2>7, <2>9 DEF Busy, Alive, Done
    <3>2. \A v \in Busy : Given(v)' = Given(v)
      BY <2>6, <2>7 DEF Busy
    <3> QED
      BY <1>1, <2>1, <2>7, <2>9, <3>1, <3>2, PoolStutters DEF FailedBy
  <2> QED
    BY <2>4, <2>8, <2>9
<1>12. ASSUME NEW w \in Worker, Reap(w) PROVE [Promise!CampaignNext]_(Promise!campaignVars)
  <2>1. /\ UNCHANGED <<dispatched, commands, failed, master>> /\ master = "reap"
        /\ life' = [life EXCEPT ![w] = "dead"] /\ (Alive(w) => failed)
    BY <1>12 DEF Reap, Killed
  <2>2. \A v \in Worker : Given(v)' = Given(v)
    BY <1>1, <2>1 DEF Given
  <2>3. Busy' = Busy \ {w}
    BY <1>1, <1>2, <2>1, <2>2 DEF Busy, Alive
  <2>4. FailedBy' = IF test[w] \in Failing THEN FailedBy \cup {w} ELSE FailedBy
    BY <1>1, <1>2, <2>1 DEF FailedBy
  <2>5. CASE w \notin Busy
    <3>1. life[w] # "dead" => test[w] \in Done
      BY <1>2, <2>5 DEF Busy, Alive, Number, Given
    <3>2. test[w] \in Failing => w \in FailedBy
      BY <1>2, <3>1 DEF Done, FailedBy
    <3>3. Busy' = Busy /\ FailedBy' = FailedBy
      BY <2>3, <2>4, <2>5, <3>2
    <3> QED
      BY <1>1, <2>1, <2>2, <3>3, PoolStutters DEF Busy
  <2>6. CASE w \in Busy
    <3> DEFINE t == Given(w)
    <3>1. t \in RunningTests /\ BrokenTests # {}
      BY <1>3, <2>1, <2>6 DEF Busy, TestsIInv, Deaths, FailedBy
    <3>2. \A v \in Worker : v # w => Given(v) # t
      BY <2>6 DEF TestsIInv, Numbers, Busy
    <3> HIDE DEF t
    <3>3. RunningTests' = RunningTests \ {t}
      <4>1. \A v \in Busy : v # w => Given(v)' = Given(v) /\ Given(v) # t
        BY <2>2, <3>2 DEF Busy
      <4>2. Given(w) = t
        BY DEF t
      <4> QED
        BY <1>3, <2>3, <4>1, <4>2
    <3>4. CASE test[w] \in Failing
      <4>1. test[w] = t
        BY <1>2, <3>4 DEF Number, Given, Done, t
      <4>2. BrokenTests' = BrokenTests \cup {t}
        BY <1>1, <1>3, <2>4, <3>4, <4>1
      <4> QED
        BY <1>1, <1>4, <1>5, <2>1, <3>1, <3>3, <3>4, <4>1, <4>2
           DEF Promise!CampaignNext, Promise!Break
    <3>5. CASE test[w] \notin Failing
      <4>1. BrokenTests' = BrokenTests
        BY <1>1, <1>3, <2>4, <3>5
      <4> QED
        BY <1>1, <1>4, <1>5, <2>1, <3>1, <3>3, <4>1
           DEF Promise!CampaignNext, Promise!Drop
    <3> QED
      BY <3>4, <3>5
  <2> QED
    BY <2>5, <2>6
<1> QED
  BY <1>6, <1>8, <1>9, <1>10, <1>11, <1>12 DEF MasterStep

\* A run in the process: the test that runs is number count.
LEMMA SerialPromise ==
    ASSUME suite \in Seq(Case), CaseIInv, CaseIInv', ~Parallel, CaseStep \/ Reporter,
           nWorkers' = nWorkers
    PROVE  [Promise!CampaignNext]_(Promise!campaignVars)
<1>1. Total \in Nat /\ suite' = suite /\ Total' = Total /\ Failing' = Failing /\ ~Parallel'
  <2>1. suite' = suite
    BY DEF CaseStep, BeginTest, Plugin, Enable, Skip, Pass, Fail, Die, RunDefer, EndTest,
           Return, Reporter, Retire
  <2> QED
    BY <2>1 DEF Total, Failing, Parallel
<1>2. /\ count \in 0 .. Total /\ at \in {"idle", "setup", "leave", "abort", "dead", "end"}
      /\ at \in {"setup", "leave", "abort", "dead"} => count < Total
      /\ at \in {"idle", "end"} => defers = <<>>
  BY DEF CaseIInv, TestInv
<1>3. /\ NextTest = IF at \in {"idle", "end"} THEN count ELSE count + 1
      /\ RunningTests = IF at \in {"setup", "leave"} THEN {count} ELSE {}
      /\ GoodTests = 0 .. count - 1
      /\ BrokenTests = IF at \in {"abort", "dead"} THEN {count} ELSE {}
      /\ Verdict = IF at = "end" THEN "passed" ELSE IF at = "dead" THEN "failed" ELSE "none"
  BY <1>1 DEF NextTest, RunningTests, GoodTests, BrokenTests, Verdict, InTest
<1>4. /\ NextTest' = IF at' \in {"idle", "end"} THEN count' ELSE count' + 1
      /\ RunningTests' = IF at' \in {"setup", "leave"} THEN {count'} ELSE {}
      /\ GoodTests' = 0 .. count' - 1
      /\ BrokenTests' = IF at' \in {"abort", "dead"} THEN {count'} ELSE {}
      /\ Verdict' = IF at' = "end" THEN "passed" ELSE IF at' = "dead" THEN "failed" ELSE "none"
  BY <1>1 DEF NextTest, RunningTests, GoodTests, BrokenTests, Verdict, InTest
<1>5. count < Total => (count \in Failing <=> Fails(This))
  BY <1>1, <1>2 DEF Failing, This
<1>6. ASSUME UNCHANGED <<count, at>> \/ (count' = count /\ {at, at'} \subseteq {"setup", "leave"})
      PROVE  UNCHANGED Promise!campaignVars
  BY <1>1, <1>3, <1>4, <1>6 DEF Promise!campaignVars
<1>7. ASSUME at = "setup", at' = "abort", count' = count
      PROVE  Promise!CampaignNext
  <2>1. Fails(This)
    BY <1>1, <1>7 DEF CaseIInv, PluginInv, This
  <2>2. count \in Failing
    BY <1>2, <1>5, <1>7, <2>1
  <2>3. RunningTests = {count} /\ RunningTests' = {} /\ BrokenTests = {} /\ BrokenTests' = {count}
        /\ NextTest' = NextTest /\ GoodTests' = GoodTests /\ Verdict' = Verdict
    BY <1>3, <1>4, <1>7
  <2> QED
    BY <1>1, <2>2, <2>3 DEF Promise!CampaignNext, Promise!Break
<1>8. CASE BeginTest
  <2>1. at = "idle" /\ count < Total /\ at' = "setup" /\ count' = count
    BY <1>2, <1>8 DEF BeginTest, Total
  <2>2. /\ Verdict = "none" /\ Verdict' = "none" /\ NextTest = count /\ NextTest' = count + 1
        /\ RunningTests = {} /\ RunningTests' = {count} /\ GoodTests' = GoodTests /\ BrokenTests = {} /\ BrokenTests' = {}
    BY <1>3, <1>4, <2>1
  <2>3. Cardinality(RunningTests) < nWorkers
    BY <2>2, FS_EmptySet DEF Parallel
  <2> QED
    BY <1>1, <2>1, <2>2, <2>3, SameCount DEF Promise!CampaignNext, Promise!Start
<1>9. CASE Plugin
  <2>1. at = "setup" /\ count' = count /\ at' \in {"setup", "leave", "abort"}
    BY <1>9 DEF Plugin, Enable, Skip
  <2> QED
    BY <1>6, <1>7, <2>1
<1>10. CASE Pass \/ RunDefer \/ Reporter
  BY <1>6, <1>10 DEF Pass, RunDefer, Reporter, Retire
<1>11. CASE Fail
  BY <1>7, <1>11 DEF Fail
<1>12. CASE Die
  <2>1. at = "abort" /\ at' = "dead" /\ count' = count
    BY <1>12 DEF Die
  <2>2. /\ Verdict = "none" /\ Verdict' = "failed" /\ NextTest' = NextTest
        /\ RunningTests = {} /\ RunningTests' = {} /\ GoodTests' = GoodTests /\ BrokenTests # {} /\ BrokenTests' = BrokenTests
    BY <1>3, <1>4, <2>1
  <2> QED
    BY <1>1, <2>2 DEF Promise!CampaignNext, Promise!Conclude
<1>13. CASE EndTest
  <2>1. at = "leave" /\ at' = "idle" /\ count' = count + 1
    BY <1>13 DEF EndTest
  <2>2. count \notin Failing
    <3>1. ~Fails(This)
      BY <2>1 DEF CaseIInv, PluginInv
    <3> QED
      BY <1>2, <1>5, <2>1, <3>1
  <2>3. /\ Verdict = "none" /\ Verdict' = "none" /\ NextTest' = NextTest
        /\ RunningTests = {count} /\ RunningTests' = {} /\ BrokenTests = {} /\ BrokenTests' = {}
    BY <1>3, <1>4, <2>1
  <2>4. GoodTests' = GoodTests \cup {count}
    <3>1. ASSUME NEW n \in Nat PROVE 0 .. (n + 1) - 1 = (0 .. n - 1) \cup {n}
      OBVIOUS
    <3>2. count \in Nat
      BY <1>1, <1>2
    <3> QED
      BY <1>3, <1>4, <2>1, <3>1, <3>2
  <2> QED
    BY <1>1, <2>2, <2>3, <2>4 DEF Promise!CampaignNext, Promise!Finish
<1>14. CASE Return
  <2>1. at = "idle" /\ at' = "end" /\ count' = count /\ count = Total
    BY <1>14 DEF Return, Total
  <2>2. /\ Verdict = "none" /\ Verdict' = "passed" /\ NextTest' = NextTest
        /\ RunningTests = {} /\ RunningTests' = {} /\ GoodTests' = GoodTests /\ GoodTests = 0 .. Total - 1
        /\ BrokenTests = {} /\ BrokenTests' = {}
    BY <1>3, <1>4, <2>1
  <2> QED
    BY <1>1, <2>2 DEF Promise!CampaignNext, Promise!Conclude
<1> QED
  BY <1>8, <1>9, <1>10, <1>11, <1>12, <1>13, <1>14 DEF CaseStep

\* The run of the tests, with any number of workers that fail whenever they
\* may, is a run of Campaign: every test is started once and in order, it
\* passes only if all of them ended, and fails only for a test that does.
THEOREM BenchImplementsCampaign == BenchSpec => ImplementsCampaign
<1>1. BenchInit => Promise!CampaignInit
  <2> SUFFICES ASSUME BenchInit PROVE Promise!CampaignInit
    OBVIOUS
  <2>1. suite \in Seq(Case) /\ Total \in Nat
    BY SuitesAssumption DEF BenchInit, CaseInit, Total
  <2>2. NextTest = 0 /\ GoodTests = {} /\ Verdict = "none"
    BY DEF BenchInit, CaseInit, PoolInit, NextTest, GoodTests, Verdict
  <2>3. RunningTests = {} /\ BrokenTests = {}
    BY DEF BenchInit, CaseInit, PoolInit, RunningTests, BrokenTests, InTest, Alive
  <2>4. nWorkers \in Nat
    BY MaxWorkersAssumption DEF BenchInit, PoolInit
  <2> QED
    BY <2>1, <2>2, <2>3, <2>4 DEF Promise!CampaignInit, Failing
<1>2. /\ PoolIInv /\ TestsIInv /\ CaseIInv /\ PoolIInv' /\ TestsIInv' /\ CaseIInv'
      /\ [BenchNext]_benchVars
      => [Promise!CampaignNext]_(Promise!campaignVars)
  <2> SUFFICES ASSUME PoolIInv, TestsIInv, CaseIInv, PoolIInv', TestsIInv', CaseIInv',
                      [BenchNext]_benchVars
               PROVE  [Promise!CampaignNext]_(Promise!campaignVars)
    OBVIOUS
  <2>1. CASE RunMaster
    BY <2>1, MasterPromise DEF RunMaster
  <2>2. ASSUME NEW w \in Worker, RunWorker(w)
        PROVE  [Promise!CampaignNext]_(Promise!campaignVars)
    BY <2>2, WorkerPromise DEF RunWorker
  <2>3. CASE RunSerial \/ RunReporter
    BY <2>3, SerialPromise DEF RunSerial, RunReporter, poolVars, PoolIInv, PoolType
  <2>4. CASE UNCHANGED benchVars
    <3>1. UNCHANGED <<suite, count, at, nWorkers, master, failed, dispatched, life, test,
                      commands, ended>>
      BY <2>4 DEF benchVars, caseVars, poolVars, masterVars, workerVars
    <3>2. UNCHANGED <<Total, Failing, NextTest, GoodTests, Verdict>>
      BY <3>1 DEF Total, Failing, NextTest, GoodTests, Verdict, Parallel
    <3>3. RunningTests' = RunningTests /\ BrokenTests' = BrokenTests
      BY <3>1, <3>2 DEF RunningTests, BrokenTests, Parallel, Alive, Pending, InTest
    <3> QED
      BY <3>1, <3>2, <3>3 DEF Promise!campaignVars
  <2> QED
    BY <2>1, <2>2, <2>3, <2>4 DEF BenchNext
<1> QED
  BY <1>1, <1>2, PoolInvariant, TestsInvariant, CaseInvariant, PTL
     DEF BenchSpec, ImplementsCampaign, Promise!CampaignSpec
=============================================================================
