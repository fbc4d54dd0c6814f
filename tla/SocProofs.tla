----------------------------- MODULE SocProofs -----------------------------
(***************************************************************************)
(* Proofs that hold for every memory size, set of calls, depth of the      *)
(* pipeline and behaviour of the terminal: the request is the oldest       *)
(* task's, it does not change under the device, the FIFO is not empty when *)
(* a character is taken from it, every beat stays in the memory and what   *)
(* it reads and writes are words; the device is that of the core; and the  *)
(* harness implements a memory that performs the calls one at a time.      *)
(***************************************************************************)
EXTENDS SocProps, TLAPS

\* An address lies in the block of any size that is counted from 0.
LEMMA InBlock ==
    ASSUME NEW a \in Nat, NEW t \in Nat \ {0}
    PROVE  /\ (a \div t) * t \in Nat
           /\ (a \div t) * t <= a
           /\ a < (a \div t) * t + t
<1> DEFINE q == a \div t
           r == a % t
<1>1. q \in Nat /\ r \in 0 .. t - 1 /\ a = t * q + r
  BY SMT
<1>2. q * t \in Nat /\ q * t = t * q
  BY <1>1, SMT
<1> HIDE DEF q, r
<1>3. q * t <= a /\ a < q * t + t
  BY <1>1, <1>2, SMT
<1> QED
  BY <1>2, <1>3 DEF q

\* Widths and lengths are positive, and so is their product.
LEMMA Total ==
    ASSUME NEW c \in Requests
    PROVE  c.width \in Nat \ {0} /\ Len(c.data) \in Nat \ {0}
           /\ c.width * Len(c.data) \in Nat \ {0}
<1>1. c.width \in {1, 2, 4, 8} /\ c.data \in Seq(Word) /\ c.data # <<>>
  BY DEF Requests, Widths
<1>2. Len(c.data) \in Nat \ {0}
  BY <1>1
<1> QED
  BY <1>1, <1>2

\* What the wires carry of a task.
LEMMA IssueShape ==
    ASSUME NEW t \in Tasks
    PROVE  /\ Issue(t).valid /\ Issue(t).write \in BOOLEAN
           /\ Issue(t).addr \in Nat /\ Issue(t).width \in Nat \ {0}
           /\ Len(Issue(t).data) \in Nat \ {0}
           /\ Issue(t).width * Len(Issue(t).data) \in Nat \ {0}
<1>1. PICK i \in 1 .. Len(Calls) : \E c \in Calls[i] : t = TaskOf(c)
  BY DEF Tasks, AllCalls
<1>2. PICK c \in Calls[i] : t = TaskOf(c)
  BY <1>1
<1>3. c \in Requests
  BY <1>1, <1>2, SocAssumption
<1>4. c.addr \in Nat /\ c.width \in Nat \ {0} /\ Len(c.data) \in Nat \ {0}
      /\ c.width * Len(c.data) \in Nat \ {0}
  BY <1>3, Total DEF Requests
<1>5. t.addr = c.addr /\ t.width = c.width
      /\ t.data = [k \in 1 .. Beats(c) |-> Place(t.op, c.data[k])]
  BY <1>2 DEF TaskOf
<1>6. Len(t.data) = Len(c.data)
  BY <1>4, <1>5 DEF Beats
<1> QED
  BY <1>4, <1>5, <1>6 DEF Issue

\* A task is made of every call a test may ask for.
LEMMA AskedTask ==
    ASSUME calls \in Nat, calls < Len(Calls), NEW c \in Calls[calls + 1]
    PROVE  TaskOf(c) \in Tasks
<1>1. calls + 1 \in 1 .. Len(Calls)
  BY SocAssumption
<1> QED
  BY <1>1 DEF Tasks, AllCalls
-----------------------------------------------------------------------------
(* The bus: the tasks, the request and the transaction it began.           *)
TxShape ==
    /\ tx \in Transaction
    /\ tx.busy => /\ tx.bytes \in Nat \ {0} /\ tx.length \in Nat \ {0}
                  /\ tx.lower <= tx.start /\ tx.lower < tx.upper

BusIInv ==
    /\ calls \in Nat /\ ongoing \in Seq(Tasks)
    /\ IssuedIsFront /\ TxShape /\ DeviceAsserts

LEMMA BeginShape ==
    ASSUME NEW t \in Tasks,
           tx' = Begin(t.addr, t.width, Len(Issue(t).data), Issue(t).write),
           req' = Issue(t)
    PROVE  TxShape' /\ DeviceAsserts'
<1> DEFINE a == Issue(t).addr
           total == Issue(t).width * Len(Issue(t).data)
           lower == (a \div total) * total
<1>1. a \in Nat /\ total \in Nat \ {0} /\ Issue(t).write \in BOOLEAN
      /\ Issue(t).width \in Nat \ {0} /\ Len(Issue(t).data) \in Nat \ {0}
      /\ Issue(t).valid /\ Issue(t).width = t.width /\ Issue(t).addr = t.addr
  BY IssueShape DEF Issue
<1>2. lower \in Nat /\ lower <= a /\ a < lower + total
  BY <1>1, InBlock
<1>3. tx' = [busy |-> TRUE, write |-> Issue(t).write, aligned |-> FALSE, n |-> 1,
             addr |-> a, start |-> a, bytes |-> Issue(t).width,
             length |-> Len(Issue(t).data), lower |-> lower, upper |-> lower + total]
  BY <1>1, Zenon DEF Begin
<1> HIDE DEF a, total, lower
<1>4. TxShape'
  BY <1>1, <1>2, <1>3 DEF TxShape, Transaction
<1>5. DeviceAsserts'
  <2>1. req'.valid /\ req'.write = tx'.write /\ req'.width = tx'.bytes
        /\ req'.addr = tx'.start /\ Len(req'.data) = tx'.length
    BY <1>1, <1>3 DEF a
  <2>2. tx'.n \in 1 .. tx'.length /\ tx'.addr \in tx'.lower .. tx'.upper - 1
    BY <1>1, <1>2, <1>3
  <2> QED
    BY <2>1, <2>2 DEF DeviceAsserts
<1> QED
  BY <1>4, <1>5

LEMMA AdvanceShape ==
    ASSUME TxShape, DeviceAsserts, tx.busy, ~IsLast(tx), tx' = Advance(tx), req' = req
    PROVE  TxShape' /\ DeviceAsserts'
<1> DEFINE base == IF tx.aligned THEN tx.addr ELSE AlignedAddress(tx)
           next == base + tx.bytes
           to   == IF next >= tx.upper THEN tx.lower ELSE next
<1>1. tx.bytes \in Nat \ {0} /\ tx.length \in Nat \ {0} /\ tx.lower <= tx.start
      /\ tx.lower < tx.upper /\ tx \in Transaction
      /\ tx.n \in 1 .. tx.length /\ tx.addr \in tx.lower .. tx.upper - 1
      /\ tx.start \in Nat /\ tx.lower \in Nat /\ tx.upper \in Nat /\ tx.n # tx.length
  BY DEF TxShape, DeviceAsserts, Transaction, IsLast
<1>2. AlignedAddress(tx) \in Nat /\ tx.start < AlignedAddress(tx) + tx.bytes
  BY <1>1, InBlock DEF AlignedAddress
<1>3. next \in Nat /\ tx.lower <= next
  BY <1>1, <1>2
<1>4. tx' = [tx EXCEPT !.n = tx.n + 1, !.aligned = TRUE, !.addr = to]
  BY DEF Advance
<1>9. to \in Nat /\ to \in tx.lower .. tx.upper - 1
  BY <1>1, <1>3
<1> HIDE DEF base, next, to
<1>5. tx' \in Transaction /\ tx'.n = tx.n + 1
      /\ tx'.addr = to
      /\ tx'.busy = tx.busy /\ tx'.write = tx.write /\ tx'.start = tx.start
      /\ tx'.bytes = tx.bytes /\ tx'.length = tx.length
      /\ tx'.lower = tx.lower /\ tx'.upper = tx.upper
  <2>1. tx \in Transaction /\ tx.n + 1 \in Nat /\ to \in Nat
    BY <1>1, <1>9
  <2>2. tx' \in Transaction
    BY <1>4, <2>1 DEF Transaction
  <2>3. tx'.n = tx.n + 1 /\ tx'.addr = to
    BY <1>4, <2>1 DEF Transaction
  <2>4. tx'.busy = tx.busy /\ tx'.write = tx.write /\ tx'.start = tx.start
    BY <1>4, <2>1 DEF Transaction
  <2>5. tx'.bytes = tx.bytes /\ tx'.length = tx.length
        /\ tx'.lower = tx.lower /\ tx'.upper = tx.upper
    BY <1>4, <2>1 DEF Transaction
  <2> QED
    BY <2>2, <2>3, <2>4, <2>5
<1>6. TxShape'
  BY <1>1, <1>5 DEF TxShape
<1>7. tx'.n \in 1 .. tx'.length /\ tx'.addr \in tx'.lower .. tx'.upper - 1
  BY <1>1, <1>5, <1>9
<1> QED
  BY <1>5, <1>6, <1>7 DEF DeviceAsserts

\* With a task there is its request; without one there is none, and then the
\* device is idle.
LEMMA Waiting ==
    ASSUME BusIInv
    PROVE  /\ ongoing = <<>> => ~req.valid /\ ~tx.busy
           /\ ongoing # <<>> => /\ Head(ongoing) \in Tasks /\ req = Issue(Head(ongoing))
                                /\ req.valid
<1>1. CASE ongoing = <<>>
  BY <1>1 DEF BusIInv, IssuedIsFront, NoReq, DeviceAsserts
<1>2. CASE ongoing # <<>>
  <2>1. Head(ongoing) \in Tasks /\ req = Issue(Head(ongoing))
    BY <1>2 DEF BusIInv, IssuedIsFront
  <2> QED
    BY <1>2, <2>1, IssueShape
<1> QED
  BY <1>1, <1>2

\* A clock edge in which the request is not finished.
LEMMA TickStays ==
    ASSUME BusIInv, TxNext, ~(req.valid /\ DataOk), req' = req
    PROVE  TxShape' /\ DeviceAsserts'
<1>1. CASE enable /\ ~tx.busy /\ req.valid
  <2> DEFINE t == Head(ongoing)
  <2>1. t \in Tasks /\ req = Issue(t)
    BY <1>1, Waiting
  <2>2. tx' = Begin(req.addr, req.width, Len(req.data), req.write)
    BY <1>1 DEF TxNext, Served
  <2>3. tx' = Begin(t.addr, t.width, Len(Issue(t).data), Issue(t).write)
    BY <2>1, <2>2 DEF Issue
  <2> HIDE DEF t
  <2> QED
    BY <2>1, <2>3, BeginShape
<1>2. CASE Served
  <2>1. tx.busy /\ ~IsLast(tx)
    BY <1>2 DEF Served, DataOk, BusIInv, DeviceAsserts
  <2>2. tx' = Advance(tx)
    BY <1>2, <2>1 DEF TxNext, Served
  <2> QED
    BY <2>1, <2>2, AdvanceShape DEF BusIInv
<1>3. CASE ~enable \/ (~tx.busy /\ ~req.valid)
  <2>1. tx' = tx
    BY <1>3 DEF TxNext, Served
  <2> QED
    BY <2>1 DEF BusIInv, TxShape, DeviceAsserts
<1> QED
  BY <1>1, <1>2, <1>3 DEF TxNext, Served

\* One step of any actor.
LEMMA BusStep ==
    BusIInv /\ [SocNext]_socVars => BusIInv'
<1> SUFFICES ASSUME BusIInv, [SocNext]_socVars
             PROVE  BusIInv'
  OBVIOUS
<1>1. CASE Tick
  <2>1. TxNext /\ ongoing' = Popped /\ IssueNext(Popped) /\ calls' = calls
    BY <1>1 DEF Tick, DeviceTick
  <2>2. CASE req.valid /\ DataOk
    <3>1. ongoing # <<>>
      BY <2>2, Waiting
    <3>2. ongoing' = Tail(ongoing) /\ ongoing' \in Seq(Tasks)
      BY <2>1, <2>2, <3>1 DEF Popped, BusIInv
    <3>3. IssuedIsFront'
      BY <2>1 DEF IssueNext, IssuedIsFront
    <3>4. tx' = NoTransaction
      BY <2>1, <2>2 DEF TxNext, DataOk, Served
    <3>5. TxShape' /\ DeviceAsserts'
      BY <3>4 DEF NoTransaction, TxShape, Transaction, DeviceAsserts
    <3> QED
      BY <2>1, <3>2, <3>3, <3>5 DEF BusIInv
  <2>3. CASE ~(req.valid /\ DataOk)
    <3>1. ongoing' = ongoing
      BY <2>1, <2>3 DEF Popped
    <3>2. IssuedIsFront' /\ req' = req
      BY <2>1, <3>1 DEF IssueNext, IssuedIsFront, BusIInv
    <3>3. TxShape' /\ DeviceAsserts'
      BY <2>1, <2>3, <3>2, TickStays
    <3> QED
      BY <2>1, <3>1, <3>2, <3>3 DEF BusIInv
  <2> QED
    BY <2>2, <2>3
<1>2. CASE Ask
  <2>1. PICK c \in Calls[calls + 1] : Submit(c)
    BY <1>2 DEF Ask
  <2>2. TaskOf(c) \in Tasks
    BY <1>2, AskedTask DEF Ask, BusIInv
  <2> DEFINE t == TaskOf(c)
  <2>3. calls' = calls + 1 /\ ongoing' = Append(ongoing, t) /\ tx' = tx
        /\ req' = IF req.valid THEN req ELSE Issue(t)
    BY <2>1 DEF Submit, deviceVars
  <2> HIDE DEF t
  <2>4. t \in Tasks
    BY <2>2 DEF t
  <2>5. calls' \in Nat /\ ongoing' \in Seq(Tasks)
    BY <2>3, <2>4 DEF BusIInv
  <2>6. CASE ongoing = <<>>
    <3>1. IssuedIsFront'
      BY <2>3, <2>4, <2>6, Waiting DEF IssuedIsFront
    <3>2. TxShape' /\ DeviceAsserts'
      BY <2>3, <2>6, Waiting DEF BusIInv, TxShape, DeviceAsserts
    <3> QED
      BY <2>5, <3>1, <3>2 DEF BusIInv
  <2>7. CASE ongoing # <<>>
    <3>1. req' = req
      BY <2>3, <2>7, Waiting
    <3>2. Head(ongoing') = Head(ongoing) /\ ongoing' # <<>>
      BY <2>3, <2>4, <2>7 DEF BusIInv
    <3>3. IssuedIsFront'
      BY <2>7, <3>1, <3>2, Waiting DEF IssuedIsFront
    <3>4. TxShape' /\ DeviceAsserts'
      BY <2>3, <3>1 DEF BusIInv, TxShape, DeviceAsserts
    <3> QED
      BY <2>5, <3>3, <3>4 DEF BusIInv
  <2> QED
    BY <2>6, <2>7
<1>3. CASE \E ch \in Chars : Type(ch)
  BY <1>3 DEF Type, clientVars, BusIInv, IssuedIsFront, TxShape, DeviceAsserts
<1>4. CASE Reset
  <2>1. calls' = calls /\ ongoing' = ongoing /\ req' = req /\ tx' = NoTransaction
    BY <1>4 DEF Reset, clientVars
  <2>2. IssuedIsFront'
    BY <2>1 DEF BusIInv, IssuedIsFront
  <2>3. TxShape' /\ DeviceAsserts'
    BY <2>1 DEF NoTransaction, TxShape, Transaction, DeviceAsserts
  <2> QED
    BY <2>1, <2>2, <2>3 DEF BusIInv
<1>5. CASE UNCHANGED socVars
  BY <1>5 DEF socVars, clientVars, deviceVars, BusIInv, IssuedIsFront, TxShape, DeviceAsserts
<1> QED
  BY <1>1, <1>2, <1>3, <1>4, <1>5 DEF SocNext

LEMMA BusInit == SocInit => BusIInv
<1> SUFFICES ASSUME SocInit PROVE BusIInv
  OBVIOUS
<1>1. calls \in Nat /\ ongoing \in Seq(Tasks) /\ IssuedIsFront
  BY DEF SocInit, IssuedIsFront
<1>2. TxShape /\ DeviceAsserts
  BY DEF SocInit, NoTransaction, TxShape, Transaction, DeviceAsserts
<1> QED
  BY <1>1, <1>2 DEF BusIInv

LEMMA BusInvariant == SocSpec => []BusIInv
<1> QED
  BY BusInit, BusStep, PTL DEF SocSpec

\* busy(), tick and submit agree at every moment: the request on the wires is
\* the oldest task's, for any number of tasks (DBusPipelineGen, bus.h).
THEOREM SocIssuedIsFront == SocSpec => []IssuedIsFront
<1>1. BusIInv => IssuedIsFront
  BY DEF BusIInv
<1> QED
  BY <1>1, BusInvariant, PTL

\* The assertions of CBusDevice::eval_req hold, and a wrapping burst of any
\* width and length never leaves its block (AXITransaction, axi.h).
THEOREM SocDeviceAsserts == SocSpec => []DeviceAsserts
<1>1. BusIInv => DeviceAsserts
  BY DEF BusIInv
<1> QED
  BY <1>1, BusInvariant, PTL

(* The terminal: the thread only adds to the FIFO, the registers announce   *)
(* after they have removed.                                                *)
FifoIInv == FifoKept /\ ififo \in Seq(Chars) /\ "avail" \in DOMAIN con

\* What is announced is read from the FIFO as it is left.
LEMMA SyncLooks ==
    ASSUME NEW k, "avail" \in DOMAIN k, NEW fifo
    PROVE  Sync(k, fifo).avail = (fifo # <<>>) /\ "avail" \in DOMAIN Sync(k, fifo)
  BY DEF Sync

LEMMA FifoStep ==
    FifoIInv /\ [SocNext]_socVars => FifoIInv'
<1> SUFFICES ASSUME FifoIInv, [SocNext]_socVars
             PROVE  FifoIInv'
  OBVIOUS
<1>1. CASE Tick
  <2> DEFINE k == IF Storing("con") THEN ConStore(con, tx.addr, WriteData) ELSE con
  <2>1. ififo' = SyncFifo(ififo, Fetching) /\ con' = Sync(k, ififo')
    BY <1>1 DEF Tick, DeviceTick, ConNext
  <2>2. ififo' \in Seq(Chars)
    BY <2>1 DEF SyncFifo, Fetching, Fetches, FifoIInv, FifoKept
  <2>3. "avail" \in DOMAIN k
    BY DEF FifoIInv, ConStore
  <2> HIDE DEF k
  <2> QED
    BY <2>1, <2>2, <2>3, SyncLooks DEF FifoIInv, FifoKept
<1>2. CASE Ask
  BY <1>2 DEF Ask, Submit, deviceVars, FifoIInv, FifoKept
<1>3. CASE \E ch \in Chars : Type(ch)
  <2>1. PICK ch \in Chars : ififo' = Append(ififo, ch) /\ con' = con
    BY <1>3 DEF Type
  <2>2. ififo' \in Seq(Chars) /\ ififo' # <<>>
    BY <2>1 DEF FifoIInv
  <2> QED
    BY <2>1, <2>2 DEF FifoIInv, FifoKept
<1>4. CASE Reset
  BY <1>4 DEF Reset, ConReset, FifoIInv, FifoKept
<1>5. CASE UNCHANGED socVars
  BY <1>5 DEF socVars, deviceVars, FifoIInv, FifoKept
<1> QED
  BY <1>1, <1>2, <1>3, <1>4, <1>5 DEF SocNext

\* A character that was announced is still there when it is taken, whatever
\* the terminal's thread does in between (Confreg::sync, confreg.cpp).
THEOREM SocFifoKept == SocSpec => []FifoKept
<1>1. SocInit => FifoIInv
  BY DEF SocInit, ConReset, FifoIInv, FifoKept
<1>2. FifoIInv => FifoKept
  BY DEF FifoIInv
<1> QED
  BY <1>1, <1>2, FifoStep, PTL DEF SocSpec
-----------------------------------------------------------------------------
\* The device of the tests is, for single beats, the device of the model of
\* the core: whatever it does between the start of a transaction and its end
\* is a delay there.
THEOREM SocImplementsDevice == SocSpec => ImplementsDevice
<1> DEFINE view == IF tx.busy THEN [valid |-> TRUE, addr |-> tx.start, write |-> tx.write]
                   ELSE [valid |-> FALSE, addr |-> 0, write |-> FALSE]
           StepOf(e) == Simple!DeviceClock(e, SimpleReq)
<1>1. ASSUME view' = view
      PROVE  StepOf(FALSE)
  BY <1>1 DEF Simple!DeviceClock
<1>2. ASSUME BusIInv, Tick
      PROVE  \E e \in BOOLEAN : StepOf(e)
  <2>1. TxNext
    BY <1>2 DEF Tick, DeviceTick
  <2>2. CASE enable /\ ~tx.busy /\ req.valid
    <3>1. tx' = Begin(req.addr, req.width, Len(req.data), req.write)
      BY <2>1, <2>2 DEF TxNext, Served
    <3>2. view' = [valid |-> TRUE, addr |-> req.addr, write |-> req.write]
      BY <3>1 DEF Begin
    <3>3. SimpleReq = [valid |-> TRUE, addr |-> req.addr, write |-> req.write]
      BY <2>2 DEF SimpleReq
    <3>4. ~view.valid /\ view' = SimpleReq /\ SimpleReq.valid
      BY <2>2, <3>2, <3>3
    <3> QED
      BY <3>4 DEF Simple!DeviceClock, Simple!DeviceStart
  <2>3. CASE Served /\ IsLast(tx)
    <3>1. tx.busy /\ tx' = NoTransaction
      BY <2>1, <2>3 DEF TxNext, Served
    <3>2. view.valid /\ view' = Simple!NoRequest
      BY <3>1 DEF NoTransaction, Simple!NoRequest
    <3> QED
      BY <3>2 DEF Simple!DeviceClock, Simple!DeviceEnd
  <2>4. CASE Served /\ ~IsLast(tx)
    <3>1. tx.busy /\ tx' = Advance(tx)
      BY <2>1, <2>4 DEF TxNext, Served
    <3>2. tx \in Transaction
      BY <1>2 DEF BusIInv, TxShape
    <3>3. tx'.busy /\ tx'.start = tx.start /\ tx'.write = tx.write
      BY <3>1, <3>2 DEF Advance, Transaction
    <3> QED
      BY <1>1, <3>1, <3>3
  <2>5. CASE ~enable \/ (~tx.busy /\ ~req.valid)
    <3>1. tx' = tx
      BY <2>1, <2>5 DEF TxNext, Served
    <3> QED
      BY <1>1, <3>1
  <2> QED
    BY <2>2, <2>3, <2>4, <2>5 DEF Served
<1>3. ASSUME BusIInv, ~Tick, SocNext
      PROVE  StepOf(FALSE)
  <2>1. tx' = tx \/ (tx' = NoTransaction /\ ~tx.busy)
    BY <1>3, Waiting DEF SocNext, Ask, Submit, Type, Reset, deviceVars
  <2>2. NoTransaction.busy = FALSE
    BY DEF NoTransaction
  <2>3. view' = view
    BY <2>1, <2>2
  <2> HIDE DEF view, StepOf
  <2> QED
    BY <1>1, <2>3
<1>4. BusIInv /\ [SocNext]_socVars
         => [(\E e \in BOOLEAN : StepOf(e)) \/ UNCHANGED deviceVars]_socVars
  BY <1>2, <1>3
<1> QED
  BY <1>4, BusInvariant, PTL DEF SocSpec, ImplementsDevice
-----------------------------------------------------------------------------
(* The words: what the memory, the registers and the test hold.            *)
\* A datum on its lanes is a word.
LEMMA PlaceWord ==
    ASSUME NEW w \in Widths, NEW a \in Nat, NEW d \in Word
    PROVE  Place(Parse(w, a), d) \in Word
<1>1. Parse(w, a).shift \in Nat
  <2>1. (a % 8) \div w \in Nat /\ w \in Nat
    BY DEF Widths
  <2> QED
    BY <2>1 DEF Parse
<1> DEFINE s == Parse(w, a).shift
<1> HIDE DEF s
<1>2. ASSUME NEW l \in Lane, l >= s PROVE d[l - s] \in Byte
  BY <1>1, <1>2 DEF Lane, Word, s
<1>3. 0 \in Byte
  BY DEF Byte
<1> QED
  BY <1>2, <1>3 DEF Place, Word, s

\* Masking, narrowing and shifting make words of words.
LEMMA WordOps ==
    ASSUME NEW d \in Word
    PROVE  /\ \A e \in Word, lanes \in SUBSET Int : Merge(d, e, lanes) \in Word
           /\ \A w : Narrow(w, d) \in Word
           /\ \A op : op.shift \in Int => Apply(op, d) \in Word
<1>1. 0 \in Byte
  BY DEF Byte
<1> QED
  BY <1>1 DEF Merge, Narrow, Apply, Word

LEMMA ZeroIsWord == ZeroWord \in Word
  BY DEF ZeroWord, Word, Byte

\* A byte in the lowest lane is a word.
LEMMA LowIsWord ==
    ASSUME NEW b \in Byte
    PROVE  Low8(b) \in Word
  BY ZeroIsWord DEF Low8, Word, Lane

\* A register holds a word, whatever is stored to it.
LEMMA KeptWord ==
    ASSUME NEW r, NEW d \in Word
    PROVE  Kept(r, d) \in Word
<1>1. AllOnes \in Word
  BY DEF AllOnes, Narrow, Word, Byte
<1>2. d[0] \in Byte /\ d[0] % 2 \in Byte
  BY DEF Word, Lane, Byte
<1>3. Narrow(4, [l \in Lane |-> d[(l + 2) % 4]]) \in Word
  <2>1. [l \in Lane |-> d[(l + 2) % 4]] \in Word
    BY DEF Word, Lane
  <2> QED
    BY <2>1, WordOps
<1>4. 0 \in Byte /\ 1 \in Byte
  BY DEF Byte
<1> QED
  BY <1>1, <1>2, <1>3, <1>4, LowIsWord DEF Kept

\* The registers after a reset hold words.
LEMMA ResetWords == RegReset \in [Registers -> Word]
<1>1. AllOnes \in Word /\ Narrow(2, AllOnes) \in Word
  BY DEF AllOnes, Narrow, Word, Byte
<1>2. Narrow(2, [l \in Lane |-> \haa]) \in Word
  BY DEF Narrow, Word, Byte
<1>3. Low8(255) \in Word /\ Low8(1) \in Word
  BY LowIsWord DEF Byte
<1> QED
  BY <1>1, <1>2, <1>3, ZeroIsWord DEF RegReset
-----------------------------------------------------------------------------
\* An address that the memory serves lies in it.
LEMMA MappedCell ==
    ASSUME NEW a \in Nat, Mapped(a), ServedBy(a) = "mem"
    PROVE  Translate(a) \div 8 \in 0 .. MemWords - 1
<1> DEFINE k == Search(a)
           I == {i \in 1 .. 3 : Matches(Layout[i], a)}
<1>1. k \in 1 .. 3 /\ Matches(Layout[k], a)
  <2>1. Search(a) = IF I # {} THEN Min(I) ELSE 0
    BY DEF Search, SelectInSeq, Layout
  <2>2. k > 0
    BY DEF Mapped
  <2>3. I # {}
    BY <2>1, <2>2
  <2>4. \E x \in I : \A y \in I : x <= y
    <3>1. CASE 1 \in I
      BY <3>1
    <3>2. CASE 1 \notin I /\ 2 \in I
      BY <3>2
    <3>3. CASE 1 \notin I /\ 2 \notin I
      BY <2>3, <3>3
    <3> QED
      BY <3>1, <3>2, <3>3
  <2>5. Min(I) \in I
    BY <2>4 DEF Min
  <2> QED
    BY <2>1, <2>3, <2>5
<1>2. Translate(a) = a - Layout[k].base
  BY DEF Translate
<1>3. a - Layout[k].base \in Nat
  <2>1. CASE k = 1
    <3>1. a \div 1048576 = 508 => a >= 532676608
      OBVIOUS
    <3>2. a \div 2^20 = \h1fc
      BY <1>1, <2>1 DEF Layout, BootWindow, Matches
    <3>3. Layout[k].base = \h1fc00000
      BY <2>1 DEF Layout, BootWindow
    <3> QED
      BY <3>1, <3>2, <3>3
  <2>2. CASE k # 1
    <3>1. Layout[k].base = 0
      BY <1>1, <2>2 DEF Layout, Devices, Elsewhere
    <3> QED
      BY <3>1
  <2> QED
    BY <2>1, <2>2
<1>4. Translate(a) \in 0 .. 8 * MemWords - 1
  BY <1>2, <1>3, MemAssumption DEF Mapped, BlockSize
<1> HIDE DEF k
<1> QED
  BY <1>4, MemAssumption
-----------------------------------------------------------------------------
\* While a transaction is on, its block is that of the oldest task's call.
InBlockOfCall ==
    tx.busy => tx.lower .. tx.upper - 1 = Covered(Head(ongoing).call)

HarnessIInv == BusIInv /\ FifoIInv /\ SocTypeOK /\ InBlockOfCall

\* A task is made of its call, whose block is mapped and whose data are words.
LEMMA CallOf ==
    ASSUME NEW t \in Tasks
    PROVE  /\ t.call \in Requests /\ t = TaskOf(t.call)
           /\ \A a \in Covered(t.call) : Mapped(a)
           /\ \A k \in 1 .. Len(t.data) : t.data[k] \in Word
           /\ Len(t.data) = Len(t.call.data)
<1>1. PICK i \in 1 .. Len(Calls) : \E c \in Calls[i] : t = TaskOf(c)
  BY DEF Tasks, AllCalls
<1>2. PICK c \in Calls[i] : t = TaskOf(c)
  BY <1>1
<1>3. c \in Requests /\ c \in UNION Range(Calls)
  <2>1. i \in DOMAIN Calls
    BY <1>1, SocAssumption
  <2> QED
    BY <1>1, <1>2, <2>1, SocAssumption DEF Range
<1>4. t.call = c /\ t.data = [k \in 1 .. Len(c.data) |-> Place(Parse(c.width, c.addr), c.data[k])]
  BY <1>2 DEF TaskOf, Beats
<1>5. \A a \in Covered(c) : Mapped(a)
  BY <1>3, CallsAssumption
<1>6. c.data \in Seq(Word) /\ c.width \in Widths /\ c.addr \in Nat /\ Len(c.data) \in Nat
  BY <1>3 DEF Requests
<1>7. \A k \in 1 .. Len(c.data) : Place(Parse(c.width, c.addr), c.data[k]) \in Word
  <2> TAKE k \in 1 .. Len(c.data)
  <2>1. c.data[k] \in Word
    BY <1>6
  <2> QED
    BY <1>6, <2>1, PlaceWord
<1>8. Len(t.data) = Len(c.data)
  BY <1>4, <1>6
<1> QED
  BY <1>2, <1>3, <1>4, <1>5, <1>7, <1>8

\* During a transaction the address of the beat is mapped.
LEMMA MappedNow ==
    ASSUME HarnessIInv, tx.busy
    PROVE  /\ ongoing # <<>> /\ Head(ongoing) \in Tasks /\ req = Issue(Head(ongoing))
           /\ tx.addr \in Nat /\ Mapped(tx.addr)
<1>1. ongoing # <<>> /\ Head(ongoing) \in Tasks /\ req = Issue(Head(ongoing))
  BY Waiting DEF HarnessIInv
<1>2. tx.addr \in tx.lower .. tx.upper - 1 /\ tx.addr \in Nat
  BY DEF HarnessIInv, BusIInv, DeviceAsserts, TxShape, Transaction
<1>3. tx.addr \in Covered(Head(ongoing).call)
  BY <1>2 DEF HarnessIInv, InBlockOfCall
<1> QED
  BY <1>1, <1>2, <1>3, CallOf

\* What is read is a word.
LEMMA ReadWord ==
    ASSUME HarnessIInv, tx.busy
    PROVE  ReadData \in Word
<1>1. tx.addr \in Nat /\ Mapped(tx.addr)
  BY MappedNow
<1>2. ServedBy(tx.addr) = "mem" => MemLoad(mem, tx.addr) \in Word
  <2>1. mem \in [0 .. MemWords - 1 -> Word]
    BY DEF HarnessIInv, SocTypeOK, BlockMemory
  <2> QED
    BY <1>1, <2>1, MappedCell DEF MemLoad
<1>3. ConLoad(con, ififo, tx.addr) \in Word
  <2>1. con.avail => Head(ififo) \in Byte
    BY SocAssumption DEF HarnessIInv, FifoIInv, FifoKept
  <2>2. con.regs \in [Registers -> Word]
    BY DEF HarnessIInv, SocTypeOK
  <2>3. 0 \in Byte /\ 1 \in Byte
    BY DEF Byte
  <2> QED
    BY <2>1, <2>2, <2>3, LowIsWord, ZeroIsWord DEF ConLoad
<1> QED
  BY <1>2, <1>3, ZeroIsWord DEF ReadData

\* What is written is a word.
LEMMA WrittenWord ==
    ASSUME HarnessIInv, tx.busy
    PROVE  WriteData \in Word /\ req.strobe \in SUBSET Int
<1> DEFINE t == Head(ongoing)
<1>1. t \in Tasks /\ req = Issue(t)
  BY MappedNow
<1>2. tx.n \in 1 .. Len(req.data)
  BY DEF HarnessIInv, BusIInv, DeviceAsserts
<1>3. req.data = t.data /\ req.strobe = t.strobe
  BY <1>1 DEF Issue
<1>4. t.strobe \in SUBSET Int
  <2>1. t.strobe = IF t.call.what = "store" THEN Strobe(Parse(t.call.width, t.call.addr)) ELSE {}
    <3>1. t = TaskOf(t.call)
      BY <1>1, CallOf
    <3> HIDE DEF t
    <3> QED
      BY <3>1 DEF TaskOf
  <2>2. \A op : op.shift \in Int /\ op.width \in Int => Strobe(op) \in SUBSET Int
    BY DEF Strobe
  <2>3. Parse(t.call.width, t.call.addr).shift \in Int /\ Parse(t.call.width, t.call.addr).width \in Int
    <3>1. t.call.width \in Widths /\ t.call.addr \in Nat
      BY <1>1, CallOf DEF Requests
    <3> HIDE DEF t
    <3> QED
      BY <3>1 DEF Parse, Widths
  <2> QED
    BY <2>1, <2>2, <2>3
<1> HIDE DEF t
<1>5. WriteData \in Word
  BY <1>1, <1>2, <1>3, CallOf DEF WriteData
<1> QED
  BY <1>3, <1>4, <1>5

\* What the test receives is a word.
LEMMA ReceivedWord ==
    ASSUME NEW t \in Tasks, NEW d \in Word
    PROVE  Received(t, d) \in Word
<1>1. t.call \in Requests /\ t = TaskOf(t.call)
  BY CallOf
<1>2. t.call.what \in {"load", "store", "expect", "get"} /\ t.call.width \in Widths /\ t.call.addr \in Nat
  BY <1>1 DEF Requests
<1>3. t.op = Parse(t.call.width, t.call.addr) /\ t.width = t.call.width
  BY <1>1 DEF TaskOf
<1>4. t.op.shift \in Int
  <2>1. t.op.shift = ((t.call.addr % 8) \div t.call.width) * t.call.width
    BY <1>3 DEF Parse
  <2> QED
    BY <1>2, <2>1 DEF Widths
<1>5. Narrow(t.width, Apply(t.op, d)) \in Word
  BY <1>4, WordOps
<1>6. Low8(0) \in Word /\ Low8(1) \in Word
  BY LowIsWord DEF Byte
<1> QED
  BY <1>2, <1>5, <1>6, ZeroIsWord DEF Received
-----------------------------------------------------------------------------
\* A clock edge keeps the transaction in the block of its call.
LEMMA BlockStays ==
    ASSUME HarnessIInv, Tick
    PROVE  InBlockOfCall'
<1>1. TxNext /\ ongoing' = Popped
  BY DEF Tick, DeviceTick
<1>2. CASE enable /\ ~tx.busy /\ req.valid
  <2> DEFINE t == Head(ongoing)
             c == t.call
  <2>1. tx' = Begin(req.addr, req.width, Len(req.data), req.write)
    BY <1>1, <1>2 DEF TxNext, Served
  <2>2. ongoing' = ongoing
    BY <1>1, <1>2 DEF Popped, DataOk, Served
  <2>3. t \in Tasks /\ req = Issue(t)
    BY <1>2, Waiting DEF HarnessIInv
  <2>4. t = TaskOf(c) /\ Len(t.data) = Len(c.data)
    BY <2>3, CallOf
  <2> HIDE DEF t
  <2>5. req.addr = c.addr /\ req.width = c.width /\ Len(req.data) = Len(c.data)
    <3>1. t.addr = c.addr /\ t.width = c.width
      <4> DEFINE k == t.call
      <4>1. t = TaskOf(k)
        BY <2>4
      <4> HIDE DEF k
      <4> QED
        BY <4>1 DEF TaskOf, k
    <3> QED
      BY <2>3, <2>4, <3>1 DEF Issue
  <2>6. tx'.lower .. tx'.upper - 1 = Covered(c)
    BY <2>1, <2>5 DEF Begin, Covered
  <2> QED
    BY <2>2, <2>6 DEF InBlockOfCall, t
<1>3. CASE Served /\ IsLast(tx)
  <2>1. tx' = NoTransaction
    BY <1>1, <1>3 DEF TxNext, Served
  <2> QED
    BY <2>1 DEF InBlockOfCall, NoTransaction
<1>4. CASE Served /\ ~IsLast(tx)
  <2>1. tx' = Advance(tx) /\ tx.busy
    BY <1>1, <1>4 DEF TxNext, Served
  <2>2. tx \in Transaction
    BY DEF HarnessIInv, BusIInv, TxShape
  <2>3. tx'.lower = tx.lower /\ tx'.upper = tx.upper
    BY <2>1, <2>2 DEF Advance, Transaction
  <2>4. ongoing' = ongoing
    BY <1>1, <1>4 DEF Popped, DataOk
  <2> QED
    BY <2>1, <2>3, <2>4 DEF InBlockOfCall, HarnessIInv
<1>5. CASE ~enable \/ (~tx.busy /\ ~req.valid)
  <2>1. tx' = tx /\ ongoing' = ongoing
    BY <1>1, <1>5 DEF TxNext, Served, Popped, DataOk
  <2> QED
    BY <2>1 DEF InBlockOfCall, HarnessIInv
<1> QED
  BY <1>2, <1>3, <1>4, <1>5 DEF Served

\* A clock edge keeps the types.
LEMMA TickTypes ==
    ASSUME HarnessIInv, Tick, BusIInv'
    PROVE  SocTypeOK'
<1>1. /\ SocTypeOK /\ BusIInv /\ FifoIInv
      /\ ongoing \in Seq(Tasks) /\ con \in [avail : BOOLEAN, regs : [Registers -> Word]]
      /\ mem \in BlockMemory /\ ififo \in Seq(Chars)
  BY DEF HarnessIInv, SocTypeOK
<1>2. /\ calls' = calls /\ typed' = typed /\ ongoing' = Popped /\ enable' \in BOOLEAN
      /\ ififo' = SyncFifo(ififo, Fetching)
      /\ con' = Sync(IF Storing("con") THEN ConStore(con, tx.addr, WriteData) ELSE con, ififo')
      /\ output' = IF Storing("con") THEN output \o Sends(tx.addr, WriteData) ELSE output
      /\ mem' = IF Storing("mem") THEN MemStore(mem, tx.addr, WriteData, req.strobe) ELSE mem
  BY DEF Tick, DeviceTick, MemNext, ConNext
<1>3. \A dev : Storing(dev) => WriteData \in Word /\ req.strobe \in SUBSET Int
  BY WrittenWord DEF Storing, Served
<1>4. ongoing' \in Seq(Tasks) /\ Len(ongoing') <= Depth
  <2>1. Len(ongoing) \in Nat /\ Len(ongoing) <= Depth /\ Depth \in Nat
    BY <1>1, SocAssumption DEF SocTypeOK
  <2>2. CASE req.valid /\ DataOk
    <3>1. ongoing # <<>>
      BY <1>1, <2>2, Waiting
    <3>2. Tail(ongoing) \in Seq(Tasks) /\ Len(Tail(ongoing)) = Len(ongoing) - 1
      BY <1>1, <3>1
    <3> QED
      BY <1>2, <2>1, <2>2, <3>2 DEF Popped
  <2>3. CASE ~(req.valid /\ DataOk)
    BY <1>1, <1>2, <2>1, <2>3 DEF Popped
  <2> QED
    BY <2>2, <2>3
<1>5. req' \in {NoReq} \cup {Issue(t) : t \in Tasks} /\ tx' \in Transaction
  BY DEF BusIInv, IssuedIsFront, TxShape
<1>6. mem' \in BlockMemory
  <2>1. ASSUME NEW m \in BlockMemory, NEW i, NEW d \in Word, NEW lanes \in SUBSET Int
        PROVE  [m EXCEPT ![i] = Merge(@, d, lanes)] \in BlockMemory
    BY <2>1, WordOps DEF BlockMemory
  <2> QED
    BY <1>1, <1>2, <1>3, <2>1 DEF MemStore
<1>7. con' \in [avail : BOOLEAN, regs : [Registers -> Word]]
  <2> DEFINE k == IF Storing("con") THEN ConStore(con, tx.addr, WriteData) ELSE con
             Regs == [avail : BOOLEAN, regs : [Registers -> Word]]
  <2>1. ASSUME NEW d \in Word PROVE ConStore(con, tx.addr, d) \in Regs
    <3>1. Kept(Offset(tx.addr), d) \in Word
      BY <2>1, KeptWord
    <3> QED
      BY <1>1, <3>1 DEF ConStore
  <2>2. k \in Regs
    BY <1>1, <1>3, <2>1
  <2>3. con' = Sync(k, ififo')
    BY <1>2
  <2> HIDE DEF k
  <2> QED
    BY <2>2, <2>3 DEF Sync
<1>8. ififo' \in Seq(Chars)
  BY <1>1, <1>2 DEF SyncFifo, Fetching, Fetches, FifoIInv, FifoKept
<1>9. output' \in Seq([port : {"pty"}, char : Byte] \cup [port : {"console"}, char : 0 .. 127])
  <2> DEFINE Out == [port : {"pty"}, char : Byte] \cup [port : {"console"}, char : 0 .. 127]
  <2>1. ASSUME NEW d \in Word PROVE Sends(tx.addr, d) \in Seq(Out)
    <3>1. d[0] \in Byte
      BY <2>1 DEF Word, Lane
    <3>2. [port |-> "pty", char |-> d[0]] \in Out
      BY <3>1
    <3>3. d[0] < 128 => [port |-> "console", char |-> d[0]] \in Out
      BY <3>1 DEF Byte
    <3> HIDE DEF Out
    <3> QED
      BY <3>2, <3>3 DEF Sends
  <2>2. output \in Seq(Out)
    BY <1>1 DEF SocTypeOK
  <2> HIDE DEF Out
  <2>3. output' \in Seq(Out)
    BY <1>2, <1>3, <2>1, <2>2
  <2> QED
    BY <2>3 DEF Out
<1>10. answer'.data \in Word
  <2>1. answer' = IF req.valid /\ Served
                  THEN [of |-> Head(ongoing).call, beat |-> tx.n,
                        data |-> Received(Head(ongoing), ReadData)]
                  ELSE answer
    BY DEF Tick, Deliver
  <2>2. ASSUME Served PROVE Received(Head(ongoing), ReadData) \in Word
    <3>1. Head(ongoing) \in Tasks /\ ReadData \in Word
      BY <2>2, MappedNow, ReadWord DEF Served
    <3> QED
      BY <3>1, ReceivedWord
  <2> QED
    BY <1>1, <2>1, <2>2 DEF SocTypeOK
<1> QED
  BY <1>1, <1>2, <1>4, <1>5, <1>6, <1>7, <1>8, <1>9, <1>10 DEF SocTypeOK

LEMMA HarnessStep == HarnessIInv /\ [SocNext]_socVars => HarnessIInv'
<1> SUFFICES ASSUME HarnessIInv, [SocNext]_socVars PROVE HarnessIInv'
  OBVIOUS
<1>1. BusIInv' /\ FifoIInv'
  BY BusStep, FifoStep DEF HarnessIInv
<1>2. SocTypeOK /\ InBlockOfCall /\ BusIInv
  BY DEF HarnessIInv
<1>3. req' \in {NoReq} \cup {Issue(t) : t \in Tasks} /\ tx' \in Transaction
      /\ ongoing' \in Seq(Tasks) /\ ififo' \in Seq(Chars)
  BY <1>1 DEF BusIInv, IssuedIsFront, TxShape, FifoIInv
<1>4. CASE Tick
  BY <1>1, <1>4, TickTypes, BlockStays DEF HarnessIInv
<1>5. CASE Ask
  <2>1. PICK c \in Calls[calls + 1] : Submit(c)
    BY <1>5 DEF Ask
  <2>2. TaskOf(c) \in Tasks
    BY <1>5, AskedTask DEF Ask, HarnessIInv, BusIInv
  <2> DEFINE t == TaskOf(c)
  <2>3. /\ calls < Len(Calls) /\ Len(ongoing) < Depth /\ calls' = calls + 1
        /\ ongoing' = Append(ongoing, t)
        /\ typed' = typed /\ enable' = enable /\ mem' = mem /\ con' = con
        /\ output' = output /\ answer' = answer /\ tx' = tx
    BY <1>5, <2>1 DEF Ask, Submit, deviceVars
  <2> HIDE DEF t
  <2>4. t \in Tasks
    BY <2>2 DEF t
  <2>5. calls' \in 0 .. Len(Calls) /\ Len(ongoing') <= Depth
    <3>1. Len(Calls) \in Nat /\ Depth \in Nat
      BY SocAssumption
    <3> QED
      BY <1>2, <2>3, <2>4, <3>1 DEF SocTypeOK
  <2>6. SocTypeOK'
    BY <1>2, <1>3, <2>3, <2>5 DEF SocTypeOK
  <2>7. InBlockOfCall'
    <3>1. tx.busy => ongoing # <<>>
      BY <1>2, Waiting
    <3>2. ongoing # <<>> => Head(ongoing') = Head(ongoing)
      BY <1>2, <2>3, <2>4 DEF SocTypeOK
    <3> QED
      BY <1>2, <2>3, <3>1, <3>2 DEF InBlockOfCall
  <2> QED
    BY <1>1, <2>6, <2>7 DEF HarnessIInv
<1>6. CASE \E ch \in Chars : Type(ch)
  <2>1. /\ typed < MaxTyped /\ typed' = typed + 1 /\ calls' = calls /\ ongoing' = ongoing
        /\ req' = req /\ answer' = answer /\ enable' = enable /\ tx' = tx /\ mem' = mem
        /\ con' = con /\ output' = output
    BY <1>6 DEF Type, clientVars
  <2>2. SocTypeOK'
    BY <1>2, <1>3, <2>1, SocAssumption DEF SocTypeOK
  <2>3. InBlockOfCall'
    BY <1>2, <2>1 DEF InBlockOfCall
  <2> QED
    BY <1>1, <2>2, <2>3 DEF HarnessIInv
<1>7. CASE Reset
  <2>1. /\ calls' = calls /\ ongoing' = ongoing /\ req' = req /\ answer' = answer
        /\ enable' = enable /\ output' = output /\ typed' = typed
        /\ tx' = NoTransaction /\ mem' = Image /\ con' = ConReset
    BY <1>7 DEF Reset, clientVars
  <2>2. Image \in BlockMemory /\ ConReset \in [avail : BOOLEAN, regs : [Registers -> Word]]
    BY ZeroIsWord, ResetWords DEF Image, BlockMemory, ConReset
  <2>3. SocTypeOK'
    BY <1>2, <1>3, <2>1, <2>2 DEF SocTypeOK
  <2>4. InBlockOfCall'
    BY <2>1 DEF InBlockOfCall, NoTransaction
  <2> QED
    BY <1>1, <2>3, <2>4 DEF HarnessIInv
<1>8. CASE UNCHANGED socVars
  BY <1>1, <1>2, <1>8 DEF socVars, clientVars, deviceVars, SocTypeOK, InBlockOfCall, HarnessIInv
<1> QED
  BY <1>4, <1>5, <1>6, <1>7, <1>8 DEF SocNext

LEMMA HarnessInit == SocInit => HarnessIInv
<1> SUFFICES ASSUME SocInit PROVE HarnessIInv
  OBVIOUS
<1>1. BusIInv
  BY BusInit
<1>2. FifoIInv
  BY DEF SocInit, ConReset, FifoIInv, FifoKept
<1>3. SocTypeOK
  <2>1. Image \in BlockMemory /\ ConReset \in [avail : BOOLEAN, regs : [Registers -> Word]]
    BY ZeroIsWord, ResetWords DEF Image, BlockMemory, ConReset
  <2>2. tx \in Transaction /\ ongoing \in Seq(Tasks) /\ calls \in Nat
    BY <1>1 DEF BusIInv, TxShape
  <2> QED
    BY <2>1, <2>2, SocAssumption, ZeroIsWord DEF SocInit, SocTypeOK
<1>4. InBlockOfCall
  BY DEF SocInit, InBlockOfCall, NoTransaction
<1> QED
  BY <1>1, <1>2, <1>3, <1>4 DEF HarnessIInv

\* Whatever the test asks for, every word stays a word, every list within its
\* bound and every cell of the memory in its place: no beat of a call whose
\* block is mapped falls outside the memory (BlockMemory::load, memory.cpp).
THEOREM SocTypes == SocSpec => []SocTypeOK
<1>1. HarnessIInv => SocTypeOK
  BY DEF HarnessIInv
<1> QED
  BY <1>1, HarnessInit, HarnessStep, PTL DEF SocSpec

\* No beat of any call falls outside what answers there: the assertions of
\* the memory, which end the test, never fail (memory.cpp).
THEOREM SocBeatsMapped == SocSpec => [](tx.busy => Mapped(tx.addr))
<1>1. HarnessIInv => (tx.busy => Mapped(tx.addr))
  BY MappedNow
<1> QED
  BY <1>1, HarnessInit, HarnessStep, PTL DEF SocSpec
-----------------------------------------------------------------------------
(* The harness and the abstract specification of it.                       *)

(* Quotients and remainders.                                               *)

\* Quotient and remainder of a number.
LEMMA Divided ==
    ASSUME NEW a \in Int, NEW d \in Nat \ {0}
    PROVE  a \div d \in Int /\ a % d \in 0 .. d - 1 /\ a = d * (a \div d) + (a % d)
<1>1. a \div d \in Int
  BY SMT
<1>2. a % d \in 0 .. d - 1
  BY SMT
<1>3. a = d * (a \div d) + (a % d)
  BY SMT
<1> QED
  BY <1>1, <1>2, <1>3, Zenon

\* They are the only ones.
LEMMA DividedOnce ==
    ASSUME NEW a \in Int, NEW d \in Nat \ {0}, NEW q \in Int, NEW r \in 0 .. d - 1,
           a = d * q + r
    PROVE  a \div d = q /\ a % d = r
<1> DEFINE p == a \div d
           s == a % d
<1>1. p \in Int /\ s \in 0 .. d - 1 /\ a = d * p + s
  BY Divided
<1> HIDE DEF p, s
<1>2. d * (p - q) = r - s
  BY <1>1
<1>3. p - q >= 1 => d * (p - q) >= d
  BY <1>1
<1>4. p - q <= -1 => d * (p - q) <= -d
  BY <1>1
<1>5. p = q
  BY <1>1, <1>2, <1>3, <1>4
<1> QED
  BY <1>1, <1>5 DEF p, s

\* A step of w through a cycle of m steps: one further, or back to the start.
LEMMA StepAround ==
    ASSUME NEW w \in Nat \ {0}, NEW m \in Nat \ {0}, NEW y \in Int
    PROVE  LET t == w * m
               r == (w * y) % t
           IN  (w * y + w) % t = IF r + w >= t THEN 0 ELSE r + w
<1> DEFINE t == w * m
           x == w * y
           q == x \div t
           r == x % t
           z == y - m * q
<1>1. t \in Nat \ {0} /\ x \in Int
  OBVIOUS
<1>2. q \in Int /\ r \in 0 .. t - 1 /\ x = t * q + r
  BY <1>1, Divided
<1> HIDE DEF q, r
<1>3. z \in Int /\ r = w * z
  BY <1>2
<1> HIDE DEF z
<1>4. w * z < w * m /\ w * z >= 0
  BY <1>2, <1>3
<1>5. z + 1 <= m
  <2>1. z >= m => w * z >= w * m
    BY <1>3
  <2> QED
    BY <1>3, <1>4, <2>1
<1>6. w * (z + 1) <= w * m
  BY <1>3, <1>5
<1>7. r + w <= t
  BY <1>3, <1>6
<1>8. CASE r + w = t
  <2>1. x + w = t * (q + 1) + 0
    BY <1>1, <1>2, <1>8
  <2>2. (x + w) % t = 0
    <3> HIDE DEF t, x
    <3>1. 0 \in 0 .. t - 1 /\ q + 1 \in Int /\ x + w \in Int
      BY <1>1, <1>2
    <3> QED
      BY <1>1, <2>1, <3>1, DividedOnce
  <2> QED
    BY <1>8, <2>2 DEF r
<1>9. CASE r + w < t
  <2>1. x + w = t * q + (r + w)
    BY <1>1, <1>2, <1>9
  <2>2. (x + w) % t = r + w
    <3> HIDE DEF t, x
    <3>1. r + w \in 0 .. t - 1 /\ x + w \in Int
      BY <1>1, <1>2, <1>9
    <3> QED
      BY <1>1, <1>2, <2>1, <3>1, DividedOnce
  <2> QED
    BY <1>2, <1>9, <2>2 DEF r
<1> QED
  BY <1>1, <1>2, <1>7, <1>8, <1>9

\* The bytes of an aligned datum are in one doubleword.
LEMMA Aligned ==
    ASSUME NEW w \in Widths, NEW a \in Nat, a % w = 0
    PROVE  /\ Parse(w, a) = [width |-> w, shift |-> a % 8]
           /\ a % 8 \in 0 .. 8 - w
<1>1. w \in {1, 2, 4, 8}
  BY DEF Widths
<1>2. ((a % 8) \div w) * w = a % 8 /\ a % 8 \in 0 .. 8 - w
  <2>1. CASE w = 1
    BY <2>1
  <2>2. CASE w = 2
    BY <2>2
  <2>3. CASE w = 4
    BY <2>3
  <2>4. CASE w = 8
    BY <2>4
  <2> QED
    BY <1>1, <2>1, <2>2, <2>3, <2>4
<1> QED
  BY <1>2 DEF Parse

\* A multiple, and what is a multiple.
LEMMA Multiple ==
    ASSUME NEW w \in Nat \ {0}
    PROVE  /\ \A z \in Int : (w * z) % w = 0
           /\ \A x \in Int : x % w = 0 => x \div w \in Int /\ x = w * (x \div w)
<1>1. ASSUME NEW z \in Int PROVE (w * z) % w = 0
  <2>1. w * z \in Int /\ w * z = w * z + 0 /\ 0 \in 0 .. w - 1
    OBVIOUS
  <2> QED
    BY <2>1, DividedOnce
<1>2. ASSUME NEW x \in Int, x % w = 0 PROVE x \div w \in Int /\ x = w * (x \div w)
  BY <1>2, Divided
<1> QED
  BY <1>1, <1>2

\* The remainder by w * m of a multiple of w is one.
LEMMA MultipleRest ==
    ASSUME NEW w \in Nat \ {0}, NEW m \in Nat \ {0}, NEW y \in Int
    PROVE  \E z \in Nat : (w * y) % (w * m) = w * z
<1> DEFINE t == w * m
           x == w * y
           q == x \div t
           r == x % t
           z == y - m * q
<1>1. t \in Nat \ {0} /\ x \in Int
  OBVIOUS
<1>2. q \in Int /\ r \in 0 .. t - 1 /\ x = t * q + r
  BY <1>1, Divided
<1> HIDE DEF q, r
<1>3. z \in Int /\ r = w * z
  BY <1>2
<1> HIDE DEF z
<1>4. z \in Nat
  <2>1. z <= -1 => w * z <= -w
    BY <1>3
  <2> QED
    BY <1>2, <1>3, <2>1
<1> QED
  BY <1>3, <1>4 DEF r

\* The beats of a call of the kind the theorem below is about.
Plain(c) ==
    /\ c.addr % c.width = 0
    /\ Len(c.data) > 1 => c.width = 8
    /\ \A k \in DOMAIN c.data : Narrow(c.width, c.data[k]) = c.data[k]

\* The block of a call, and the address of the first beat and of the next.
LEMMA BeatAddresses ==
    ASSUME NEW c \in Requests, Plain(c), NEW k \in Nat \ {0}
    PROVE  LET total == c.width * Len(c.data)
               lower == (c.addr \div total) * total
               next  == Serial!AddressOf(c, k) + c.width
           IN  /\ lower \in Nat
               /\ Serial!AddressOf(c, 1) = c.addr
               /\ Serial!AddressOf(c, k) \in Nat /\ Serial!AddressOf(c, k) % c.width = 0
               /\ Serial!AddressOf(c, k + 1) = IF next >= lower + total THEN lower ELSE next
<1> DEFINE w == c.width
           m == Len(c.data)
           a == c.addr
           t == w * m
           lower == (a \div t) * t
           s == a % t
<1>1. w \in Nat \ {0} /\ m \in Nat \ {0} /\ t \in Nat \ {0} /\ a \in Nat /\ a % w = 0
  BY Total DEF Requests, Plain
<1>2. Serial!AddressOf(c, k) =
        IF k = 1 THEN a ELSE a - s + ((a - 0 - (a - s) + (k - 1) * w) % t)
  BY <1>1 DEF Serial!AddressOf
<1>3. Serial!AddressOf(c, k + 1) = a - s + ((a - 0 - (a - s) + (k + 1 - 1) * w) % t)
  <2>1. k + 1 # 1
    OBVIOUS
  <2> QED
    BY <1>1, <2>1 DEF Serial!AddressOf
<1>4. Serial!AddressOf(c, 1) = a
  BY DEF Serial!AddressOf
<1> HIDE DEF w, m, a
<1>5. PICK y \in Int : a = w * y
  <2>1. a \div w \in Int /\ a = w * (a \div w)
    BY <1>1, Multiple
  <2> QED
    BY <2>1
<1>6. s \in 0 .. t - 1 /\ a \div t \in Int /\ a = t * (a \div t) + s
  <2> HIDE DEF t
  <2> QED
    BY <1>1, Divided
<1>7. lower = a - s /\ lower \in Nat
  <2>1. a \div t \in Nat /\ (a \div t) * t = t * (a \div t)
    <3> HIDE DEF t
    <3> QED
      BY <1>1, <1>6, InBlock
  <2> HIDE DEF t
  <2> QED
    BY <1>1, <1>6, <2>1, InBlock
<1>8. PICK z \in Nat : s = w * z
  <2>1. \E z \in Nat : (w * y) % (w * m) = w * z
    BY <1>1, MultipleRest
  <2> QED
    BY <1>5, <2>1
<1> HIDE DEF t, s, lower
<1>9. a - 0 - (a - s) = s
  BY <1>1, <1>6
<1>10. s = s % t
  <2>1. s \in Int /\ s = t * 0 + s
    BY <1>1, <1>6
  <2> QED
    BY <1>1, <1>6, <2>1, DividedOnce
<1>11. Serial!AddressOf(c, k) = lower + ((s + (k - 1) * w) % t)
  BY <1>1, <1>2, <1>6, <1>7, <1>9, <1>10
<1>12. Serial!AddressOf(c, k + 1) = lower + ((s + k * w) % t)
  BY <1>1, <1>3, <1>6, <1>7, <1>9
<1> DEFINE x == z + k - 1
<1>13. x \in Int /\ s + (k - 1) * w = w * x /\ s + k * w = w * x + w
  BY <1>1, <1>8
<1> HIDE DEF x
<1>14. PICK v \in Nat : (w * x) % t = w * v
  BY <1>1, <1>13, MultipleRest DEF t
<1>15. (w * x + w) % t = IF w * v + w >= t THEN 0 ELSE w * v + w
  <2>1. (w * x + w) % (w * m) =
          IF ((w * x) % (w * m)) + w >= w * m THEN 0 ELSE ((w * x) % (w * m)) + w
    BY <1>1, <1>13, StepAround
  <2> QED
    BY <1>14, <2>1 DEF t
<1>16. PICK u \in Int : lower = w * u
  <2>1. w * y - w * z = w * (y - z) /\ y - z \in Int
    BY <1>1
  <2>2. lower = w * y - w * z
    BY <1>5, <1>7, <1>8
  <2> QED
    BY <2>1, <2>2
<1>17. Serial!AddressOf(c, k) = lower + w * v
  BY <1>11, <1>13, <1>14
<1>18. Serial!AddressOf(c, k) % w = 0
  <2>1. lower + w * v = w * (u + v) /\ u + v \in Int
    BY <1>1, <1>16
  <2> QED
    BY <1>1, <1>17, <2>1, Multiple
<1>19. Serial!AddressOf(c, k) \in Nat
  <2>1. w * v \in Nat
    BY <1>1
  <2> QED
    BY <1>7, <1>17, <2>1
<1>20. Serial!AddressOf(c, k + 1) =
        IF Serial!AddressOf(c, k) + w >= lower + t THEN lower ELSE Serial!AddressOf(c, k) + w
  <2>1. w * v \in Nat
    BY <1>1
  <2> QED
    BY <1>1, <1>7, <1>12, <1>13, <1>15, <1>17, <2>1
<1> QED
  BY <1>4, <1>7, <1>18, <1>19, <1>20 DEF lower, t, w, m, a

-----------------------------------------------------------------------------
\* The abstract specification's registers and words are those of the harness.
LEMMA SerialNames ==
    /\ Serial!Lane = Lane /\ Serial!ZeroWord = ZeroWord /\ Serial!BlockSize = BlockSize
    /\ Serial!Registers = Registers /\ Serial!UartData = UartData
    /\ Serial!RegReset = RegReset
    /\ \A a : Serial!Offset(a) = Offset(a)
    /\ \A b : Serial!Low8(b) = Low8(b)
    /\ \A w, d : Serial!Narrow(w, d) = Narrow(w, d)
    /\ \A r, d : Serial!Kept(r, d) = Kept(r, d)
    /\ \A a, d : Serial!Sends(a, d) = Sends(a, d)
<1>1. Serial!Lane = Lane /\ Serial!BlockSize = BlockSize
  BY DEF Serial!Lane, Lane, Serial!BlockSize, BlockSize
<1>2. Serial!ZeroWord = ZeroWord
  BY <1>1 DEF Serial!ZeroWord, ZeroWord
<1>3. \A b : Serial!Low8(b) = Low8(b)
  BY <1>2 DEF Serial!Low8, Low8
<1>4. \A w, d : Serial!Narrow(w, d) = Narrow(w, d)
  BY <1>1 DEF Serial!Narrow, Narrow
<1>5. Serial!AllOnes = AllOnes
  BY <1>1, <1>4 DEF Serial!AllOnes, AllOnes
<1>6. /\ Serial!UartData = UartData /\ Serial!Led = Led /\ Serial!Switch = Switch
      /\ Serial!SwInter = SwInter /\ Serial!SimuFlag = SimuFlag /\ Serial!Num = Num
      /\ Serial!OpenTrace = OpenTrace /\ Serial!NumMonitor = NumMonitor
      /\ Serial!VirtualUart = VirtualUart /\ Serial!IoSimu = IoSimu
      /\ \A a : Serial!Offset(a) = Offset(a)
  BY DEF Serial!UartData, UartData, Serial!Led, Led, Serial!Switch, Switch, Serial!SwInter,
         SwInter, Serial!SimuFlag, SimuFlag, Serial!Num, Num, Serial!OpenTrace, OpenTrace,
         Serial!NumMonitor, NumMonitor, Serial!VirtualUart, VirtualUart, Serial!IoSimu,
         IoSimu, Serial!Offset, Offset
<1>7. Serial!Registers = Registers
  <2>1. Serial!Crs = Crs
    BY DEF Serial!Crs, Crs
  <2>2. Serial!Others = Others
    BY <1>6 DEF Serial!Others, Others
  <2> QED
    BY <2>1, <2>2 DEF Serial!Registers, Registers
<1>8. Serial!RegReset = RegReset
  BY <1>1, <1>2, <1>3, <1>4, <1>5, <1>6, <1>7 DEF Serial!RegReset, RegReset
<1>9. \A r, d : Serial!Kept(r, d) = Kept(r, d)
  <2> TAKE r, d
  <2> QED
    BY <1>1, <1>2, <1>3, <1>4, <1>5, <1>6, Zenon DEF Serial!Kept, Kept
<1>10. \A a, d : Serial!Sends(a, d) = Sends(a, d)
  <2> TAKE a, d
  <2> QED
    BY <1>6, Zenon DEF Serial!Sends, Sends
<1> QED
  BY <1>1, <1>2, <1>3, <1>4, <1>6, <1>7, <1>8, <1>9, <1>10

\* Who answers at a mapped address, and where in the memory.
LEMMA Whereabouts ==
    ASSUME NEW a \in Nat, Mapped(a)
    PROVE  /\ ServedBy(a) = IF Serial!InMemory(a) THEN "mem" ELSE "con"
           /\ Serial!InMemory(a) => /\ Translate(a) = Serial!Local(a)
                                    /\ Serial!Local(a) \in 0 .. BlockSize - 1
                                    /\ Serial!Local(a) % 8 = a % 8
<1> DEFINE k == Search(a)
           I == {i \in 1 .. 3 : Matches(Layout[i], a)}
<1>1. k \in I /\ \A i \in I : k <= i
  <2>1. Search(a) = IF I # {} THEN Min(I) ELSE 0
    BY DEF Search, SelectInSeq, Layout
  <2>2. k > 0
    BY DEF Mapped
  <2>3. I # {}
    BY <2>1, <2>2
  <2>4. \E x \in I : \A y \in I : x <= y
    <3>1. CASE 1 \in I
      BY <3>1
    <3>2. CASE 1 \notin I /\ 2 \in I
      BY <3>2
    <3>3. CASE 1 \notin I /\ 2 \notin I
      BY <2>3, <3>3
    <3> QED
      BY <3>1, <3>2, <3>3
  <2>5. Min(I) \in I /\ \A y \in I : Min(I) <= y
    BY <2>4 DEF Min
  <2> QED
    BY <2>1, <2>3, <2>5
<1>2. /\ 1 \in I <=> a \div 1048576 = 508
      /\ 2 \in I <=> a \div 65536 = 8111
  <2>1. 1 \in I <=> a \div 2^20 = \h1fc
    BY DEF Layout, BootWindow, Matches
  <2>2. 2 \in I <=> a \div 2^16 = \h1faf
    BY DEF Layout, Devices, Matches
  <2> QED
    BY <2>1, <2>2
<1>3. /\ k = 1 => ServedBy(a) = "mem" /\ Translate(a) = a - 532676608
      /\ k = 2 => ServedBy(a) = "con"
      /\ k = 3 => ServedBy(a) = "mem" /\ Translate(a) = a
  <2>1. k = 1 => ServedBy(a) = "mem" /\ Translate(a) = a - \h1fc00000
    BY DEF ServedBy, Translate, Layout, BootWindow
  <2>2. k = 2 => ServedBy(a) = "con"
    BY DEF ServedBy, Layout, Devices
  <2>3. k = 3 => ServedBy(a) = "mem" /\ Translate(a) = a - 0
    BY DEF ServedBy, Translate, Layout, Elsewhere
  <2> QED
    BY <2>1, <2>2, <2>3
<1>4. ServedBy(a) = "mem" => Translate(a) < BlockSize
  BY DEF Mapped
<1>5. /\ Serial!InMemory(a) <=> a \div 65536 # 8111
      /\ Serial!Local(a) = IF a \div 1048576 = 508 THEN a - 532676608 ELSE a
  <2>1. Serial!InMemory(a) <=> a \div 2^16 # \h1faf
    BY DEF Serial!InMemory
  <2>2. Serial!Local(a) = IF a \div 2^20 = \h1fc THEN a - \h1fc00000 ELSE a
    BY DEF Serial!Local
  <2> QED
    BY <2>1, <2>2
<1>6. k \in 1 .. 3 /\ (1 \in I => k = 1) /\ (2 \in I /\ 1 \notin I => k = 2)
      /\ (1 \notin I /\ 2 \notin I => k = 3)
  BY <1>1
<1>7. a \div 1048576 = 508 => a \div 65536 # 8111 /\ a >= 532676608
      /\ (a - 532676608) % 8 = a % 8
  OBVIOUS
<1> HIDE DEF I, k
<1>8. BlockSize \in Nat
  BY MemAssumption DEF BlockSize
<1> QED
  BY <1>2, <1>3, <1>4, <1>5, <1>6, <1>7, <1>8

-----------------------------------------------------------------------------
(* Lanes.  A datum of w bytes goes through the bus at a shift.              *)
Op(w, s) == [width |-> w, shift |-> s]

\* What apply makes of a word: its bytes from the shift on.
LEMMA Taken ==
    ASSUME NEW w \in Widths, NEW s \in 0 .. 8 - w, NEW d
    PROVE  Narrow(w, Apply(Op(w, s), d)) = [l \in Lane |-> IF l < w THEN d[l + s] ELSE 0]
<1>1. w \in 1 .. 8
  BY DEF Widths
<1>2. Op(w, s) # Discard /\ Op(w, s).shift = s
  BY <1>1 DEF Op, Discard
<1>3. \A l \in Lane : l < w => l + s \in Lane
  BY <1>1 DEF Lane
<1> DEFINE o == Op(w, s)
<1> HIDE DEF o
<1>4. \A l \in Lane : l < w => Apply(o, d)[l] = d[l + s]
  BY <1>2, <1>3 DEF Apply, o
<1>5. \A l \in Lane : (IF l < w THEN Apply(o, d)[l] ELSE 0) = IF l < w THEN d[l + s] ELSE 0
  BY <1>4
<1> QED
  BY <1>5 DEF Narrow, o

\* A comparison under the mask compares the data.
LEMMA Compared ==
    ASSUME NEW w \in Widths, NEW s \in 0 .. 8 - w, NEW d, NEW v
    PROVE  (\A l \in Strobe(Op(w, s)) : d[l] = Place(Op(w, s), v)[l])
             <=> Narrow(w, Apply(Op(w, s), d)) = Narrow(w, v)
<1>1. w \in 1 .. 8
  BY DEF Widths
<1>2. Strobe(Op(w, s)) = s .. s + w - 1
  BY DEF Strobe, Op
<1>3. \A l \in s .. s + w - 1 : Place(Op(w, s), v)[l] = v[l - s]
  <2>1. Op(w, s).shift = s
    BY DEF Op
  <2>2. \A l \in s .. s + w - 1 : l \in Lane /\ l >= s
    BY <1>1 DEF Lane
  <2> DEFINE o == Op(w, s)
  <2> HIDE DEF o
  <2> QED
    BY <2>1, <2>2 DEF Place, o
<1>4. (\A l \in s .. s + w - 1 : d[l] = v[l - s]) <=> \A l \in 0 .. w - 1 : d[l + s] = v[l]
  <2>1. ASSUME \A l \in s .. s + w - 1 : d[l] = v[l - s], NEW l \in 0 .. w - 1
        PROVE  d[l + s] = v[l]
    <3>1. l + s \in s .. s + w - 1 /\ (l + s) - s = l
      BY <1>1
    <3> QED
      BY <2>1, <3>1
  <2>2. ASSUME \A l \in 0 .. w - 1 : d[l + s] = v[l], NEW l \in s .. s + w - 1
        PROVE  d[l] = v[l - s]
    <3>1. l - s \in 0 .. w - 1 /\ (l - s) + s = l
      BY <1>1
    <3> QED
      BY <2>2, <3>1
  <2> QED
    BY <2>1, <2>2
<1> DEFINE F == [l \in Lane |-> IF l < w THEN d[l + s] ELSE 0]
           G == [l \in Lane |-> IF l < w THEN v[l] ELSE 0]
<1>5. F = G <=> \A l \in 0 .. w - 1 : d[l + s] = v[l]
  <2>1. \A l \in 0 .. w - 1 : l \in Lane /\ l < w
    BY <1>1 DEF Lane
  <2>2. \A l \in Lane : l < w => l \in 0 .. w - 1
    BY <1>1 DEF Lane
  <2>3. F = G => \A l \in 0 .. w - 1 : F[l] = G[l]
    OBVIOUS
  <2>4. \A l \in 0 .. w - 1 : F[l] = d[l + s] /\ G[l] = v[l]
    BY <2>1
  <2>5. (\A l \in 0 .. w - 1 : d[l + s] = v[l]) => F = G
    BY <2>2
  <2> HIDE DEF F, G
  <2> QED
    BY <2>3, <2>4, <2>5
<1>6. F = Narrow(w, Apply(Op(w, s), d)) /\ G = Narrow(w, v)
  BY Taken DEF Narrow
<1> HIDE DEF F, G
<1> QED
  BY <1>2, <1>3, <1>4, <1>5, <1>6

\* A datum no wider than its width is, on its lanes, the word of a register.
LEMMA Placed ==
    ASSUME NEW c, c.width \in Widths, NEW a \in Nat, a % 8 \in 0 .. 8 - c.width,
           NEW v, Narrow(c.width, v) = v
    PROVE  Place(Op(c.width, a % 8), v) = Serial!RegWord(c, a, v)
<1> DEFINE w == c.width
           s == a % 8
<1>1. w \in 1 .. 8 /\ s \in 0 .. 8 - w
  BY DEF Widths
<1>2. \A l \in Lane : l >= w => v[l] = 0
  BY <1>1 DEF Narrow, Lane
<1>3. Serial!RegWord(c, a, v) = [l \in Lane |-> IF l \in s .. s + w - 1 THEN v[l - s] ELSE 0]
  BY SerialNames DEF Serial!RegWord
<1>4. Place(Op(w, s), v) = [l \in Lane |-> IF l >= s THEN v[l - s] ELSE 0]
  BY DEF Place, Op
<1> HIDE DEF w, s
<1>5. \A l \in Lane : (IF l >= s THEN v[l - s] ELSE 0)
                         = IF l \in s .. s + w - 1 THEN v[l - s] ELSE 0
  <2> TAKE l \in Lane
  <2>1. l \in Int /\ (l >= s => l - s \in Lane)
    BY <1>1 DEF Lane
  <2>2. CASE l >= s + w
    <3>1. l - s >= w
      BY <1>1, <2>1, <2>2
    <3> QED
      BY <1>1, <1>2, <2>1, <2>2, <3>1
  <2>3. CASE ~(l >= s + w)
    BY <1>1, <2>1, <2>3
  <2> QED
    BY <2>2, <2>3
<1>6. Place(Op(w, s), v) = Serial!RegWord(c, a, v)
  BY <1>3, <1>4, <1>5
<1> QED
  BY <1>6 DEF w, s

\* The bytes of an aligned datum: their doubleword and their lanes.
LEMMA ByteAt ==
    ASSUME NEW w \in Widths, NEW b \in Nat, b % 8 \in 0 .. 8 - w, b < BlockSize
    PROVE  /\ b \div 8 \in 0 .. MemWords - 1
           /\ \A l \in 0 .. w - 1 : /\ b + l \in 0 .. BlockSize - 1
                                    /\ (b + l) \div 8 = b \div 8
                                    /\ (b + l) % 8 = (b % 8) + l
           /\ \A x \in 0 .. BlockSize - 1 :
                  x \in b .. b + w - 1 <=> /\ x \div 8 = b \div 8
                                          /\ x % 8 \in (b % 8) .. (b % 8) + w - 1
           /\ \A x \in 0 .. BlockSize - 1 : x \div 8 \in 0 .. MemWords - 1 /\ x % 8 \in Lane
<1>1. w \in 1 .. 8 /\ MemWords \in Nat /\ BlockSize = 8 * MemWords
  BY MemAssumption DEF Widths, BlockSize
<1>2. b \div 8 \in 0 .. MemWords - 1
  BY <1>1
<1>3. ASSUME NEW l \in 0 .. w - 1
      PROVE  b + l \in 0 .. BlockSize - 1 /\ (b + l) \div 8 = b \div 8 /\ (b + l) % 8 = (b % 8) + l
  BY <1>1
<1>4. ASSUME NEW x \in 0 .. BlockSize - 1
      PROVE  x \in b .. b + w - 1 <=> x \div 8 = b \div 8 /\ x % 8 \in (b % 8) .. (b % 8) + w - 1
  BY <1>1
<1>5. ASSUME NEW x \in 0 .. BlockSize - 1
      PROVE  x \div 8 \in 0 .. MemWords - 1 /\ x % 8 \in Lane
  BY <1>1 DEF Lane
<1> QED
  BY <1>2, <1>3, <1>4, <1>5

\* A store changes the bytes of its datum and no others.
LEMMA BytesStored ==
    ASSUME NEW m \in BlockMemory, NEW w \in Widths, NEW a \in Nat, Mapped(a),
           Serial!InMemory(a), a % 8 \in 0 .. 8 - w, NEW v \in Word
    PROVE  \A b \in 0 .. BlockSize - 1 :
               MemStore(m, a, Place(Op(w, a % 8), v), Strobe(Op(w, a % 8)))[b \div 8][b % 8]
                 = IF b \in Serial!Local(a) .. Serial!Local(a) + w - 1 THEN v[b - Serial!Local(a)]
                   ELSE m[b \div 8][b % 8]
<1> DEFINE s == a % 8
           x == Serial!Local(a)
           d == Place(Op(w, s), v)
           o == Op(w, s)
<1>1. w \in 1 .. 8 /\ s \in 0 .. 8 - w
  BY DEF Widths
<1>2. Translate(a) = x /\ x \in 0 .. BlockSize - 1 /\ x % 8 = s
  BY Whereabouts
<1>3. x \in Nat /\ x < BlockSize /\ x % 8 \in 0 .. 8 - w
  BY <1>1, <1>2, MemAssumption DEF BlockSize
<1>4. Strobe(o) = s .. s + w - 1 /\ o.shift = s
  BY DEF Strobe, Op
<1>5. MemStore(m, a, d, Strobe(o)) = [m EXCEPT ![x \div 8] = Merge(@, d, Strobe(o))]
  BY <1>2 DEF MemStore
<1>6. \A l \in Lane : l >= s => d[l] = v[l - s]
  BY <1>4 DEF Place
<1> HIDE DEF s, x, d, o
<1> SUFFICES ASSUME NEW b \in 0 .. BlockSize - 1
             PROVE  MemStore(m, a, d, Strobe(o))[b \div 8][b % 8]
                      = IF b \in x .. x + w - 1 THEN v[b - x] ELSE m[b \div 8][b % 8]
  BY DEF s, x, d, o
<1> DEFINE i == b \div 8
           l == b % 8
<1>7. /\ i \in 0 .. MemWords - 1 /\ l \in Lane
      /\ b \in x .. x + w - 1 <=> i = x \div 8 /\ l \in s .. s + w - 1
  BY <1>1, <1>2, <1>3, ByteAt
<1>8. b = 8 * i + l /\ x = 8 * (x \div 8) + s /\ i \in Int /\ l \in Int /\ x \div 8 \in Int
  BY <1>2, <1>3
<1> HIDE DEF i, l
<1>9. m[i] = m[i] /\ DOMAIN m = 0 .. MemWords - 1
  BY DEF BlockMemory
<1>10. CASE i = x \div 8
  <2>1. MemStore(m, a, d, Strobe(o))[i][l] = IF l \in s .. s + w - 1 THEN d[l] ELSE m[i][l]
    <3>1. MemStore(m, a, d, Strobe(o))[i] = Merge(m[i], d, Strobe(o))
      BY <1>5, <1>7, <1>9, <1>10
    <3>2. Merge(m[i], d, Strobe(o))[l] = IF l \in Strobe(o) THEN d[l] ELSE m[i][l]
      BY <1>7 DEF Merge
    <3> QED
      BY <1>4, <3>1, <3>2
  <2>2. l \in s .. s + w - 1 => d[l] = v[b - x]
    <3>1. l - s = b - x
      BY <1>1, <1>3, <1>8, <1>10
    <3> QED
      BY <1>1, <1>6, <1>7, <1>8, <3>1
  <2>3. MemStore(m, a, d, Strobe(o))[i][l] = IF b \in x .. x + w - 1 THEN v[b - x] ELSE m[i][l]
    BY <1>7, <1>10, <2>1, <2>2
  <2> QED
    BY <2>3 DEF i, l
<1>11. CASE i # x \div 8
  <2>1. MemStore(m, a, d, Strobe(o))[i][l] = m[i][l]
    BY <1>5, <1>7, <1>9, <1>11
  <2>2. MemStore(m, a, d, Strobe(o))[i][l] = IF b \in x .. x + w - 1 THEN v[b - x] ELSE m[i][l]
    BY <1>7, <1>11, <2>1
  <2> QED
    BY <2>2 DEF i, l
<1> QED
  BY <1>10, <1>11

\* What a load takes of the memory are the bytes at its address.
LEMMA BytesLoaded ==
    ASSUME NEW m \in BlockMemory, NEW w \in Widths, NEW a \in Nat, Mapped(a),
           Serial!InMemory(a), a % 8 \in 0 .. 8 - w
    PROVE  /\ Narrow(w, Apply(Op(w, a % 8), MemLoad(m, a)))
                = [l \in Lane |-> IF l < w THEN m[(Serial!Local(a) + l) \div 8][(Serial!Local(a) + l) % 8]
                                 ELSE 0]
           /\ \A l \in Lane : l < w => Serial!Local(a) + l \in 0 .. BlockSize - 1
<1> DEFINE x == Serial!Local(a)
           d == MemLoad(m, a)
<1>1. w \in 1 .. 8
  BY DEF Widths
<1>2. Translate(a) = x /\ x \in 0 .. BlockSize - 1 /\ x % 8 = a % 8
  BY Whereabouts
<1>3. x \in Nat /\ x < BlockSize
  BY <1>2, MemAssumption DEF BlockSize
<1>4. d = m[x \div 8]
  BY <1>2 DEF MemLoad
<1>5. Narrow(w, Apply(Op(w, a % 8), d)) = [l \in Lane |-> IF l < w THEN d[l + (a % 8)] ELSE 0]
  BY Taken
<1> HIDE DEF x, d
<1>6. ASSUME NEW l \in Lane, l < w
      PROVE  x + l \in 0 .. BlockSize - 1 /\ d[l + (a % 8)] = m[(x + l) \div 8][(x + l) % 8]
  <2>1. l \in 0 .. w - 1
    BY <1>1, <1>6 DEF Lane
  <2>2. x + l \in 0 .. BlockSize - 1 /\ (x + l) \div 8 = x \div 8 /\ (x + l) % 8 = (x % 8) + l
    BY <1>2, <1>3, <2>1, ByteAt
  <2>3. (x % 8) + l = l + (a % 8)
    BY <1>2, <2>1
  <2> QED
    BY <1>4, <2>2, <2>3
<1>7. [l \in Lane |-> IF l < w THEN d[l + (a % 8)] ELSE 0]
        = [l \in Lane |-> IF l < w THEN m[(x + l) \div 8][(x + l) % 8] ELSE 0]
  BY <1>6
<1> QED
  BY <1>5, <1>6, <1>7 DEF x, d

-----------------------------------------------------------------------------
\* A beat is where the abstract specification has it, and its block too.
BeatAt ==
    tx.busy =>
        LET c     == Head(ongoing).call
            total == c.width * Len(c.data)
        IN  /\ tx.addr = Serial!AddressOf(c, tx.n)
            /\ tx.lower = (c.addr \div total) * total /\ tx.upper = tx.lower + total
            /\ ~tx.aligned => tx.addr = tx.start

SerialIInv == HarnessIInv /\ BeatAt

\* What a task is made of, when its call is plain.
LEMMA PlainTask ==
    ASSUME PlainCalls, NEW t \in Tasks
    PROVE  /\ t.call \in Requests /\ Plain(t.call) /\ t.call \in AllCalls
           /\ t = TaskOf(t.call)
           /\ t.addr = t.call.addr /\ t.width = t.call.width
           /\ t.op = Op(t.call.width, t.call.addr % 8)
           /\ t.call.addr % 8 \in 0 .. 8 - t.call.width
           /\ t.data = [k \in 1 .. Len(t.call.data) |-> Place(t.op, t.call.data[k])]
           /\ t.strobe = IF t.call.what = "store" THEN Strobe(t.op) ELSE {}
           /\ Issue(t).write <=> t.call.what = "store"
<1>1. PICK i \in 1 .. Len(Calls) : \E c \in Calls[i] : t = TaskOf(c)
  BY DEF Tasks, AllCalls
<1>2. PICK c \in Calls[i] : t = TaskOf(c)
  BY <1>1
<1>3. c \in Requests /\ c \in AllCalls
  BY <1>1, <1>2, SocAssumption DEF AllCalls
<1>4. Plain(c)
  BY <1>3 DEF PlainCalls, Plain
<1>5. Parse(c.width, c.addr) = Op(c.width, c.addr % 8) /\ c.addr % 8 \in 0 .. 8 - c.width
  <2>1. c.width \in Widths /\ c.addr \in Nat /\ c.addr % c.width = 0
    BY <1>3, <1>4 DEF Requests, Plain
  <2> QED
    BY <2>1, Aligned DEF Op
<1>6. t = [addr |-> c.addr, width |-> c.width, call |-> c, op |-> Op(c.width, c.addr % 8),
           strobe |-> IF c.what = "store" THEN Strobe(Op(c.width, c.addr % 8)) ELSE {},
           data |-> [k \in 1 .. Len(c.data) |-> Place(Op(c.width, c.addr % 8), c.data[k])]]
  BY <1>2, <1>5 DEF TaskOf, Beats
<1>7. t.call = c
  BY <1>6
<1>8. Strobe(Op(c.width, c.addr % 8)) # {}
  <2>1. c.width \in 1 .. 8
    BY <1>3 DEF Requests, Widths
  <2>2. Strobe(Op(c.width, c.addr % 8)) = c.addr % 8 .. (c.addr % 8) + c.width - 1
    BY DEF Strobe, Op
  <2>3. c.addr % 8 \in c.addr % 8 .. (c.addr % 8) + c.width - 1
    BY <1>5, <2>1
  <2> QED
    BY <2>2, <2>3
<1>9. Issue(t).write <=> c.what = "store"
  BY <1>6, <1>8 DEF Issue
<1>10. /\ t.addr = c.addr /\ t.width = c.width /\ t.op = Op(c.width, c.addr % 8)
       /\ t.data = [k \in 1 .. Len(c.data) |-> Place(Op(c.width, c.addr % 8), c.data[k])]
       /\ t.strobe = IF c.what = "store" THEN Strobe(Op(c.width, c.addr % 8)) ELSE {}
  BY <1>6
<1> QED
  BY <1>2, <1>3, <1>4, <1>5, <1>7, <1>9, <1>10

\* The beat under way.
LEMMA BeatNow ==
    ASSUME PlainCalls, SerialIInv, tx.busy
    PROVE  LET t == Head(ongoing)
               c == t.call
           IN  /\ ongoing # <<>> /\ t \in Tasks /\ req = Issue(t) /\ req.valid
               /\ tx.write <=> c.what = "store"
               /\ tx.n \in 1 .. Len(c.data) /\ tx.length = Len(c.data)
               /\ tx.bytes = c.width /\ tx.start = c.addr
               /\ tx.addr \in Nat /\ Mapped(tx.addr)
               /\ tx.addr = Serial!AddressOf(c, tx.n)
               /\ tx.addr % 8 \in 0 .. 8 - c.width
               /\ t.op = Op(c.width, tx.addr % 8)
               /\ WriteData = Place(t.op, c.data[tx.n])
<1> DEFINE t == Head(ongoing)
           c == t.call
<1>1. ongoing # <<>> /\ t \in Tasks /\ req = Issue(t) /\ tx.addr \in Nat /\ Mapped(tx.addr)
  BY MappedNow DEF SerialIInv
<1>2. /\ req.valid /\ req.write = tx.write /\ req.width = tx.bytes
      /\ req.addr = tx.start /\ Len(req.data) = tx.length /\ tx.n \in 1 .. tx.length
  BY DEF SerialIInv, HarnessIInv, BusIInv, DeviceAsserts
<1>3. tx.addr = Serial!AddressOf(c, tx.n)
  BY DEF SerialIInv, BeatAt
<1> HIDE DEF t
<1>4. /\ c \in Requests /\ Plain(c) /\ t.addr = c.addr /\ t.width = c.width
      /\ t.op = Op(c.width, c.addr % 8) /\ c.addr % 8 \in 0 .. 8 - c.width
      /\ t.data = [k \in 1 .. Len(c.data) |-> Place(t.op, c.data[k])]
      /\ Issue(t).write <=> c.what = "store"
  BY <1>1, PlainTask
<1>5. Len(c.data) \in Nat \ {0} /\ c.width \in Widths /\ c.addr \in Nat
  BY <1>4, Total DEF Requests
<1>6. /\ Issue(t).width = c.width /\ Issue(t).addr = c.addr /\ Issue(t).data = t.data
      /\ Len(t.data) = Len(c.data)
  BY <1>4, <1>5 DEF Issue
<1>7. tx.n \in 1 .. Len(c.data) /\ tx.length = Len(c.data) /\ tx.bytes = c.width /\ tx.start = c.addr
  BY <1>1, <1>2, <1>6
<1>8. tx.addr % 8 = c.addr % 8
  <2>1. CASE Len(c.data) > 1
    <3>1. c.width = 8 /\ c.addr % 8 = 0
      BY <1>4, <2>1 DEF Plain
    <3>2. tx.n \in Nat \ {0}
      BY <1>5, <1>7
    <3>3. Serial!AddressOf(c, tx.n) % c.width = 0
      BY <1>4, <3>2, BeatAddresses
    <3> QED
      BY <1>3, <3>1, <3>3
  <2>2. CASE Len(c.data) = 1
    <3>1. tx.n = 1
      BY <1>7, <2>2
    <3>2. Serial!AddressOf(c, 1) = c.addr
      <4>1. 1 \in Nat \ {0}
        OBVIOUS
      <4> QED
        BY <1>4, <4>1, BeatAddresses
    <3> QED
      BY <1>3, <3>1, <3>2
  <2>3. Len(c.data) > 1 \/ Len(c.data) = 1
    <3> DEFINE m == Len(c.data)
    <3>1. m \in Nat \ {0}
      BY <1>5
    <3> HIDE DEF m
    <3>2. m > 1 \/ m = 1
      BY <3>1
    <3> QED
      BY <3>2 DEF m
  <2> QED
    BY <2>1, <2>2, <2>3
<1>9. WriteData = Place(t.op, c.data[tx.n])
  BY <1>1, <1>4, <1>6, <1>7 DEF WriteData
<1> QED
  BY <1>1, <1>2, <1>3, <1>4, <1>7, <1>8, <1>9 DEF t

\* A clock edge keeps the beat in its place.
LEMMA BeatTick ==
    ASSUME PlainCalls, SerialIInv, Tick
    PROVE  BeatAt'
<1>1. TxNext /\ ongoing' = Popped
  BY DEF Tick, DeviceTick
<1>2. CASE enable /\ ~tx.busy /\ req.valid
  <2> DEFINE t == Head(ongoing)
             c == t.call
             total == c.width * Len(c.data)
  <2>1. tx' = Begin(req.addr, req.width, Len(req.data), req.write) /\ ongoing' = ongoing
    BY <1>1, <1>2 DEF TxNext, Served, Popped, DataOk
  <2>2. t \in Tasks /\ req = Issue(t)
    BY <1>2, Waiting DEF SerialIInv, HarnessIInv
  <2> HIDE DEF t
  <2>3. t.addr = c.addr /\ t.width = c.width /\ c \in Requests /\ Plain(c)
        /\ t.data = [k \in 1 .. Len(c.data) |-> Place(t.op, c.data[k])]
    BY <2>2, PlainTask
  <2>4. Len(t.data) = Len(c.data)
    <3>1. Len(c.data) \in Nat
      BY <2>3, Total
    <3> QED
      BY <2>3, <3>1
  <2>5. req.addr = c.addr /\ req.width = c.width /\ Len(req.data) = Len(c.data)
    BY <2>2, <2>3, <2>4 DEF Issue
  <2> HIDE DEF c
  <2>6. tx'.addr = c.addr /\ tx'.n = 1 /\ tx'.start = c.addr
        /\ tx'.lower = (c.addr \div total) * total /\ tx'.upper = tx'.lower + total
    BY <2>1, <2>5 DEF Begin
  <2>7. Serial!AddressOf(c, 1) = c.addr
    <3>1. 1 \in Nat \ {0}
      OBVIOUS
    <3> QED
      BY <2>3, <3>1, BeatAddresses
  <2>8. Head(ongoing').call = c
    BY <2>1 DEF c, t
  <2> QED
    BY <2>6, <2>7, <2>8 DEF BeatAt
<1>3. CASE Served /\ IsLast(tx)
  BY <1>1, <1>3 DEF TxNext, Served, BeatAt, NoTransaction
<1>4. CASE Served /\ ~IsLast(tx)
  <2> DEFINE c == Head(ongoing).call
             total == c.width * Len(c.data)
             next == tx.addr + tx.bytes
  <2>1. tx' = Advance(tx) /\ tx.busy /\ ongoing' = ongoing
    BY <1>1, <1>4 DEF TxNext, Served, Popped, DataOk
  <2>2. /\ Head(ongoing) \in Tasks /\ tx.n \in 1 .. Len(c.data) /\ tx.bytes = c.width
        /\ tx.start = c.addr /\ tx.addr = Serial!AddressOf(c, tx.n)
    BY <2>1, BeatNow
  <2>3. c \in Requests /\ Plain(c)
    BY <2>2, PlainTask
  <2>4. /\ tx.lower = (c.addr \div total) * total /\ tx.upper = tx.lower + total
        /\ ~tx.aligned => tx.addr = tx.start
    BY <2>1 DEF SerialIInv, BeatAt
  <2>5. tx \in Transaction
    BY DEF SerialIInv, HarnessIInv, BusIInv, TxShape
  <2>6. AlignedAddress(tx) = tx.start
    <3> DEFINE w == c.width
               a == c.addr
    <3>1. w \in Nat \ {0} /\ a \in Int /\ a % w = 0
      BY <2>3, Total DEF Requests, Plain
    <3> HIDE DEF w, a
    <3>2. a \div w \in Int /\ a = w * (a \div w)
      BY <3>1, Multiple
    <3>3. (a \div w) * w = a
      BY <3>1, <3>2
    <3> QED
      BY <2>2, <3>3 DEF AlignedAddress, w, a
  <2>7. (IF tx.aligned THEN tx.addr ELSE AlignedAddress(tx)) + tx.bytes = next
    BY <2>4, <2>6
  <2>8. tx' = [tx EXCEPT !.n = tx.n + 1, !.aligned = TRUE,
                         !.addr = IF next >= tx.upper THEN tx.lower ELSE next]
    BY <2>1, <2>7 DEF Advance
  <2> HIDE DEF c, next
  <2>9. /\ tx'.n = tx.n + 1 /\ tx'.aligned /\ tx'.lower = tx.lower /\ tx'.upper = tx.upper
        /\ tx'.addr = IF next >= tx.upper THEN tx.lower ELSE next
    BY <2>5, <2>8 DEF Transaction
  <2>10. Serial!AddressOf(c, tx.n + 1) =
           IF Serial!AddressOf(c, tx.n) + c.width >= (c.addr \div total) * total + total
           THEN (c.addr \div total) * total ELSE Serial!AddressOf(c, tx.n) + c.width
    <3>1. tx.n \in Nat \ {0}
      <4>1. Len(c.data) \in Nat
        BY <2>3, Total
      <4> QED
        BY <2>2, <4>1
    <3> QED
      BY <2>3, <3>1, BeatAddresses
  <2>11. tx'.addr = Serial!AddressOf(c, tx'.n)
    BY <2>2, <2>4, <2>9, <2>10 DEF next
  <2> QED
    BY <2>1, <2>4, <2>9, <2>11 DEF BeatAt, c
<1>5. CASE ~enable \/ (~tx.busy /\ ~req.valid)
  <2>1. tx' = tx /\ ongoing' = ongoing
    BY <1>1, <1>5 DEF TxNext, Served, Popped, DataOk
  <2> QED
    BY <2>1 DEF BeatAt, SerialIInv
<1> QED
  BY <1>2, <1>3, <1>4, <1>5 DEF Served

\* What else happens leaves it where it is.
LEMMA SerialStep ==
    ASSUME PlainCalls
    PROVE  SerialIInv /\ [SocNext]_socVars => SerialIInv'
<1> SUFFICES ASSUME SerialIInv, [SocNext]_socVars PROVE BeatAt'
  BY HarnessStep DEF SerialIInv
<1>1. CASE Tick
  BY <1>1, BeatTick
<1>2. CASE Ask
  <2>1. PICK c \in Calls[calls + 1] : Submit(c)
    BY <1>2 DEF Ask
  <2>2. tx' = tx /\ ongoing' = Append(ongoing, TaskOf(c))
    BY <2>1 DEF Submit, deviceVars
  <2>3. ongoing \in Seq(Tasks) /\ (tx.busy => ongoing # <<>>)
    BY Waiting DEF SerialIInv, HarnessIInv, BusIInv
  <2>4. ongoing # <<>> => Head(ongoing') = Head(ongoing)
    BY <2>2, <2>3
  <2> QED
    BY <2>2, <2>3, <2>4 DEF SerialIInv, BeatAt
<1>3. CASE \E ch \in Chars : Type(ch)
  BY <1>3 DEF Type, clientVars, SerialIInv, BeatAt
<1>4. CASE Reset
  BY <1>4 DEF Reset, NoTransaction, BeatAt
<1>5. CASE UNCHANGED socVars
  BY <1>5 DEF socVars, clientVars, deviceVars, SerialIInv, BeatAt
<1> QED
  BY <1>1, <1>2, <1>3, <1>4, <1>5 DEF SocNext

-----------------------------------------------------------------------------
(* The step of the abstract specification that each step is.               *)
Work  == [i \in DOMAIN ongoing |-> ongoing[i].call]
Beat  == IF tx.busy THEN tx.n - 1 ELSE 0
Bytes == [b \in 0 .. BlockSize - 1 |-> Cell(b)]

\* The calls of the tasks that are left, and of those that are added.
LEMMA WorkParts ==
    ASSUME NEW q \in Seq(Tasks)
    PROVE  LET W(s) == [i \in DOMAIN s |-> s[i].call]
           IN  /\ W(q) = <<>> <=> q = <<>>
               /\ q # <<>> => Head(W(q)) = Head(q).call /\ W(Tail(q)) = Tail(W(q))
               /\ \A t \in Tasks : W(Append(q, t)) = Append(W(q), t.call)
<1> DEFINE W(s) == [i \in DOMAIN s |-> s[i].call]
           C == {t.call : t \in Tasks}
<1>1. ASSUME NEW s \in Seq(Tasks)
      PROVE  W(s) \in Seq(C) /\ Len(W(s)) = Len(s) /\ \A i \in 1 .. Len(s) : W(s)[i] = s[i].call
  <2>1. DOMAIN s = 1 .. Len(s) /\ Len(s) \in Nat
    OBVIOUS
  <2>2. \A i \in 1 .. Len(s) : s[i].call \in C
    OBVIOUS
  <2>3. W(s) = [i \in 1 .. Len(s) |-> s[i].call]
    BY <2>1
  <2> HIDE DEF W, C
  <2> QED
    BY <2>1, <2>2, <2>3
<1>2. ASSUME NEW t \in Tasks PROVE t.call \in C
  OBVIOUS
<1> HIDE DEF W, C
<1>3. W(q) = <<>> <=> q = <<>>
  BY <1>1
<1>4. ASSUME q # <<>> PROVE Head(W(q)) = Head(q).call /\ W(Tail(q)) = Tail(W(q))
  <2>1. Tail(q) \in Seq(Tasks) /\ Len(Tail(q)) = Len(q) - 1 /\ Len(q) \in Nat \ {0}
        /\ \A i \in 1 .. Len(q) - 1 : Tail(q)[i] = q[i + 1]
    BY <1>4
  <2>2. W(q) \in Seq(C) /\ Len(W(q)) = Len(q) /\ W(q) # <<>>
    BY <1>1, <1>3, <1>4
  <2>3. Tail(W(q)) \in Seq(C) /\ Len(Tail(W(q))) = Len(q) - 1
        /\ \A i \in 1 .. Len(q) - 1 : Tail(W(q))[i] = W(q)[i + 1]
    BY <2>1, <2>2
  <2>4. W(Tail(q)) \in Seq(C) /\ Len(W(Tail(q))) = Len(q) - 1
        /\ \A i \in 1 .. Len(q) - 1 : W(Tail(q))[i] = Tail(q)[i].call
    BY <1>1, <2>1
  <2>5. \A i \in 1 .. Len(q) - 1 : i + 1 \in 1 .. Len(q) /\ W(q)[i + 1] = q[i + 1].call
    BY <1>1, <2>1
  <2>6. \A i \in 1 .. Len(q) - 1 : W(Tail(q))[i] = Tail(W(q))[i]
    BY <2>1, <2>3, <2>4, <2>5
  <2>7. W(Tail(q)) = Tail(W(q))
    BY <2>1, <2>3, <2>4, <2>6
  <2>8. Head(W(q)) = Head(q).call
    <3>1. 1 \in 1 .. Len(q)
      BY <2>1
    <3> QED
      BY <1>1, <1>4, <2>2, <3>1
  <2> QED
    BY <2>7, <2>8
<1>5. ASSUME NEW t \in Tasks PROVE W(Append(q, t)) = Append(W(q), t.call)
  <2> DEFINE p == Append(q, t)
             r == Append(W(q), t.call)
  <2>1. p \in Seq(Tasks) /\ Len(p) = Len(q) + 1 /\ Len(q) \in Nat /\ p[Len(q) + 1] = t
        /\ \A i \in 1 .. Len(q) : p[i] = q[i]
    OBVIOUS
  <2>2. W(q) \in Seq(C) /\ Len(W(q)) = Len(q) /\ t.call \in C
        /\ \A i \in 1 .. Len(q) : W(q)[i] = q[i].call
    BY <1>1, <1>2
  <2>3. r \in Seq(C) /\ Len(r) = Len(q) + 1 /\ r[Len(q) + 1] = t.call
        /\ \A i \in 1 .. Len(q) : r[i] = W(q)[i]
    BY <2>2
  <2> HIDE DEF p, r
  <2>4. W(p) \in Seq(C) /\ Len(W(p)) = Len(p) /\ \A i \in 1 .. Len(p) : W(p)[i] = p[i].call
    BY <1>1, <2>1
  <2>5. ASSUME NEW i \in 1 .. Len(q) + 1 PROVE W(p)[i] = r[i]
    <3>1. CASE i = Len(q) + 1
      BY <2>1, <2>3, <2>4, <3>1
    <3>2. CASE i \in 1 .. Len(q)
      BY <2>1, <2>2, <2>3, <2>4, <3>2
    <3> QED
      BY <2>1, <3>1, <3>2
  <2>6. W(p) = r
    BY <2>1, <2>3, <2>4, <2>5
  <2> QED
    BY <2>6 DEF p, r
<1> QED
  BY <1>3, <1>4, <1>5 DEF W

\* What the client makes of the answer is what the test is told.
LEMMA Told ==
    ASSUME PlainCalls, SerialIInv, tx.busy, NEW seen,
           answer' = [of |-> Head(ongoing).call, beat |-> tx.n,
                      data |-> Received(Head(ongoing), ReadData)],
           Head(ongoing).call.what # "store" =>
               seen = Narrow(Head(ongoing).call.width, Apply(Head(ongoing).op, ReadData))
    PROVE  Serial!Tell(Head(ongoing).call, tx.n, seen)
<1> DEFINE t == Head(ongoing)
           c == t.call
<1>1. t \in Tasks /\ t.op = Op(c.width, tx.addr % 8) /\ tx.addr % 8 \in 0 .. 8 - c.width
  BY BeatNow
<1> HIDE DEF t
<1>2. c \in Requests /\ t.width = c.width
      /\ t.data = [k \in 1 .. Len(c.data) |-> Place(t.op, c.data[k])]
  BY <1>1, PlainTask
<1>3. c.what \in {"load", "store", "expect", "get"} /\ c.width \in Widths
  BY <1>2 DEF Requests
<1>4. t.data[1] = Place(t.op, c.data[1])
  <2>1. 1 \in 1 .. Len(c.data)
    BY <1>2, Total
  <2> QED
    BY <1>2, <2>1
<1> DEFINE told == CASE c.what \in {"load", "get"} -> seen
                     [] c.what = "expect" -> Low8(IF seen = Narrow(c.width, c.data[1]) THEN 1 ELSE 0)
                     [] c.what = "store" -> ZeroWord
<1>5. Received(t, ReadData) = told
  <2>1. CASE c.what \in {"load", "get"}
    <3>1. Received(t, ReadData) = Narrow(t.width, Apply(t.op, ReadData))
      BY <2>1 DEF Received
    <3> QED
      BY <1>2, <2>1, <3>1 DEF t
  <2>2. CASE c.what = "expect"
    <3>1. Received(t, ReadData) =
            Low8(IF \A l \in Strobe(t.op) : ReadData[l] = t.data[1][l] THEN 1 ELSE 0)
      BY <2>2 DEF Received
    <3>2. (\A l \in Strobe(t.op) : ReadData[l] = t.data[1][l])
            <=> Narrow(c.width, Apply(t.op, ReadData)) = Narrow(c.width, c.data[1])
      <4> DEFINE w == c.width
                 s == tx.addr % 8
                 v == c.data[1]
      <4>1. w \in Widths /\ s \in 0 .. 8 - w /\ t.op = Op(w, s) /\ t.data[1] = Place(t.op, v)
        BY <1>1, <1>3, <1>4 DEF t
      <4> HIDE DEF w, s, v, c
      <4>2. (\A l \in Strobe(Op(w, s)) : ReadData[l] = Place(Op(w, s), v)[l])
              <=> Narrow(w, Apply(Op(w, s), ReadData)) = Narrow(w, v)
        BY <4>1, Compared
      <4>3. (\A l \in Strobe(t.op) : ReadData[l] = t.data[1][l])
              <=> Narrow(w, Apply(t.op, ReadData)) = Narrow(w, v)
        BY <4>1, <4>2
      <4> QED
        BY <4>3 DEF w, v
    <3>3. seen = Narrow(c.width, Apply(t.op, ReadData))
      BY <2>2 DEF t
    <3>4. told = Low8(IF seen = Narrow(c.width, c.data[1]) THEN 1 ELSE 0)
      BY <2>2
    <3> HIDE DEF told
    <3> QED
      BY <3>1, <3>2, <3>3, <3>4
  <2>3. CASE c.what = "store"
    BY <2>3 DEF Received
  <2> QED
    BY <1>3, <2>1, <2>2, <2>3
<1>6. answer' = [of |-> c, beat |-> tx.n, data |-> told]
  BY <1>5 DEF t
<1>7. Serial!ZeroWord = ZeroWord /\ (\A b : Serial!Low8(b) = Low8(b))
      /\ \A w, d : Serial!Narrow(w, d) = Narrow(w, d)
  BY SerialNames
<1>8. told = CASE c.what \in {"load", "get"} -> seen
               [] c.what = "expect" -> Serial!Low8(IF seen = Serial!Narrow(c.width, c.data[1]) THEN 1 ELSE 0)
               [] c.what = "store" -> Serial!ZeroWord
  BY <1>7
<1> HIDE DEF told, c
<1>9. Serial!Tell(c, tx.n, seen)
  BY <1>6, <1>8 DEF Serial!Tell
<1> QED
  BY <1>9 DEF c, t

\* What a tick in which the device serves does.
LEMMA ServedTick ==
    ASSUME PlainCalls, SerialIInv, Tick, Served
    PROVE  /\ tx.busy
           /\ answer' = [of |-> Head(ongoing).call, beat |-> tx.n,
                         data |-> Received(Head(ongoing), ReadData)]
           /\ ififo' = SyncFifo(ififo, Fetching)
           /\ con'.regs = (IF Storing("con") THEN ConStore(con, tx.addr, WriteData) ELSE con).regs
           /\ output' = IF Storing("con") THEN output \o Sends(tx.addr, WriteData) ELSE output
           /\ mem' = IF Storing("mem") THEN MemStore(mem, tx.addr, WriteData, req.strobe) ELSE mem
<1>1. tx.busy /\ req.valid
  BY BeatNow DEF Served
<1>2. answer' = [of |-> Head(ongoing).call, beat |-> tx.n,
                 data |-> Received(Head(ongoing), ReadData)]
  BY <1>1 DEF Tick, Deliver
<1> DEFINE k == IF Storing("con") THEN ConStore(con, tx.addr, WriteData) ELSE con
<1>3. /\ ififo' = SyncFifo(ififo, Fetching) /\ con' = Sync(k, ififo')
      /\ output' = IF Storing("con") THEN output \o Sends(tx.addr, WriteData) ELSE output
      /\ mem' = IF Storing("mem") THEN MemStore(mem, tx.addr, WriteData, req.strobe) ELSE mem
  BY DEF Tick, DeviceTick, MemNext, ConNext
<1> HIDE DEF k
<1>4. con'.regs = k.regs
  BY <1>3 DEF Sync
<1> QED
  BY <1>1, <1>2, <1>3, <1>4 DEF k

\* A beat on the memory.
LEMMA MemoryBeat ==
    ASSUME PlainCalls, SerialIInv, Tick, Served, Serial!InMemory(tx.addr)
    PROVE  Serial!PerformMemory(Head(ongoing).call, tx.addr, tx.n)
<1> DEFINE t == Head(ongoing)
           c == t.call
           a == tx.addr
<1>1. /\ t \in Tasks /\ req = Issue(t) /\ (tx.write <=> c.what = "store")
      /\ a \in Nat /\ Mapped(a) /\ a % 8 \in 0 .. 8 - c.width
      /\ t.op = Op(c.width, a % 8) /\ WriteData = Place(t.op, c.data[tx.n]) /\ tx.busy
  BY BeatNow DEF Served
<1>2. ServedBy(a) = "mem"
  BY <1>1, Whereabouts
<1>3. Served /\ ~Storing("con") /\ ~Fetching /\ (Storing("mem") <=> c.what = "store")
  BY <1>1, <1>2 DEF Storing, Fetching
<1>4. /\ answer' = [of |-> c, beat |-> tx.n, data |-> Received(t, ReadData)]
      /\ ififo' = ififo /\ con'.regs = con.regs /\ output' = output
      /\ mem' = IF c.what = "store" THEN MemStore(mem, a, WriteData, req.strobe) ELSE mem
  BY <1>3, ServedTick DEF SyncFifo
<1>5. mem \in BlockMemory
  BY DEF SerialIInv, HarnessIInv, SocTypeOK
<1> HIDE DEF t
<1>6. c \in Requests /\ t.strobe = (IF c.what = "store" THEN Strobe(t.op) ELSE {})
  BY <1>1, PlainTask
<1>7. c.width \in Widths
  BY <1>6 DEF Requests
<1> HIDE DEF c, a
<1>8. tx.n \in 1 .. Len(c.data)
  BY BeatNow DEF Served, c, t
<1>9. Serial!Tell(c, tx.n, Serial!MemoryValue(c, a))
  <2>1. c.what # "store" => ReadData = MemLoad(mem, a)
    BY <1>1, <1>2 DEF ReadData, a
  <2>2. Serial!MemoryValue(c, a) = Narrow(c.width, Apply(t.op, MemLoad(mem, a)))
    <3>1. /\ Narrow(c.width, Apply(Op(c.width, a % 8), MemLoad(mem, a)))
               = [l \in Lane |-> IF l < c.width
                                THEN mem[(Serial!Local(a) + l) \div 8][(Serial!Local(a) + l) % 8]
                                ELSE 0]
          /\ \A l \in Lane : l < c.width => Serial!Local(a) + l \in 0 .. BlockSize - 1
      BY <1>1, <1>5, <1>7, BytesLoaded DEF a
    <3>2. Serial!MemoryValue(c, a) =
            [l \in Lane |-> IF l < c.width THEN Bytes[Serial!Local(a) + l] ELSE 0]
      BY SerialNames DEF Serial!MemoryValue, Bytes
    <3>3. \A l \in Lane : l < c.width =>
            Bytes[Serial!Local(a) + l] = mem[(Serial!Local(a) + l) \div 8][(Serial!Local(a) + l) % 8]
      BY <3>1 DEF Bytes, Cell
    <3>4. Serial!MemoryValue(c, a)
            = [l \in Lane |-> IF l < c.width
                             THEN mem[(Serial!Local(a) + l) \div 8][(Serial!Local(a) + l) % 8]
                             ELSE 0]
      BY <3>2, <3>3
    <3> QED
      BY <1>1, <3>1, <3>4
  <2>3. Serial!Tell(Head(ongoing).call, tx.n, Serial!MemoryValue(c, a))
    BY <1>1, <1>4, <2>1, <2>2, Told DEF c, t
  <2> QED
    BY <2>3 DEF c, t
<1>10. IF c.what = "store" THEN Serial!StoreMemory(c, a, c.data[tx.n])
      ELSE Bytes' = Bytes /\ con'.regs = con.regs /\ output' = output
  <2>1. CASE c.what = "store"
    <3> DEFINE v == c.data[tx.n]
    <3>1. mem' = MemStore(mem, a, Place(Op(c.width, a % 8), v), Strobe(Op(c.width, a % 8)))
      BY <1>1, <1>4, <1>6, <2>1 DEF Issue
    <3>2. \A b \in 0 .. BlockSize - 1 :
             mem'[b \div 8][b % 8] = IF b \in Serial!Cells(c, a) THEN v[b - Serial!Local(a)]
                                    ELSE mem[b \div 8][b % 8]
      <4>1. a \in Nat /\ Mapped(a) /\ Serial!InMemory(a) /\ a % 8 \in 0 .. 8 - c.width
        BY <1>1 DEF a, c
      <4>2. v \in Word
        BY <1>6, <1>8 DEF Requests
      <4> HIDE DEF v
      <4>3. \A b \in 0 .. BlockSize - 1 :
               MemStore(mem, a, Place(Op(c.width, a % 8), v), Strobe(Op(c.width, a % 8)))[b \div 8][b % 8]
                 = IF b \in Serial!Local(a) .. Serial!Local(a) + c.width - 1 THEN v[b - Serial!Local(a)]
                   ELSE mem[b \div 8][b % 8]
        BY <1>5, <1>7, <4>1, <4>2, BytesStored
      <4> QED
        BY <3>1, <4>3 DEF Serial!Cells
    <3> HIDE DEF v
    <3>3. Bytes' = [b \in DOMAIN Bytes |-> IF b \in Serial!Cells(c, a) THEN v[b - Serial!Local(a)]
                                          ELSE Bytes[b]]
      BY <3>2 DEF Bytes, Cell
    <3>4. Serial!StoreMemory(c, a, v)
      BY <1>4, <3>3 DEF Serial!StoreMemory, Bytes
    <3> QED
      BY <2>1, <3>4 DEF v
  <2>2. CASE c.what # "store"
    BY <1>4, <2>2 DEF Bytes, Cell
  <2> QED
    BY <2>1, <2>2
<1>11. Serial!PerformMemory(c, a, tx.n)
  BY <1>4, <1>9, <1>10 DEF Serial!PerformMemory, Bytes, a
<1> QED
  BY <1>11 DEF a, c, t

\* A beat on the registers that does not read the terminal.
LEMMA RegisterBeat ==
    ASSUME PlainCalls, SerialIInv, Tick, Served, ~Serial!InMemory(tx.addr),
           Head(ongoing).call.what = "store" \/ Offset(tx.addr) # UartData
    PROVE  Serial!PerformRegister(Head(ongoing).call, tx.addr, tx.n)
<1> DEFINE t == Head(ongoing)
           c == t.call
           a == tx.addr
<1>1. /\ t \in Tasks /\ (tx.write <=> c.what = "store") /\ tx.n \in 1 .. Len(c.data)
      /\ a \in Nat /\ Mapped(a) /\ a % 8 \in 0 .. 8 - c.width
      /\ t.op = Op(c.width, a % 8) /\ WriteData = Place(t.op, c.data[tx.n]) /\ tx.busy
  BY BeatNow DEF Served
<1>2. ServedBy(a) = "con"
  BY <1>1, Whereabouts
<1>3. Served /\ ~Storing("mem") /\ ~Fetching /\ (Storing("con") <=> c.what = "store")
  BY <1>1, <1>2 DEF Storing, Fetching, Fetches
<1>4. /\ answer' = [of |-> c, beat |-> tx.n, data |-> Received(t, ReadData)]
      /\ ififo' = ififo /\ mem' = mem
      /\ con'.regs = (IF c.what = "store" THEN ConStore(con, a, WriteData) ELSE con).regs
      /\ output' = IF c.what = "store" THEN output \o Sends(a, WriteData) ELSE output
  BY <1>3, ServedTick DEF SyncFifo
<1>5. con \in [avail : BOOLEAN, regs : [Registers -> Word]]
  BY DEF SerialIInv, HarnessIInv, SocTypeOK
<1> HIDE DEF t
<1>6. c \in Requests /\ Plain(c)
  BY <1>1, PlainTask
<1>7. c.width \in Widths /\ c.data[tx.n] \in Word /\ Narrow(c.width, c.data[tx.n]) = c.data[tx.n]
  <2>1. c.width \in Widths /\ c.data \in Seq(Word)
    BY <1>6 DEF Requests
  <2> QED
    BY <1>1, <1>6, <2>1 DEF Plain
<1> HIDE DEF c, a
<1>8. Serial!Tell(c, tx.n, Serial!RegisterValue(c, a))
  <2>1. ASSUME c.what # "store"
        PROVE  Serial!RegisterValue(c, a) = Narrow(c.width, Apply(t.op, ReadData))
    <3> DEFINE s == a % 8
               w == c.width
               r == Offset(a)
               d == ConLoad(con, ififo, a)
    <3>1. ReadData = d
      BY <1>1, <1>2, <2>1 DEF ReadData, a
    <3>2. Serial!RegisterValue(c, a) =
            [l \in Lane |-> IF l < w /\ r \in Registers /\ l + s \in Lane THEN con.regs[r][l + s] ELSE 0]
      BY SerialNames DEF Serial!RegisterValue
    <3>3. s \in 0 .. 8 - w /\ w \in Widths /\ t.op = Op(w, s)
      BY <1>1, <1>7 DEF a
    <3>4. r # UartData
      BY <2>1 DEF a, c, t
    <3>5. r = 4116 => s = 4
      BY <1>1 DEF Offset, a
    <3>6. UartLsr = 4116 /\ UartLsr \notin Registers
      BY DEF UartLsr, Registers, Crs, Others, Led, Num, Switch, SwInter, IoSimu, VirtualUart,
             SimuFlag, OpenTrace, NumMonitor
    <3>7. /\ r = UartLsr => d = Low8(0) \/ d = Low8(1)
          /\ r # UartLsr /\ r \in Registers => d = con.regs[r]
          /\ r # UartLsr /\ r \notin Registers => d = ZeroWord
      BY <3>4, <3>6 DEF ConLoad
    <3> HIDE DEF s, w, r, d
    <3>8. w \in 1 .. 8
      BY <3>3 DEF Widths
    <3>9. ASSUME NEW l \in Lane
          PROVE  (IF l < w /\ r \in Registers /\ l + s \in Lane THEN con.regs[r][l + s] ELSE 0)
                   = IF l < w THEN d[l + s] ELSE 0
      <4>1. l < w => l + s \in Lane
        BY <3>3, <3>8 DEF Lane
      <4>2. CASE r = UartLsr
        <5>1. l < w => l + s \in Lane \ {0}
          BY <2>1, <3>3, <3>5, <3>6, <3>8, <4>2 DEF Lane
        <5>2. \A b : \A x \in Lane \ {0} : Low8(b)[x] = 0
          BY DEF Low8, ZeroWord, Lane
        <5>3. d = Low8(0) \/ d = Low8(1)
          BY <3>7, <4>2
        <5>4. l < w => d[l + s] = 0
          BY <5>1, <5>2, <5>3
        <5> QED
          BY <3>6, <4>2, <5>4
      <4>3. CASE r # UartLsr /\ r \in Registers
        BY <3>7, <4>1, <4>3
      <4>4. CASE r # UartLsr /\ r \notin Registers
        <5>1. d = ZeroWord
          BY <3>7, <4>4
        <5> QED
          BY <4>1, <4>4, <5>1 DEF ZeroWord
      <4> QED
        BY <4>2, <4>3, <4>4
    <3>10. Narrow(w, Apply(Op(w, s), d)) = [l \in Lane |-> IF l < w THEN d[l + s] ELSE 0]
      BY <3>3, Taken
    <3>11. Serial!RegisterValue(c, a) = Narrow(w, Apply(Op(w, s), d))
      BY <3>2, <3>9, <3>10
    <3> QED
      BY <3>1, <3>3, <3>11 DEF w
  <2>2. Serial!Tell(Head(ongoing).call, tx.n, Serial!RegisterValue(c, a))
    BY <1>1, <1>4, <2>1, Told DEF c, t
  <2> QED
    BY <2>2 DEF c, t
<1>9. IF c.what = "store" THEN Serial!StoreRegister(c, a, c.data[tx.n])
      ELSE Bytes' = Bytes /\ con'.regs = con.regs /\ output' = output
  <2>1. CASE c.what = "store"
    <3> DEFINE d == Serial!RegWord(c, a, c.data[tx.n])
               r == Offset(a)
    <3>1. WriteData = d
      BY <1>1, <1>7, Placed DEF a, c
    <3>2. /\ Serial!Offset(a) = r /\ Serial!Registers = Registers
          /\ Serial!Kept(r, d) = Kept(r, d) /\ Serial!Sends(a, d) = Sends(a, d)
      BY SerialNames
    <3> HIDE DEF d, r
    <3>3. con'.regs = (IF r \in Registers THEN [con EXCEPT !.regs[r] = Kept(r, d)] ELSE con).regs
      BY <1>4, <2>1, <3>1 DEF ConStore, r
    <3>4. con'.regs = [x \in Registers |-> IF x = r THEN Kept(r, d) ELSE con.regs[x]]
      BY <1>5, <3>3
    <3>5. output' = output \o Sends(a, d) /\ Bytes' = Bytes
      BY <1>4, <2>1, <3>1 DEF Bytes, Cell
    <3>6. con'.regs = [x \in Serial!Registers |->
                         IF x = Serial!Offset(a) THEN Serial!Kept(x, d) ELSE con.regs[x]]
      BY <3>2, <3>4
    <3> QED
      BY <2>1, <3>2, <3>5, <3>6 DEF Serial!StoreRegister, Bytes, d
  <2>2. CASE c.what # "store"
    BY <1>4, <2>2 DEF Bytes, Cell
  <2> QED
    BY <2>1, <2>2
<1>10. Serial!PerformRegister(c, a, tx.n)
  <2>1. c.what = "store" \/ Serial!Offset(a) # Serial!UartData
    BY SerialNames DEF c, t, a
  <2> QED
    BY <1>4, <1>8, <1>9, <2>1 DEF Serial!PerformRegister, Bytes, a
<1> QED
  BY <1>10 DEF a, c, t

\* A beat that reads the terminal: the first character, if it was announced.
LEMMA ReadBeat ==
    ASSUME PlainCalls, SerialIInv, Tick, Served, ~Serial!InMemory(tx.addr),
           Head(ongoing).call.what # "store", Offset(tx.addr) = UartData
    PROVE  Serial!PerformRead(Head(ongoing).call, tx.addr, tx.n)
<1> DEFINE t == Head(ongoing)
           c == t.call
           a == tx.addr
<1>1. /\ t \in Tasks /\ ~tx.write
      /\ a \in Nat /\ Mapped(a) /\ a % 8 \in 0 .. 8 - c.width
      /\ t.op = Op(c.width, a % 8) /\ tx.busy
  BY BeatNow DEF Served
<1>2. ServedBy(a) = "con"
  BY <1>1, Whereabouts
<1>3. Served /\ ~Storing("mem") /\ ~Storing("con") /\ (Fetching <=> con.avail)
  BY <1>1, <1>2 DEF Storing, Fetching, Fetches
<1>4. /\ answer' = [of |-> c, beat |-> tx.n, data |-> Received(t, ReadData)]
      /\ ififo' = (IF con.avail THEN Tail(ififo) ELSE ififo) /\ mem' = mem
      /\ con'.regs = con.regs /\ output' = output
  BY <1>3, ServedTick DEF SyncFifo
<1>5. con.avail => ififo # <<>>
  BY DEF SerialIInv, HarnessIInv, FifoIInv, FifoKept
<1>6. a % 8 = 0
  <2>1. a % 65536 = 4096
    BY DEF Offset, UartData
  <2> QED
    BY <1>1, <2>1
<1>7. ReadData = IF con.avail THEN Low8(Head(ififo)) ELSE ZeroWord
  <2>1. UartData # UartLsr
    BY DEF UartData, UartLsr
  <2>2. ReadData = ConLoad(con, ififo, a)
    BY <1>1, <1>2 DEF ReadData
  <2>3. ConLoad(con, ififo, a) =
          CASE UartData = UartLsr  -> Low8(IF con.avail THEN 1 ELSE 0)
            [] UartData = UartData -> IF con.avail THEN Low8(Head(ififo)) ELSE ZeroWord
            [] UartData \in Registers -> con.regs[UartData]
            [] OTHER -> ZeroWord
    BY Zenon DEF ConLoad
  <2>4. UartData \notin Registers
    BY DEF UartData, Registers, Crs, Others, Led, Num, Switch, SwInter, IoSimu, VirtualUart,
           SimuFlag, OpenTrace, NumMonitor
  <2> QED
    BY <2>1, <2>2, <2>3, <2>4
<1> HIDE DEF t
<1>8. c.width \in Widths
  BY <1>1, PlainTask DEF Requests
<1> HIDE DEF c, a
<1>9. \A b : Narrow(c.width, Apply(t.op, Low8(b))) = Low8(b)
      /\ Narrow(c.width, Apply(t.op, ZeroWord)) = ZeroWord
  <2>1. ASSUME NEW d, DOMAIN d = Lane, d = [l \in Lane |-> d[l]], \A l \in Lane : l >= 1 => d[l] = 0
        PROVE  Narrow(c.width, Apply(t.op, d)) = d
    <3>1. 0 \in 0 .. 8 - c.width /\ c.width \in 1 .. 8
      BY <1>8 DEF Widths
    <3>2. t.op = Op(c.width, 0)
      BY <1>1, <1>6 DEF a, c
    <3>3. Narrow(c.width, Apply(t.op, d)) = [l \in Lane |-> IF l < c.width THEN d[l + 0] ELSE 0]
      BY <1>8, <3>1, <3>2, Taken
    <3>4. \A l \in Lane : (IF l < c.width THEN d[l + 0] ELSE 0) = d[l]
      BY <2>1, <3>1 DEF Lane
    <3> QED
      BY <2>1, <3>3, <3>4
  <2>2. \A b : /\ DOMAIN Low8(b) = Lane /\ Low8(b) = [l \in Lane |-> Low8(b)[l]]
              /\ \A l \in Lane : l >= 1 => Low8(b)[l] = 0
    BY DEF Low8, ZeroWord, Lane
  <2>3. /\ DOMAIN ZeroWord = Lane /\ ZeroWord = [l \in Lane |-> ZeroWord[l]]
        /\ \A l \in Lane : l >= 1 => ZeroWord[l] = 0
    BY DEF ZeroWord
  <2> QED
    BY <2>1, <2>2, <2>3
<1>10. Serial!Tell(c, tx.n, ReadData)
  <2>1. ReadData = Narrow(c.width, Apply(t.op, ReadData))
    BY <1>7, <1>9
  <2> QED
    BY <1>1, <1>4, <2>1, Told DEF c, t
<1>11. Bytes' = Bytes
  BY <1>4 DEF Bytes, Cell
<1>12. /\ ~Serial!InMemory(a) /\ c.what # "store" /\ Serial!Offset(a) = Serial!UartData
       /\ Serial!ZeroWord = ZeroWord /\ \A b : Serial!Low8(b) = Low8(b)
  BY SerialNames DEF a, c, t
<1>13. Serial!PerformRead(c, a, tx.n)
  <2>1. CASE con.avail
    <3>1. ififo # <<>> /\ ififo' = Tail(ififo) /\ Serial!Tell(c, tx.n, Serial!Low8(Head(ififo)))
      BY <1>4, <1>5, <1>7, <1>10, <1>12, <2>1
    <3> QED
      BY <1>4, <1>11, <1>12, <3>1 DEF Serial!PerformRead, Bytes
  <2>2. CASE ~con.avail
    <3>1. ififo' = ififo /\ Serial!Tell(c, tx.n, Serial!ZeroWord)
      BY <1>4, <1>7, <1>10, <1>12, <2>2
    <3> QED
      BY <1>4, <1>11, <1>12, <3>1 DEF Serial!PerformRead, Bytes
  <2> QED
    BY <2>1, <2>2
<1> QED
  BY <1>13 DEF a, c, t

\* A tick in which the device serves performs one beat.
LEMMA BeatPerformed ==
    ASSUME PlainCalls, SerialIInv, Tick, Served
    PROVE  Serial!Perform
<1> DEFINE c == Head(ongoing).call
<1>1. /\ ongoing # <<>> /\ tx.busy /\ req.valid /\ tx.n \in 1 .. Len(c.data)
      /\ tx.length = Len(c.data) /\ tx.addr = Serial!AddressOf(c, tx.n)
  BY BeatNow DEF Served
<1>2. ongoing \in Seq(Tasks) /\ tx \in Transaction
  BY DEF SerialIInv, HarnessIInv, BusIInv, TxShape
<1>3. Work # <<>> /\ Head(Work) = c
  BY <1>1, <1>2, WorkParts DEF Work
<1>4. Beat + 1 = tx.n /\ tx.n \in Nat
  BY <1>1, <1>2 DEF Beat, Transaction
<1>5. \/ Serial!PerformMemory(c, tx.addr, tx.n)
      \/ Serial!PerformRegister(c, tx.addr, tx.n)
      \/ Serial!PerformRead(c, tx.addr, tx.n)
  BY MemoryBeat, RegisterBeat, ReadBeat
<1>6. TxNext /\ ongoing' = Popped
  BY DEF Tick, DeviceTick
<1>7. IF tx.n = Len(c.data) THEN Beat' = 0 /\ Work' = Tail(Work)
      ELSE Beat' = tx.n /\ Work' = Work
  <2>1. CASE IsLast(tx)
    <3>1. tx' = NoTransaction /\ ongoing' = Tail(ongoing)
      BY <1>1, <1>6, <2>1 DEF TxNext, Served, Popped, DataOk
    <3>2. Work' = Tail(Work)
      BY <1>1, <1>2, <3>1, WorkParts DEF Work
    <3>3. Beat' = 0
      BY <3>1 DEF Beat, NoTransaction
    <3> QED
      BY <1>1, <2>1, <3>2, <3>3 DEF IsLast
  <2>2. CASE ~IsLast(tx)
    <3>1. tx' = Advance(tx) /\ ongoing' = ongoing
      BY <1>1, <1>6, <2>2 DEF TxNext, Served, Popped, DataOk
    <3>2. tx'.n = tx.n + 1 /\ tx'.busy
      BY <1>1, <1>2, <3>1 DEF Advance, Transaction
    <3>3. Beat' = tx.n
      BY <1>4, <3>2 DEF Beat
    <3>4. Work' = Work
      BY <3>1 DEF Work
    <3> QED
      BY <1>1, <2>2, <3>3, <3>4 DEF IsLast
  <2> QED
    BY <2>1, <2>2
<1> HIDE DEF c
<1> DEFINE k == Beat + 1
           a == Serial!AddressOf(c, k)
<1>8. k = tx.n /\ a = tx.addr
  BY <1>1, <1>4
<1>9. /\ Work # <<>> /\ Head(Work) = c
      /\ Serial!PerformMemory(c, a, k) \/ Serial!PerformRegister(c, a, k) \/ Serial!PerformRead(c, a, k)
      /\ IF k = Len(c.data) THEN Beat' = 0 /\ Work' = Tail(Work) ELSE Beat' = k /\ Work' = Work
  BY <1>3, <1>5, <1>7, <1>8
<1> QED
  BY <1>9 DEF Serial!Perform, Work, Beat

\* After a reset every byte is zero.
LEMMA ImageZero ==
    \A b \in 0 .. BlockSize - 1 : Image[b \div 8][b % 8] = 0
<1> SUFFICES ASSUME NEW b \in 0 .. BlockSize - 1 PROVE Image[b \div 8][b % 8] = 0
  OBVIOUS
<1>1. b \div 8 \in 0 .. MemWords - 1 /\ b % 8 \in Lane
  BY MemAssumption DEF BlockSize, Lane
<1> QED
  BY <1>1 DEF Image, ZeroWord

\* What the abstract specification sees of the harness.
View == <<Work, Beat, Bytes, con.regs, ififo, output, answer>>

LEMMA ViewIsSerial == Serial!serialVars = View /\ (UNCHANGED Serial!serialVars <=> UNCHANGED View)
  BY DEF Serial!serialVars, View, Work, Beat, Bytes

\* A tick in which it does not serve is not seen.
LEMMA NothingSeen ==
    ASSUME SerialIInv, Tick, ~Served
    PROVE  UNCHANGED View
<1>1. /\ TxNext /\ ongoing' = ongoing /\ answer' = answer
      /\ ififo' = ififo /\ output' = output /\ mem' = mem /\ con' = Sync(con, ififo')
  BY DEF Tick, DeviceTick, MemNext, ConNext, Deliver, Popped, DataOk, Storing, Fetching, SyncFifo
<1>2. con'.regs = con.regs
  BY <1>1 DEF Sync
<1>3. Beat' = Beat
  <2>1. CASE enable /\ ~tx.busy /\ req.valid
    <3>1. tx' = Begin(req.addr, req.width, Len(req.data), req.write)
      BY <1>1, <2>1 DEF TxNext, Served
    <3>2. tx'.busy /\ tx'.n = 1
      BY <3>1 DEF Begin
    <3> QED
      BY <2>1, <3>2 DEF Beat
  <2>2. CASE ~(enable /\ ~tx.busy /\ req.valid)
    <3>1. tx' = tx
      BY <1>1, <2>2 DEF TxNext, Served
    <3> QED
      BY <3>1 DEF Beat
  <2> QED
    BY <2>1, <2>2
<1> QED
  BY <1>1, <1>2, <1>3 DEF View, Work, Bytes, Cell

\* Each step of the harness is a step of the abstract specification, or none.
LEMMA SerialSimulated ==
    ASSUME PlainCalls
    PROVE  SerialIInv /\ [SocNext]_socVars => [Serial!SerialNext]_(Serial!serialVars)
<1> SUFFICES ASSUME SerialIInv, [SocNext]_socVars
             PROVE  Serial!SerialNext \/ UNCHANGED View
  BY ViewIsSerial
<1>1. CASE Tick
  BY <1>1, BeatPerformed, NothingSeen DEF Serial!SerialNext
<1>2. CASE Ask
  <2>1. PICK c \in Calls[calls + 1] : Submit(c)
    BY <1>2 DEF Ask
  <2>2. TaskOf(c) \in Tasks
    BY <1>2, AskedTask DEF Ask, SerialIInv, HarnessIInv, BusIInv
  <2> DEFINE t == TaskOf(c)
  <2>3. t.call = c
    BY DEF TaskOf
  <2> HIDE DEF t
  <2>4. t \in Tasks /\ t.call \in AllCalls
    <3>1. t \in Tasks
      BY <2>2 DEF t
    <3>2. calls + 1 \in 1 .. Len(Calls)
      BY <1>2, SocAssumption DEF Ask, SerialIInv, HarnessIInv, BusIInv
    <3> QED
      BY <2>3, <3>1, <3>2 DEF AllCalls
  <2>5. /\ ongoing' = Append(ongoing, t) /\ answer' = answer
        /\ tx' = tx /\ mem' = mem /\ con' = con /\ ififo' = ififo /\ output' = output
    BY <2>1 DEF Submit, deviceVars, t
  <2>6. ongoing \in Seq(Tasks)
    BY DEF SerialIInv, HarnessIInv, BusIInv
  <2>7. Work' = Append(Work, t.call)
    BY <2>4, <2>5, <2>6, WorkParts DEF Work
  <2>8. Beat' = Beat /\ Bytes' = Bytes
    BY <2>5 DEF Beat, Bytes, Cell
  <2>9. Serial!Ask(t.call)
    BY <2>5, <2>7, <2>8 DEF Serial!Ask, Work, Beat, Bytes
  <2> QED
    BY <2>4, <2>9 DEF Serial!SerialNext
<1>3. CASE \E ch \in Chars : Type(ch)
  <2>1. PICK ch \in Chars : Type(ch)
    BY <1>3
  <2>2. /\ ififo' = Append(ififo, ch) /\ ongoing' = ongoing /\ answer' = answer
        /\ tx' = tx /\ mem' = mem /\ con' = con /\ output' = output
    BY <2>1 DEF Type, clientVars
  <2>3. Work' = Work /\ Beat' = Beat /\ Bytes' = Bytes
    BY <2>2 DEF Work, Beat, Bytes, Cell
  <2>4. Serial!Hear(ch)
    BY <2>2, <2>3 DEF Serial!Hear, Work, Beat, Bytes
  <2> QED
    BY <2>4 DEF Serial!SerialNext
<1>4. CASE Reset
  <2>1. /\ ongoing = <<>> /\ ongoing' = ongoing /\ answer' = answer /\ output' = output
        /\ tx' = NoTransaction /\ mem' = Image /\ con' = ConReset /\ ififo' = <<>>
    BY <1>4 DEF Reset, clientVars
  <2>2. Work = <<>> /\ Work' = Work
    BY <2>1 DEF Work
  <2>3. Beat' = Beat
    BY <2>1, Waiting DEF Beat, NoTransaction, SerialIInv, HarnessIInv
  <2>4. con'.regs = Serial!RegReset
    BY <2>1, SerialNames DEF ConReset
  <2>5. Bytes' = [b \in 0 .. Serial!BlockSize - 1 |-> 0]
    BY <2>1, ImageZero, SerialNames DEF Bytes, Cell
  <2>6. Serial!SerialReset
    BY <2>1, <2>2, <2>3, <2>4, <2>5 DEF Serial!SerialReset, Work, Beat, Bytes
  <2> QED
    BY <2>6 DEF Serial!SerialNext
<1>5. CASE UNCHANGED socVars
  BY <1>5 DEF socVars, clientVars, deviceVars, View, Work, Beat, Bytes, Cell
<1> QED
  BY <1>1, <1>2, <1>3, <1>4, <1>5 DEF SocNext

\* The harness starts as the abstract specification does.
LEMMA SerialStart ==
    ASSUME SocInit
    PROVE  SerialIInv /\ Serial!SerialInit
<1>1. /\ ongoing = <<>> /\ tx = NoTransaction /\ mem = Image /\ con = ConReset /\ ififo = <<>>
      /\ output = <<>> /\ answer = [of |-> [what |-> "none"], beat |-> 0, data |-> ZeroWord]
  BY DEF SocInit
<1>2. SerialIInv
  BY <1>1, HarnessInit DEF SerialIInv, BeatAt, NoTransaction
<1>3. Work = <<>> /\ Beat = 0
  BY <1>1 DEF Work, Beat, NoTransaction
<1>4. Bytes = [b \in 0 .. Serial!BlockSize - 1 |-> 0]
  BY <1>1, ImageZero, SerialNames DEF Bytes, Cell
<1>5. con.regs = Serial!RegReset /\ Serial!ZeroWord = ZeroWord
  BY <1>1, SerialNames DEF ConReset
<1> QED
  BY <1>1, <1>2, <1>3, <1>4, <1>5 DEF Serial!SerialInit, Work, Beat, Bytes

\* Whatever a test asks for, the harness performs its calls in the order in
\* which they were made, each beat once and in one step: loads return the bytes
\* that were stored last, wherever in a doubleword they lie, bursts go around
\* their block, a register is stored whole, and the characters typed are read
\* in their order and once (DBusPipelineGen, CBusDevice, BlockMemory, Confreg).
THEOREM SocImplementsSerial ==
    ASSUME PlainCalls
    PROVE  SocSpec => ImplementsSerial
<1>1. SocInit => SerialIInv /\ Serial!SerialInit
  BY SerialStart
<1>2. SerialIInv /\ [SocNext]_socVars => SerialIInv'
  BY SerialStep
<1>3. SerialIInv /\ [SocNext]_socVars => [Serial!SerialNext]_(Serial!serialVars)
  BY SerialSimulated
<1> QED
  BY <1>1, <1>2, <1>3, PTL DEF SocSpec, ImplementsSerial, Serial!SerialSpec
=============================================================================
