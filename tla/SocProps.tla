------------------------------ MODULE SocProps ------------------------------
(***************************************************************************)
(* What the harness must keep to be a memory at all.                       *)
(***************************************************************************)
EXTENDS Soc

AllCalls == UNION {Calls[i] : i \in 1 .. Len(Calls)}
Tasks    == {TaskOf(c) : c \in AllCalls}

\* The types of every variable of the harness.
SocTypeOK ==
    /\ calls \in 0 .. Len(Calls) /\ typed \in 0 .. MaxTyped
    /\ ongoing \in Seq(Tasks) /\ Len(ongoing) <= Depth
    /\ req \in {NoReq} \cup {Issue(t) : t \in Tasks}
    /\ enable \in BOOLEAN /\ tx \in Transaction
    /\ mem \in BlockMemory
    /\ con \in [avail : BOOLEAN, regs : [Registers -> Word]]
    /\ ififo \in Seq(Chars)
    /\ output \in Seq([port : {"pty"}, char : Byte] \cup [port : {"console"}, char : 0 .. 127])
    /\ answer.data \in Word

\* The request on the wires is the one of the oldest task, whatever is
\* submitted meanwhile, and none is there without a task: tick and submit
\* agree on busy() (bus.h, and the assertion at line 665).
IssuedIsFront ==
    req = IF ongoing = <<>> THEN NoReq ELSE Issue(Head(ongoing))

\* What CBusDevice::eval_req asserts of the request during a transaction:
\* it stays as it was until the last beat.  And a burst that wraps stays in
\* the aligned block of its size.
DeviceAsserts ==
    tx.busy => /\ req.valid /\ req.write = tx.write /\ req.width = tx.bytes
               /\ req.addr = tx.start /\ Len(req.data) = tx.length
               /\ tx.n \in 1 .. tx.length
               /\ tx.addr \in tx.lower .. tx.upper - 1

\* A character announced is there until it is taken, although the FIFO is
\* looked at without its lock; Confreg::sync asserts it of the one fetched.
FifoKept == con.avail => ififo # <<>>

Cell(b) == mem[b \div 8][b % 8]
Serial == INSTANCE SerialSoc WITH
    Calls <- AllCalls,
    work <- [i \in DOMAIN ongoing |-> ongoing[i].call],
    beat <- IF tx.busy THEN tx.n - 1 ELSE 0,
    bytes <- [b \in 0 .. BlockSize - 1 |-> Cell(b)],
    regs <- con.regs, heard <- ififo, sent <- output, got <- answer

\* What the refinement asks of the calls: an address is a multiple of the
\* width (DBusPipeline asserts it, bus.h line 722; DBus relies on it), a burst
\* is of doublewords, and a datum has no more bytes than its width, since
\* place masks nothing.
PlainCalls ==
    \A c \in AllCalls :
        /\ c.addr % c.width = 0
        /\ Len(c.data) > 1 => c.width = 8
        /\ \A k \in DOMAIN c.data : Narrow(c.width, c.data[k]) = c.data[k]

\* The harness is a memory that performs the calls of a test in order.
ImplementsSerial == Serial!SerialSpec

\* It is also the memory that the model of the core is checked with.
Simple == INSTANCE CBusDevice WITH
    AddrSpace <- 2^30, PcInit <- 0,
    tx <- IF tx.busy THEN [valid |-> TRUE, addr |-> tx.start, write |-> tx.write]
          ELSE [valid |-> FALSE, addr |-> 0, write |-> FALSE]
SimpleReq == IF req.valid THEN [valid |-> TRUE, addr |-> req.addr, write |-> req.write]
             ELSE [valid |-> FALSE, addr |-> 0, write |-> FALSE]

\* Every step of the device is a step of CBusDevice, for a delay of its own:
\* the bursts it knows and the core does not use are just longer delays.
ImplementsDevice ==
    [][(\E e \in BOOLEAN : Simple!DeviceClock(e, SimpleReq)) \/ UNCHANGED deviceVars]_socVars

\* A fence ends: nothing stays ongoing, however often the device pauses.
FenceEnds == []<>(ongoing = <<>>)
=============================================================================
