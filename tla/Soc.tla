-------------------------------- MODULE Soc --------------------------------
(***************************************************************************)
(* A unit test's side of the simulated machine: a client on the DBus       *)
(* (DBusPipelineGen and DBusGen of verilate/include/bus.h, or a cache that *)
(* asks for bursts), the device that answers it (CBusDevice), the memory   *)
(* and the registers behind it, and the thread that reads the terminal.    *)
(*                                                                         *)
(* The test calls the helpers one after the other; Tick is one call of     *)
(* tick, with everything the code does in it.  Reset and tick of the top   *)
(* level are not in the repository: they call the device's and the         *)
(* registers' functions in the order the code below needs.  eval_req and   *)
(* sync of the device both happen in a tick, so of the pair tx, ntx only   *)
(* tx is state.                                                            *)
(***************************************************************************)
EXTENDS Confreg, AxiTransaction, FiniteSets

CONSTANTS
    Calls,       \* what a test may ask for, one set for each call in turn
    Depth,       \* bound: requests a test has ongoing at a time
    Chars,       \* what may be typed at the terminal
    MaxTyped,    \* bound: characters typed
    Delays       \* p_disable is not 0

Requests == [what : {"load", "store", "expect", "get"}, width : Widths, addr : Nat,
             data : Seq(Word) \ {<<>>}]

ASSUME SocAssumption ==
    /\ Calls \in Seq(SUBSET Requests)
    /\ Depth \in Nat \ {0} /\ MaxTyped \in Nat
    /\ Chars \subseteq Byte /\ Delays \in BOOLEAN

\* The addresses of a call: its transaction goes through the aligned block of
\* its size, wherever in the block it starts.
Covered(c) ==
    LET t == Begin(c.addr, c.width, Len(c.data), c.what = "store")
    IN  t.lower .. t.upper - 1

\* Every call is one that the assertions of the memory let pass at each beat;
\* a memory cell of 8 bytes is left out, since it is loaded into a 32-bit
\* variable.
ASSUME CallsAssumption ==
    \A c \in UNION Range(Calls) :
        /\ \A a \in Covered(c) : Mapped(a)
        /\ c.what = "store" => Storable(c.addr, Strobe(Parse(c.width, c.addr)))
        /\ c.what = "get" => c.width <= 4

VARIABLES
    calls,       \* calls made so far
    ongoing,     \* DBusPipeline: the tasks, in order
    req,         \* the request on the wires
    enable, tx,  \* CBusDevice
    mem,         \* BlockMemory
    con,         \* Confreg
    ififo,       \* uart.ififo, which the terminal's thread fills
    typed,       \* characters typed so far
    output,      \* history: the characters sent, with their port
    answer       \* history: what the test received last

clientVars == <<calls, ongoing, req, answer>>
deviceVars == <<enable, tx, mem, con, ififo, output>>
socVars    == <<clientVars, deviceVars, typed>>
-----------------------------------------------------------------------------
(* The tasks that the helpers load, store and expect make of their         *)
(* arguments: a datum is put on its lanes, and only a store has a strobe.  *)
(* A cache asks for several doublewords at once.                           *)
Beats(c) == Len(c.data)

TaskOf(c) ==
    LET op == Parse(c.width, c.addr)
    IN  [addr |-> c.addr, width |-> c.width, call |-> c, op |-> op,
         strobe |-> IF c.what = "store" THEN Strobe(op) ELSE {},
         data |-> [k \in 1 .. Beats(c) |-> Place(op, c.data[k])]]

NoReq == [valid |-> FALSE]

\* issue, through DBusToCBus: a request is a write if it has a strobe.
Issue(t) ==
    [valid |-> TRUE, addr |-> t.addr, width |-> t.width, write |-> t.strobe # {},
     strobe |-> t.strobe, data |-> t.data]

\* apply_load and apply_assert
Received(t, d) ==
    CASE t.call.what \in {"load", "get"} -> Narrow(t.width, Apply(t.op, d))
      [] t.call.what = "expect" ->
            Low8(IF \A l \in Strobe(t.op) : d[l] = t.data[1][l] THEN 1 ELSE 0)
      [] t.call.what = "store"  -> ZeroWord
-----------------------------------------------------------------------------
(* The device's answer depends on its registers only, never on the request *)
(* of the same cycle (eval_resp).                                          *)
Served == enable /\ tx.busy

ReadData ==
    IF tx.write THEN ZeroWord
    ELSE IF ServedBy(tx.addr) = "mem" THEN MemLoad(mem, tx.addr)
    ELSE ConLoad(con, ififo, tx.addr)

DataOk == Served /\ IsLast(tx)

\* ctx.uart_fetched: the answer offered took the character to be removed.
Fetching == Served /\ ~tx.write /\ ServedBy(tx.addr) = "con" /\ Fetches(con, tx.addr)

\* The word a cache sends is the one of the beat.
Storing(dev) == Served /\ tx.write /\ ServedBy(tx.addr) = dev
WriteData    == req.data[tx.n]
-----------------------------------------------------------------------------
(* One clock edge of the device: eval_req, sync, then the registers' sync  *)
(* and checkout_confreg.                                                   *)
TxNextBackToBack ==
    \/ /\ enable /\ req.valid /\ (tx.busy => IsLast(tx))
       /\ tx' = Begin(req.addr, req.width, Len(req.data), req.write)
    \/ /\ Served /\ ~IsLast(tx)
       /\ tx' = Advance(tx)
    \/ /\ ~enable \/ (~tx.busy /\ ~req.valid)
       /\ UNCHANGED tx
TxNext ==
    \/ /\ enable /\ ~tx.busy /\ req.valid
       /\ tx' = Begin(req.addr, req.width, Len(req.data), req.write)
    \/ /\ Served
       /\ tx' = IF IsLast(tx) THEN NoTransaction ELSE Advance(tx)
    \/ /\ ~enable \/ (~tx.busy /\ ~req.valid)
       /\ UNCHANGED tx

MemNext ==
    mem' = IF Storing("mem") THEN MemStore(mem, tx.addr, WriteData, req.strobe) ELSE mem

ConNextLooksFirst ==
    /\ ififo' = SyncFifo(ififo, Fetching)
    /\ con' = Sync(IF Storing("con") THEN ConStore(con, tx.addr, WriteData) ELSE con, ififo)
    /\ output' = IF Storing("con") THEN output \o Sends(tx.addr, WriteData) ELSE output
ConNext ==
    /\ ififo' = SyncFifo(ififo, Fetching)
    /\ con' = Sync(IF Storing("con") THEN ConStore(con, tx.addr, WriteData) ELSE con, ififo')
    /\ output' = IF Storing("con") THEN output \o Sends(tx.addr, WriteData) ELSE output

DeviceTick ==
    /\ TxNext /\ MemNext /\ ConNext
    /\ enable' \in IF Delays THEN BOOLEAN ELSE {TRUE}
-----------------------------------------------------------------------------
(* tick: the signals are read before the edge, the task they answer is     *)
(* done after it, and the next task is issued.                             *)
PopOnReady == IF req.valid /\ Served THEN Tail(ongoing) ELSE ongoing
Popped == IF req.valid /\ DataOk THEN Tail(ongoing) ELSE ongoing

IssueNextLeft(queue) ==
    req' = IF req.valid /\ DataOk THEN NoReq ELSE req
IssueNext(queue) ==
    req' = IF queue = <<>> THEN NoReq ELSE Issue(Head(queue))

Deliver ==
    answer' = IF req.valid /\ Served
              THEN [of |-> Head(ongoing).call, beat |-> tx.n,
                    data |-> Received(Head(ongoing), ReadData)]
              ELSE answer

Tick ==
    /\ DeviceTick
    /\ ongoing' = Popped
    /\ IssueNext(Popped)
    /\ Deliver
    /\ UNCHANGED <<calls, typed>>

\* Reading a memory cell is a load and a fence: the test goes on after it.
Fenced == \E i \in DOMAIN ongoing : ongoing[i].call.what = "get"

\* submit: the request goes out at once if the bus is idle.  A single load
\* or store of DBus (async_ and await) is a submit when nothing is ongoing.
SubmitAlways(c) ==
    /\ Len(ongoing) < Depth /\ ~Fenced
    /\ calls' = calls + 1
    /\ ongoing' = Append(ongoing, TaskOf(c))
    /\ req' = Issue(TaskOf(c))
    /\ UNCHANGED <<answer, deviceVars, typed>>
Submit(c) ==
    /\ Len(ongoing) < Depth /\ ~Fenced
    /\ calls' = calls + 1
    /\ ongoing' = Append(ongoing, TaskOf(c))
    /\ req' = IF req.valid THEN req ELSE Issue(TaskOf(c))
    /\ UNCHANGED <<answer, deviceVars, typed>>

\* The terminal's thread got a character.
Type(ch) ==
    /\ typed < MaxTyped
    /\ typed' = typed + 1
    /\ ififo' = Append(ififo, ch)
    /\ UNCHANGED <<clientVars, enable, tx, mem, con, output>>

Image == [w \in 0 .. MemWords - 1 |-> ZeroWord]

\* Between two tests, after the fence: the memory is the saved image again,
\* and _uart_reset drops what was typed.
Reset ==
    /\ calls > 0 /\ ongoing = <<>>
    /\ tx' = NoTransaction /\ mem' = Image /\ con' = ConReset /\ ififo' = <<>>
    /\ UNCHANGED <<clientVars, enable, output, typed>>

SocInit ==
    /\ calls = 0 /\ ongoing = <<>> /\ req = NoReq
    /\ enable = TRUE /\ tx = NoTransaction
    /\ mem = Image /\ con = ConReset /\ ififo = <<>>
    /\ typed = 0 /\ output = <<>>
    /\ answer = [of |-> [what |-> "none"], beat |-> 0, data |-> ZeroWord]

Ask == calls < Len(Calls) /\ \E c \in Calls[calls + 1] : Submit(c)

SocNext == Tick \/ Ask \/ (\E ch \in Chars : Type(ch)) \/ Reset

\* The test ticks until its fence passes, and the device is enabled in
\* infinitely many ticks, since p_disable is below 1.
SocSpec == SocInit /\ [][SocNext]_socVars /\ WF_socVars(Tick /\ enable')
=============================================================================
