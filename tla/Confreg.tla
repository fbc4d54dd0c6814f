------------------------------ MODULE Confreg ------------------------------
(***************************************************************************)
(* The device registers of verilate/vsrc/confreg.cpp.  A store changes the *)
(* context and queues a change; sync, called in the same clock tick, hands *)
(* both on.  So between ticks only what sync leaves is state:              *)
(*   avail    ctx.uart_avail, the UART had a character at the last sync    *)
(*   regs     mem, without the free-running timer                          *)
(* and the operators below give the whole effect of a tick.  The v_        *)
(* members, which only the test program's monitor reads, are left out.     *)
(***************************************************************************)
EXTENDS SimMemory

UartData    == \h1000
UartLsr     == \h1014
Led         == \hf000
Num         == \hf010
Switch      == \hf020
SwInter     == \hf02c
IoSimu      == \hffec
VirtualUart == \hfff0
SimuFlag    == \hfff4
OpenTrace   == \hfff8
NumMonitor  == \hfffc

Crs    == {\h8000 + 4 * i : i \in 0 .. 7}
Others == {Led, \hf004, \hf008, Num, Switch, \hf024, \hf028, SwInter, IoSimu,
           VirtualUart, SimuFlag, OpenTrace, NumMonitor}
Registers == Crs \cup Others

Offset(a) == a % 65536

\* A word with a byte in its lowest lane; one with a 32-bit half of all ones.
Low8(b)  == [ZeroWord EXCEPT ![0] = b]
AllOnes  == Narrow(4, [l \in Lane |-> 255])

RegReset ==
    [r \in Registers |->
        CASE r = Led        -> Narrow(2, AllOnes)
          [] r = Switch     -> Low8(255)
          [] r = SwInter    -> Narrow(2, [l \in Lane |-> \haa])
          [] r = SimuFlag   -> AllOnes
          [] r \in {OpenTrace, NumMonitor} -> Low8(1)
          [] OTHER          -> ZeroWord]

ConReset == [avail |-> FALSE, regs |-> RegReset]

\* load, with the character at the head of the UART's FIFO.  Only an
\* available character is taken out, at the next sync.
ConLoad(con, fifo, a) ==
    LET r == Offset(a)
    IN  CASE r = UartLsr  -> Low8(IF con.avail THEN 1 ELSE 0)
          [] r = UartData -> IF con.avail THEN Low8(Head(fifo)) ELSE ZeroWord
          [] r \in Registers -> con.regs[r]
          [] OTHER        -> ZeroWord
Fetches(con, a) == Offset(a) = UartData /\ con.avail

\* What a register keeps of a store, which replaces all of it.
Kept(r, d) ==
    CASE r = VirtualUart -> Low8(d[0])
      [] r = SimuFlag    -> AllOnes
      [] r = IoSimu      -> Narrow(4, [l \in Lane |-> d[(l + 2) % 4]])
      [] r = OpenTrace   -> Low8(IF d # ZeroWord THEN 1 ELSE 0)
      [] r = NumMonitor  -> Low8(d[0] % 2)
      [] OTHER           -> d

\* store: UART_TXD is no register, and the LSR cannot be written.
ConStore(con, a, d) ==
    LET r == Offset(a)
    IN  IF r \in Registers THEN [con EXCEPT !.regs[r] = Kept(r, d)] ELSE con

\* What store asserts; a test that fails it ends.
Storable(a, lanes) == Offset(a) # UartLsr /\ (Offset(a) = UartData => lanes = {0})

SendsAny(a, d) ==
    CASE Offset(a) = UartData    -> <<[port |-> "pty", char |-> d[0]]>>
      [] Offset(a) = VirtualUart -> <<[port |-> "console", char |-> d[0]]>>
      [] OTHER -> <<>>
\* The characters a store sends: to the pseudo-terminal, or to the console
\* (checkout_confreg), which takes ASCII only.
Sends(a, d) ==
    CASE Offset(a) = UartData -> <<[port |-> "pty", char |-> d[0]]>>
      [] Offset(a) = VirtualUart /\ d[0] < 128 -> <<[port |-> "console", char |-> d[0]]>>
      [] OTHER -> <<>>

\* sync: take out the character that was fetched, then look for the next.
SyncFifo(fifo, fetched) == IF fetched THEN Tail(fifo) ELSE fifo
Sync(con, fifo) == [con EXCEPT !.avail = fifo # <<>>]
=============================================================================
