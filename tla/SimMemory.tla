----------------------------- MODULE SimMemory -----------------------------
(***************************************************************************)
(* The memory behind the CBus: BlockMemory and MemoryRouter of             *)
(* verilate/vsrc/memory.cpp in the layout of ModelBase::install_soc.       *)
(***************************************************************************)
EXTENDS LoadOps, Sequences, SequencesExt

CONSTANT MemWords    \* doublewords of the block memory

ASSUME MemAssumption == MemWords \in Nat \ {0}

BlockMemory == [0 .. MemWords - 1 -> Word]
BlockSize   == 8 * MemWords

\* The first entry that matches serves an address: the boot window is the
\* block memory again, from its start.  The mask of the last matches every
\* address; those of this model are below 2^30.
BootWindow == [block |-> 2^20, number |-> \h1fc, to |-> "mem", base |-> \h1fc00000]
Devices    == [block |-> 2^16, number |-> \h1faf, to |-> "con", base |-> 0]
Elsewhere  == [block |-> 2^30, number |-> 0, to |-> "mem", base |-> 0]
Layout     == <<BootWindow, Devices, Elsewhere>>

Matches(e, a) == a \div e.block = e.number
Search(a)     == SelectInSeq(Layout, LAMBDA e : Matches(e, a))

ServedBy(a)  == Layout[Search(a)].to
Translate(a) == a - Layout[Search(a)].base

\* A load reads the whole doubleword, whatever its size; a store is masked.
MemLoad(mem, a) == mem[Translate(a) \div 8]

MemStore(mem, a, d, lanes) ==
    [mem EXCEPT ![Translate(a) \div 8] = Merge(@, d, lanes)]

\* What load and store assert of an address.
Mapped(a) == Search(a) > 0 /\ (ServedBy(a) = "mem" => Translate(a) < BlockSize)
=============================================================================
