----------------------------- MODULE PageTable -----------------------------
(***************************************************************************)
(* The Sv39 tables as src/mmu.sv reads them: where an entry is, what it    *)
(* says, and when it refuses an access.  PageSize and Fanout are 4096 and  *)
(* 512 in the code.  Any page of memory may be a table: Pte gives the      *)
(* doubleword at an address its reading as an entry (the A and D bits are  *)
(* not looked at, as in the code).                                         *)
(***************************************************************************)
EXTENDS Common

CONSTANTS PageSize, Fanout, Pte

Ptes == [v : BOOLEAN, r : BOOLEAN, w : BOOLEAN, x : BOOLEAN, u : BOOLEAN,
         ppn : Nat]

ASSUME PageAssumption ==
    /\ PageSize \in Nat \ {0} /\ Fanout \in Nat \ {0}
    /\ PageSize % 8 = 0 /\ AddrSpace % PageSize = 0
    /\ DOMAIN Pte = Addr
    /\ \A a \in Addr : /\ DOMAIN Pte[a] = {"v", "r", "w", "x", "u", "ppn"}
                       /\ Pte[a].v \in BOOLEAN /\ Pte[a].r \in BOOLEAN
                       /\ Pte[a].w \in BOOLEAN /\ Pte[a].x \in BOOLEAN
                       /\ Pte[a].u \in BOOLEAN /\ Pte[a].ppn \in Nat

Levels == 0 .. 2

\* The part of an address a leaf at a level covers.
Span(level) == IF level = 0 THEN PageSize
               ELSE IF level = 1 THEN PageSize * Fanout
               ELSE PageSize * Fanout * Fanout

\* The address of the entry for va in a table, and the page an entry names.
PteAddr(table, va, level) ==
    (table + 8 * ((va \div Span(level)) % Fanout)) % AddrSpace
PageAt(ppn) == (ppn * PageSize) % AddrSpace

\* The physical address of va through a leaf with physical page ppn.
Leaf(ppn, va, level) ==
    LET base == ppn * PageSize
    IN  ((base - (base % Span(level))) + (va % Span(level))) % AddrSpace

\* Same virtual page at a level, within the 39 bits the tables translate.
SamePage(va, other, level) ==
    LET space == Span(2) * Fanout
    IN  (va % space) \div Span(level) = (other % space) \div Span(level)

ZeroPte == [v |-> FALSE, r |-> FALSE, w |-> FALSE, x |-> FALSE, u |-> FALSE,
            ppn |-> 0]
PteOf(data) == IF data = Zero THEN ZeroPte ELSE Pte[data]

IsLeaf(pte)     == pte.r \/ pte.x
PteInvalid(pte) == ~pte.v \/ (pte.w /\ ~pte.r)

\* perm_fault, us_fault and the superpage alignment checks of a leaf.
LeafFault(pte, level, access, mode) ==
    \/ access = "FETCH" /\ ~pte.x
    \/ access = "LOAD"  /\ ~pte.r
    \/ access = "STORE" /\ ~pte.w
    \/ mode = "U" /\ ~pte.u
    \/ mode = "S" /\ pte.u
    \/ (pte.ppn * PageSize) % Span(level) # 0

\* An entry ends the walk with a fault: invalid, a refused leaf, or still a
\* pointer at the last level.
WalkFault(pte, level, access, mode) ==
    \/ PteInvalid(pte)
    \/ IsLeaf(pte) /\ LeafFault(pte, level, access, mode)
    \/ ~IsLeaf(pte) /\ level = 0

Translates(mode, satp_) == mode # "M" /\ satp_ # Nil
-----------------------------------------------------------------------------
(***************************************************************************)
(* The reference: what a walk from a table finds for an access, Nil when   *)
(* some entry on the way refuses it, and what an address stands for.       *)
(***************************************************************************)
EntryAt(table, va, level) == Pte[PteAddr(table, va, level)]

\* What a walk makes of an entry, deeper being what it finds below it.
Resolve(pte, level, va, access, mode, deeper) ==
    IF WalkFault(pte, level, access, mode) THEN Nil
    ELSE IF IsLeaf(pte) THEN Leaf(pte.ppn, va, level)
    ELSE deeper

Walk0(table, va, access, mode) ==
    Resolve(EntryAt(table, va, 0), 0, va, access, mode, Nil)
Walk1(table, va, access, mode) ==
    LET pte == EntryAt(table, va, 1)
    IN  Resolve(pte, 1, va, access, mode, Walk0(PageAt(pte.ppn), va, access, mode))
Walk2(table, va, access, mode) ==
    LET pte == EntryAt(table, va, 2)
    IN  Resolve(pte, 2, va, access, mode, Walk1(PageAt(pte.ppn), va, access, mode))

Translation(va, access, mode, root) ==
    IF Translates(mode, root) THEN Walk2(root, va, access, mode) ELSE va
=============================================================================
