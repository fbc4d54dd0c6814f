--------------------------- MODULE ProgramProofs ---------------------------
(***************************************************************************)
(* What the program sees: proofs that Core implements Isa, that every load *)
(* returns the doubleword at its own translated address (LoadOwn), and     *)
(* that every row of the TLB and the line held for fetch agree with the    *)
(* page tables (TlbCurrent, LineCurrent).                                  *)
(*                                                                         *)
(* To the invariants of StreamProofs (InOrder) and AccessProofs they add   *)
(* TranslateInv: the walk is at the table the page tables name, the access *)
(* it ends in goes to the address they give, and a row of the TLB is a     *)
(* leaf that some walk found; MissKept: a miss is one that fetch waits     *)
(* for, or one that a refused fetch left behind; and SlotsRight: every     *)
(* stage holds the word at its pc, with the flags the architecture gives   *)
(* it.                                                                     *)
(*                                                                         *)
(* The premises beyond those of StreamProofs and AccessProofs are          *)
(* SatpFromM and HitsPermitted: every trap and every mret empties the TLB  *)
(* and a write of satp does not, and a hit of the TLB does not check the   *)
(* permissions of the access again.  Where every leaf grants every access  *)
(* the second follows.  Only SlotsRight, and with it Isa, needs the fetch  *)
(* faults away: all else holds of programs whose fetches are refused.      *)
(***************************************************************************)
EXTENDS AccessProofs

\* The table a walk for va reaches at a level, its entry there, and whether
\* it gets there.
TableOf(root, va, level) ==
    IF level = 2 THEN root
    ELSE LET next == PageAt(EntryAt(root, va, 2).ppn)
         IN  IF level = 1 THEN next ELSE PageAt(EntryAt(next, va, 1).ppn)
EntryOf(root, va, level) == EntryAt(TableOf(root, va, level), va, level)
Reaches(root, va, level) ==
    \A k \in Levels : k > level =>
        ~PteInvalid(EntryOf(root, va, k)) /\ ~IsLeaf(EntryOf(root, va, k))

RootAligned == satp = Nil \/ satp % 8 = 0

\* The walk is at the table the page tables name.
WalkRight ==
    mmuState \in {"REQ", "WAIT"} =>
        /\ Translates(priv, satp)
        /\ Reaches(satp, arbReq.addr, mmuLevel)
        /\ mmuTable = TableOf(satp, arbReq.addr, mmuLevel)

\* The access goes to the address the tables give, and so does its answer.
AccessRight ==
    /\ mmuState \in {"REQ_P", "WAIT_P", "RESP"} /\ mmuFault = "none" =>
          mmuPaddr = Translation(arbReq.addr, ArbAccess, priv, satp)
    /\ mmuState = "RESP" /\ mmuFault = "none" /\ ~arbReq.write =>
          mmuResp.data = mmuPaddr
    /\ mmuFault # "none" => Translation(arbReq.addr, ArbAccess, priv, satp) = Nil

\* Every entry of the TLB is a leaf that a walk found for some access.
TlbRight ==
    \A i \in TlbRows : tlb[i].valid =>
        LET e == tlb[i]
            pte == EntryOf(satp, e.va, e.level)
        IN  /\ Translates(priv, satp)
            /\ Reaches(satp, e.va, e.level)
            /\ IsLeaf(pte) /\ e.pa = Leaf(pte.ppn, 0, e.level)
            /\ \E access \in Accesses : ~WalkFault(pte, e.level, access, priv)

\* What an address stands for in the context of this moment.
Now(va, access) == Translation(va, access, priv, satp)

\* The instruction word is the one at its address; no word is at an address
\* that is not aligned.
WordRight(s) ==
    IF Misaligned(s.pc) THEN s.instr = Zero ELSE s.instr = Now(s.pc, "FETCH")
Decoded(s) == WordRight(s) /\ (s.iexc <=> Misaligned(s.pc))

\* From EX/MEM on it has computed something, perhaps a bad target.
BadTarget(s) == OpOf(s) = "jump" /\ s.alu # Nil /\ Misaligned(s.alu)
Executed(s) ==
    /\ WordRight(s) /\ s.alu \in Outcomes(s)
    /\ s.iexc <=> Misaligned(s.pc) \/ BadTarget(s)

\* From MEM/WB on it says what became of its access.
AccessOf(s) == IF OpOf(s) = "store" THEN "STORE" ELSE "LOAD"
Accessed(s) ==
    /\ ~s.ipf /\ (s.dexc <=> DataMisaligned(s))
    /\ s.dpf <=> /\ OpOf(s) \in {"load", "store"} /\ ~DataMisaligned(s)
                 /\ Now(s.alu, AccessOf(s)) = Nil

FetchedSlot == [pc |-> fPc, instr |-> fInstr, iexc |-> fExc]

\* What every stage holds is what the instruction at its pc means now.  A
\* word that arrives in the cycle of a data fault is not one of memory, and
\* the trap drops it in the next.
SlotsRight ==
    /\ fCur = "COMMIT" /\ ~ExceptionW => Decoded(FetchedSlot)
    /\ D.valid => Decoded(D)
    /\ E.valid => Decoded(E)
    /\ M.valid => Executed(M)
    /\ W.valid => Executed(W) /\ Accessed(W)

-----------------------------------------------------------------------------
(* Division with remainder.                                                *)

\* A number is its quotient and its remainder.
LEMMA Divided ==
  ASSUME NEW a \in Int, NEW d \in Nat \ {0}
  PROVE  /\ a \div d \in Int /\ a % d \in 0 .. d - 1
         /\ a = d * (a \div d) + (a % d)
<1>1. a \div d \in Int
  BY SMT
<1>2. a % d \in 0 .. d - 1
  BY SMT
<1>3. a = d * (a \div d) + (a % d)
  BY SMT
<1>4. QED
  BY <1>1, <1>2, <1>3, Zenon

\* They are the only ones.
LEMMA DividedOnce ==
  ASSUME NEW a \in Int, NEW d \in Nat \ {0}, NEW q \in Int, NEW r \in 0 .. d - 1,
         a = d * q + r
  PROVE  a \div d = q /\ a % d = r
<1> DEFINE p == a \div d
           s == a % d
<1>1. p \in Int /\ s \in 0 .. d - 1 /\ a = d * p + s
  BY Divided
<1> HIDE DEF p, s
<1>2. d * (p - q) = r - s
  BY <1>1
<1>3. p - q >= 1 => d * (p - q) >= d
  BY <1>1
<1>4. p - q <= -1 => d * (p - q) <= -d
  BY <1>1
<1>5. p - q = 0
  BY <1>1, <1>2, <1>3, <1>4
<1>6. QED
  BY <1>1, <1>2, <1>5 DEF p, s

\* Multiples of the modulus do not count.
LEMMA Shifted ==
  ASSUME NEW d \in Nat \ {0}, NEW x \in Int, NEW k \in Int
  PROVE  (x + d * k) % d = x % d
<1> DEFINE q == x \div d
           r == x % d
<1>1. q \in Int /\ r \in 0 .. d - 1 /\ x = d * q + r
  BY Divided
<1> HIDE DEF q, r
<1>2. x + d * k = d * (q + k) + r /\ q + k \in Int /\ x + d * k \in Int
  BY <1>1
<1>3. (x + d * k) % d = r
  BY <1>1, <1>2, DividedOnce
<1>4. QED
  BY <1>3 DEF r

LEMMA Reduced ==
  ASSUME NEW d \in Nat \ {0}, NEW x \in Int, NEW y \in Int
  PROVE  ((x % d) + y) % d = (x + y) % d
<1> DEFINE q == x \div d
           r == x % d
<1>1. q \in Int /\ r \in 0 .. d - 1 /\ x = d * q + r
  BY Divided
<1> HIDE DEF q, r
<1>2. x + y = (r + y) + d * q /\ r + y \in Int
  BY <1>1
<1>3. (x + y) % d = (r + y) % d
  BY <1>1, <1>2, Shifted
<1>4. QED
  BY <1>3 DEF r

\* The remainder by a multiple has the same remainder.
LEMMA Refined ==
  ASSUME NEW d \in Nat \ {0}, NEW e \in Nat \ {0}, NEW x \in Int
  PROVE  (x % (d * e)) % d = x % d
<1> DEFINE q == x \div (d * e)
           r == x % (d * e)
<1>1. d * e \in Nat \ {0}
  OBVIOUS
<1>2. q \in Int /\ r \in 0 .. d * e - 1 /\ x = (d * e) * q + r
  BY <1>1, Divided
<1> HIDE DEF q, r
<1>3. r \in Int /\ e * q \in Int /\ x = r + d * (e * q)
  BY <1>1, <1>2
<1>4. x % d = r % d
  BY <1>3, Shifted
<1>5. QED
  BY <1>4 DEF r

LEMMA Multiple ==
  ASSUME NEW d \in Nat \ {0}, NEW n \in Nat \ {0}, n % d = 0
  PROVE  \E e \in Nat \ {0} : n = d * e
<1> DEFINE e == n \div d
<1>1. e \in Int /\ n = d * e
  BY Divided
<1> HIDE DEF e
<1>2. e > 0
  <2>1. e <= 0 => d * e <= 0
    BY <1>1
  <2>2. QED
    BY <1>1, <2>1
<1>3. QED
  BY <1>1, <1>2

\* The quotient by a product is taken in two steps.
LEMMA DividedTwice ==
  ASSUME NEW d \in Nat \ {0}, NEW e \in Nat \ {0}, NEW x \in Int
  PROVE  x \div (d * e) = (x \div d) \div e
<1> DEFINE q == x \div d
           r == x % d
           p == q \div e
           s == q % e
<1>1. q \in Int /\ r \in 0 .. d - 1 /\ x = d * q + r
  BY Divided
<1>2. p \in Int /\ s \in 0 .. e - 1 /\ q = e * p + s
  <2>1. q \in Int
    BY <1>1
  <2> HIDE DEF q
  <2>2. QED
    BY <2>1, Divided
<1> HIDE DEF q, r, p, s
<1>3. d * q = d * (e * p) + d * s
  BY <1>1, <1>2
<1>4. d * (e * p) = (d * e) * p
  BY <1>2
<1>5. d * s >= 0 /\ d * s <= d * (e - 1) /\ d * (e - 1) = d * e - d
  BY <1>2
<1>6. d * s + r \in 0 .. d * e - 1
  BY <1>1, <1>2, <1>5
<1>7. x = (d * e) * p + (d * s + r) /\ d * e \in Nat \ {0}
  BY <1>1, <1>3, <1>4, <1>2
<1>8. x \div (d * e) = p
  BY <1>2, <1>6, <1>7, DividedOnce
<1>9. QED
  BY <1>8 DEF p, q

\* What remains by a product, divided by one factor, is the quotient by that
\* factor as far as the other counts.
LEMMA DigitOf ==
  ASSUME NEW d \in Nat \ {0}, NEW e \in Nat \ {0}, NEW x \in Int
  PROVE  (x % (d * e)) \div d = (x \div d) % e
<1> DEFINE q == x \div d
           r == x % d
           p == q \div e
           s == q % e
<1>1. q \in Int /\ r \in 0 .. d - 1 /\ x = d * q + r
  BY Divided
<1>2. p \in Int /\ s \in 0 .. e - 1 /\ q = e * p + s
  <2>1. q \in Int
    BY <1>1
  <2> HIDE DEF q
  <2>2. QED
    BY <2>1, Divided
<1> HIDE DEF q, r, p, s
<1>3. d * q = d * (e * p) + d * s
  BY <1>1, <1>2
<1>4. d * (e * p) = (d * e) * p
  BY <1>2
<1>5. d * s >= 0 /\ d * s <= d * (e - 1) /\ d * (e - 1) = d * e - d
  BY <1>2
<1>6. d * s + r \in 0 .. d * e - 1 /\ d * s + r \in Int /\ s \in Int
  BY <1>1, <1>2, <1>5
<1>7. x = (d * e) * p + (d * s + r) /\ d * e \in Nat \ {0}
  BY <1>1, <1>3, <1>4, <1>2
<1>8. x % (d * e) = d * s + r
  BY <1>2, <1>6, <1>7, DividedOnce
<1>9. (d * s + r) \div d = s
  BY <1>1, <1>6, DividedOnce
<1>10. QED
  BY <1>8, <1>9 DEF s, q

-----------------------------------------------------------------------------
(* Pages and tables.                                                       *)

LEMMA SpanShape ==
  /\ \A k \in Levels : Span(k) \in Nat \ {0}
  /\ Span(0) = PageSize /\ Span(1) = Span(0) * Fanout /\ Span(2) = Span(1) * Fanout
  /\ Fanout \in Nat \ {0} /\ PageSize \in Nat \ {0} /\ AddrSpace \in Nat \ {0}
  /\ Levels = {0, 1, 2}
<1>1. \A k \in Levels : Span(k) \in Nat \ {0}
  BY SpanType
<1>2. Fanout \in Nat \ {0} /\ PageSize \in Nat \ {0} /\ AddrSpace \in Nat \ {0}
  BY PageAssumption, AddrAssumption
<1>3. Span(0) = PageSize /\ Span(1) = Span(0) * Fanout /\ Span(2) = Span(1) * Fanout
  BY <1>2 DEF Span
<1>4. Levels = {0, 1, 2}
  BY DEF Levels
<1>5. QED
  BY <1>1, <1>2, <1>3, <1>4

\* A superpage is a whole number of pages of each lower level.
LEMMA Coarser ==
  ASSUME NEW l \in Levels, NEW k \in Levels, k >= l
  PROVE  \E e \in Nat \ {0} : Span(k) = Span(l) * e
<1>1. CASE k = l
  <2>1. Span(k) = Span(l) * 1 /\ 1 \in Nat \ {0}
    BY <1>1, SpanShape
  <2>2. QED
    BY <2>1
<1>2. CASE l = 0 /\ k = 2
  <2>1. Span(2) = Span(0) * (Fanout * Fanout) /\ Fanout * Fanout \in Nat \ {0}
    BY SpanShape
  <2>2. QED
    BY <1>2, <2>1
<1>3. CASE k = l + 1
  BY <1>3, SpanShape
<1>4. QED
  BY <1>1, <1>2, <1>3, SpanShape

LEMMA SpaceOf ==
  ASSUME NEW k \in Levels
  PROVE  \E h \in Nat \ {0} : Span(2) * Fanout = Span(k) * (Fanout * h)
<1>1. PICK e \in Nat \ {0} : Span(2) = Span(k) * e
  BY Coarser, SpanShape
<1>2. Span(2) * Fanout = Span(k) * (Fanout * e)
  BY <1>1, SpanShape
<1>3. QED
  BY <1>2

\* Two addresses in one page have the same index at its level and above.
LEMMA SameIndex ==
  ASSUME NEW a \in Int, NEW b \in Int, NEW l \in Levels, NEW k \in Levels, k >= l,
         SamePage(a, b, l)
  PROVE  (a \div Span(k)) % Fanout = (b \div Span(k)) % Fanout
<1> DEFINE space == Span(2) * Fanout
<1>1. space \in Nat \ {0} /\ Span(k) \in Nat \ {0} /\ Span(l) \in Nat \ {0}
      /\ Fanout \in Nat \ {0}
  BY SpanShape
<1>2. PICK h \in Nat \ {0} : space = Span(k) * (Fanout * h)
  BY SpaceOf
<1>3. PICK e \in Nat \ {0} : Span(k) = Span(l) * e
  BY Coarser
<1> HIDE DEF space
<1>4. ASSUME NEW v \in Int
      PROVE  (v \div Span(k)) % Fanout = (((v % space) \div Span(l)) \div e) % Fanout
  <2>1. v \div Span(k) \in Int /\ v % space \in Int
    BY <1>1, Divided
  <2>2. Fanout * h \in Nat \ {0}
    BY <1>1
  <2>3. (v % space) \div Span(k) = (v \div Span(k)) % (Fanout * h)
    BY <1>1, <1>2, <2>2, DigitOf
  <2>4. ((v \div Span(k)) % (Fanout * h)) % Fanout = (v \div Span(k)) % Fanout
    BY <1>1, <2>1, Refined
  <2>5. (v % space) \div Span(k) = ((v % space) \div Span(l)) \div e
    BY <1>1, <1>3, <2>1, DividedTwice
  <2>6. QED
    BY <2>3, <2>4, <2>5
<1>5. (a % space) \div Span(l) = (b % space) \div Span(l)
  BY DEF SamePage, space
<1>6. QED
  BY <1>4, <1>5

\* Their walks read the same entries down to that level.
LEMMA SameEntries ==
  ASSUME NEW root, NEW a \in Int, NEW b \in Int, NEW l \in Levels, SamePage(a, b, l)
  PROVE  \A k \in Levels : k >= l => EntryOf(root, a, k) = EntryOf(root, b, k)
<1>1. ASSUME NEW t, NEW k \in Levels, k >= l
      PROVE  EntryAt(t, a, k) = EntryAt(t, b, k)
  BY <1>1, SameIndex DEF EntryAt, PteAddr
<1>2. TableOf(root, a, 2) = TableOf(root, b, 2)
  BY DEF TableOf
<1>3. l <= 1 => TableOf(root, a, 1) = TableOf(root, b, 1)
  BY <1>1, SpanShape DEF TableOf
<1>4. l = 0 => TableOf(root, a, 0) = TableOf(root, b, 0)
  BY <1>1, SpanShape DEF TableOf
<1>5. QED
  BY <1>1, <1>2, <1>3, <1>4, SpanShape DEF EntryOf

LEMMA EightDivides ==
  /\ AddrSpace % 8 = 0
  /\ \A k \in Levels : Span(k) % 8 = 0
  /\ \A a \in Int : (a % AddrSpace) % 8 = a % 8
<1>1. PICK p \in Nat \ {0} : PageSize = 8 * p
  BY Multiple, SpanShape, PageAssumption
<1>2. PICK n \in Nat \ {0} : AddrSpace = PageSize * n
  BY Multiple, SpanShape, PageAssumption
<1>3. AddrSpace = 8 * (p * n) /\ p * n \in Nat \ {0}
  BY <1>1, <1>2
<1>4. ASSUME NEW k \in Levels PROVE Span(k) % 8 = 0
  <2>1. 0 \in Levels /\ k >= 0
    BY SpanShape
  <2>2. PICK e \in Nat \ {0} : Span(k) = Span(0) * e
    BY <2>1, Coarser
  <2>3. Span(k) = 8 * (p * e) + 0 /\ p * e \in Int /\ Span(k) \in Int
    BY <2>2, <1>1, SpanShape
  <2>4. QED
    BY <2>3, DividedOnce
<1>5. AddrSpace % 8 = 0
  <2>1. AddrSpace = 8 * (p * n) + 0 /\ p * n \in Int /\ AddrSpace \in Int
    BY <1>3
  <2>2. QED
    BY <2>1, DividedOnce
<1>6. ASSUME NEW a \in Int PROVE (a % AddrSpace) % 8 = a % 8
  <2>1. ASSUME NEW d \in Nat \ {0}, d = 8 PROVE (a % AddrSpace) % d = a % d
    <3>1. AddrSpace = d * (p * n) /\ p * n \in Nat \ {0}
      BY <1>3, <2>1
    <3>2. (a % (d * (p * n))) % d = a % d
      BY <3>1, Refined, Zenon
    <3>3. QED
      BY <3>1, <3>2
  <2>2. QED
    BY <2>1
<1>7. QED
  BY <1>4, <1>5, <1>6

LEMMA EntryType ==
  ASSUME NEW t \in Addr, NEW va \in Addr, NEW k \in Levels
  PROVE  /\ PteAddr(t, va, k) \in Addr
         /\ EntryAt(t, va, k).ppn \in Nat
         /\ PageAt(EntryAt(t, va, k).ppn) \in Addr
<1>1. PteAddr(t, va, k) \in Addr
  BY PteAddrType
<1>2. EntryAt(t, va, k).ppn \in Nat
  BY <1>1, PageAssumption DEF EntryAt
<1>3. QED
  BY <1>1, <1>2, PageAtType

\* Sums and multiples of multiples of 8, modulo the address space.
LEMMA PageAligned == ASSUME NEW ppn \in Nat PROVE PageAt(ppn) % 8 = 0
<1>1. PICK p \in Nat \ {0} : PageSize = 8 * p
  BY Multiple, SpanShape, PageAssumption
<1>2. ppn * PageSize = 8 * (p * ppn) + 0 /\ p * ppn \in Int /\ ppn * PageSize \in Int
  BY <1>1
<1>3. (ppn * PageSize) % 8 = 0
  BY <1>2, DividedOnce
<1>4. ((ppn * PageSize) % AddrSpace) % 8 = (ppn * PageSize) % 8
  BY <1>2, EightDivides
<1>5. QED
  BY <1>3, <1>4 DEF PageAt

LEMMA PteAligned ==
  ASSUME NEW t \in Addr, NEW va \in Addr, NEW k \in Levels, t % 8 = 0
  PROVE  PteAddr(t, va, k) % 8 = 0
<1> DEFINE i == (va \div Span(k)) % Fanout
<1>1. i \in Int
  <2>1. va \in Int /\ Span(k) \in Nat \ {0} /\ Fanout \in Nat \ {0}
    BY SpanShape, AddrAssumption DEF Addr
  <2>2. va \div Span(k) \in Int
    BY <2>1, Divided
  <2>3. QED
    BY <2>1, <2>2, Divided
<1> HIDE DEF i
<1>2. t \in Int /\ t + 8 * i \in Int
  BY <1>1, AddrAssumption DEF Addr
<1>3. (t + 8 * i) % 8 = t % 8
  BY <1>1, <1>2, SMT
<1>4. ((t + 8 * i) % AddrSpace) % 8 = (t + 8 * i) % 8
  BY <1>2, EightDivides
<1>5. QED
  BY <1>3, <1>4 DEF PteAddr, i

\* A walk from an aligned root reads whole entries, one at each level.
LEMMA TableShape ==
  ASSUME NEW root \in Addr, NEW va \in Addr, NEW k \in Levels, root % 8 = 0
  PROVE  /\ TableOf(root, va, k) \in Addr /\ TableOf(root, va, k) % 8 = 0
         /\ EntryOf(root, va, k).ppn \in Nat
         /\ PteOf(LineOf(PteAddr(TableOf(root, va, k), va, k))) = EntryOf(root, va, k)
<1>1. TableOf(root, va, 2) \in Addr /\ TableOf(root, va, 2) % 8 = 0
  BY DEF TableOf
<1>2. TableOf(root, va, 1) \in Addr /\ TableOf(root, va, 1) % 8 = 0
  BY EntryType, PageAligned, SpanShape DEF TableOf
<1>3. TableOf(root, va, 0) \in Addr /\ TableOf(root, va, 0) % 8 = 0
  <2>1. TableOf(root, va, 0) = PageAt(EntryAt(TableOf(root, va, 1), va, 1).ppn)
    BY DEF TableOf
  <2>2. QED
    BY <1>2, <2>1, EntryType, PageAligned, SpanShape
<1>4. TableOf(root, va, k) \in Addr /\ TableOf(root, va, k) % 8 = 0
  BY <1>1, <1>2, <1>3, SpanShape
<1>5. PteAddr(TableOf(root, va, k), va, k) \in Addr
      /\ PteAddr(TableOf(root, va, k), va, k) % 8 = 0
  BY <1>4, EntryType, PteAligned
<1>6. LineOf(PteAddr(TableOf(root, va, k), va, k)) = PteAddr(TableOf(root, va, k), va, k)
  BY <1>5, AddrAssumption DEF LineOf, Addr
<1>7. PteAddr(TableOf(root, va, k), va, k) # Zero
  BY <1>5, AddrAssumption DEF Addr, Zero
<1>8. QED
  BY <1>4, <1>6, <1>7, EntryType DEF EntryOf, EntryAt, PteOf

\* One level further down.
LEMMA WalkOn ==
  ASSUME NEW root, NEW va, NEW l \in Levels, l # 0, Reaches(root, va, l),
         ~PteInvalid(EntryOf(root, va, l)), ~IsLeaf(EntryOf(root, va, l))
  PROVE  /\ l - 1 \in Levels /\ Reaches(root, va, l - 1)
         /\ TableOf(root, va, l - 1) = PageAt(EntryOf(root, va, l).ppn)
<1>1. l - 1 \in Levels /\ \A k \in Levels : k > l - 1 => k = l \/ k > l
  BY SpanShape
<1>2. Reaches(root, va, l - 1)
  BY <1>1 DEF Reaches
<1>3. l = 1 \/ l = 2
  BY SpanShape
<1>4. TableOf(root, va, l - 1) = PageAt(EntryOf(root, va, l).ppn)
  BY <1>3 DEF TableOf, EntryOf
<1>5. QED
  BY <1>1, <1>2, <1>4

\* What the reference makes of an entry the walk gets to.
LEMMA WalkEnds ==
  ASSUME NEW root, NEW va, NEW access, NEW mode, NEW l \in Levels, Reaches(root, va, l)
  PROVE  LET pte == EntryOf(root, va, l)
         IN  /\ WalkFault(pte, l, access, mode) => Walk2(root, va, access, mode) = Nil
             /\ ~WalkFault(pte, l, access, mode) /\ IsLeaf(pte) =>
                  Walk2(root, va, access, mode) = Leaf(pte.ppn, va, l)
<1> DEFINE e == [k \in Levels |-> EntryOf(root, va, k)]
<1>1. \A k \in Levels : k > l =>
         ~WalkFault(EntryOf(root, va, k), k, access, mode) /\ ~IsLeaf(EntryOf(root, va, k))
  BY SpanShape DEF Reaches, WalkFault
<1>2. EntryOf(root, va, 2) = EntryAt(root, va, 2)
  BY DEF EntryOf, TableOf
<1>3. EntryOf(root, va, 1) = EntryAt(PageAt(EntryOf(root, va, 2).ppn), va, 1)
  BY DEF EntryOf, TableOf
<1>4. EntryOf(root, va, 0) = EntryAt(PageAt(EntryOf(root, va, 1).ppn), va, 0)
  BY DEF EntryOf, TableOf
<1>5. CASE l = 2
  BY <1>5, <1>2 DEF Walk2, Resolve
<1>6. CASE l = 1
  <2>1. Walk2(root, va, access, mode) = Walk1(PageAt(EntryOf(root, va, 2).ppn), va, access, mode)
    BY <1>1, <1>2, <1>6, SpanShape DEF Walk2, Resolve
  <2>2. QED
    BY <1>3, <1>6, <2>1 DEF Walk1, Resolve
<1>7. CASE l = 0
  <2>1. Walk2(root, va, access, mode) = Walk1(PageAt(EntryOf(root, va, 2).ppn), va, access, mode)
    BY <1>1, <1>2, <1>7, SpanShape DEF Walk2, Resolve
  <2>2. Walk2(root, va, access, mode) = Walk0(PageAt(EntryOf(root, va, 1).ppn), va, access, mode)
    BY <1>1, <1>3, <1>7, <2>1, SpanShape DEF Walk1, Resolve
  <2>3. QED
    BY <1>4, <1>7, <2>2 DEF Walk0, Resolve
<1>8. QED
  BY <1>5, <1>6, <1>7, SpanShape

\* The page in the TLB and the offset make the address of the leaf.
LEMMA LeafOfPage ==
  ASSUME NEW ppn \in Nat, NEW va \in Int, NEW l \in Levels
  PROVE  Leaf(ppn, va, l) = (Leaf(ppn, 0, l) + (va % Span(l))) % AddrSpace
<1> DEFINE c == ppn * PageSize
           s == Span(l)
<1>1. s \in Nat \ {0} /\ AddrSpace \in Nat \ {0} /\ c \in Int
  BY SpanShape
<1>2. /\ Leaf(ppn, va, l) = ((c - (c % s)) + (va % s)) % AddrSpace
      /\ Leaf(ppn, 0, l) = ((c - (c % s)) + (0 % s)) % AddrSpace
  BY DEF Leaf
<1> HIDE DEF c, s
<1>3. c % s \in Int /\ va % s \in Int
  BY <1>1, Divided
<1>4. 0 % s = 0
  BY <1>1
<1> DEFINE b == c - (c % s)
           o == va % s
<1>5. b \in Int /\ o \in Int
  BY <1>1, <1>3
<1> HIDE DEF b, o
<1>6. ((b % AddrSpace) + o) % AddrSpace = (b + o) % AddrSpace
  BY <1>1, <1>5, Reduced
<1>7. Leaf(ppn, va, l) = (b + o) % AddrSpace
  BY <1>2 DEF b, o
<1>8. Leaf(ppn, 0, l) = b % AddrSpace
  BY <1>2, <1>4, <1>5 DEF b
<1>9. QED
  BY <1>6, <1>7, <1>8 DEF o, s

LEMMA LeafAligned ==
  ASSUME NEW ppn \in Nat, NEW va \in Int, NEW l \in Levels, va % 8 = 0
  PROVE  Leaf(ppn, va, l) % 8 = 0
<1> DEFINE c == ppn * PageSize
           s == Span(l)
<1>1. s \in Nat \ {0} /\ c \in Int /\ AddrSpace \in Nat \ {0} /\ s % 8 = 0
  BY SpanShape, EightDivides
<1>2. Leaf(ppn, va, l) = ((c - (c % s)) + (va % s)) % AddrSpace
  BY DEF Leaf
<1> HIDE DEF c, s
<1> DEFINE p == c \div s
           q == va \div s
<1>3. p \in Int /\ c % s \in Int /\ c = s * p + (c % s)
  BY <1>1, Divided
<1>4. q \in Int /\ va % s \in Int /\ va = s * q + (va % s)
  BY <1>1, Divided
<1> HIDE DEF p, q
<1>5. PICK e \in Nat \ {0} : s = 8 * e
  BY <1>1, Multiple
<1>6. PICK v \in Int : va = 8 * v
  <2>1. va = 8 * (va \div 8) + (va % 8) /\ va \div 8 \in Int
    BY Divided
  <2>2. QED
    BY <2>1
<1>7. (c - (c % s)) + (va % s) = (s * p - s * q) + va
  <2> DEFINE m == s * p
             n == s * q
             r == c % s
             t == va % s
  <2>1. m \in Int /\ n \in Int /\ r \in Int /\ t \in Int /\ c \in Int
        /\ c = m + r /\ va = n + t
    BY <1>1, <1>3, <1>4
  <2> HIDE DEF m, n, r, t
  <2>2. (c - r) + t = (m - n) + va
    BY <2>1
  <2>3. QED
    BY <2>2 DEF m, n, r, t
<1>8. s * p = 8 * (e * p) /\ s * q = 8 * (e * q) /\ e * p \in Int /\ e * q \in Int
  BY <1>3, <1>4, <1>5
<1> DEFINE a == (c - (c % s)) + (va % s)
           w == (e * p - e * q) + v
<1>9. a = 8 * w + 0 /\ w \in Int /\ a \in Int
  BY <1>6, <1>7, <1>8
<1> HIDE DEF a, w
<1>10. a % 8 = 0
  BY <1>9, DividedOnce
<1>11. (a % AddrSpace) % 8 = a % 8
  BY <1>9, EightDivides
<1>12. QED
  BY <1>2, <1>10, <1>11 DEF a

\* A translation is an address or nothing, and keeps alignment.
LEMMA TranslationShape ==
  ASSUME NEW root \in Addr \cup {Nil}, NEW va \in Addr, NEW access \in Accesses, NEW mode \in Modes,
         root # Nil => root % 8 = 0
  PROVE  LET pa == Translation(va, access, mode, root)
         IN  pa \in Addr \cup {Nil} /\ (va % 8 = 0 /\ pa # Nil => pa % 8 = 0)
<1>1. CASE Translates(mode, root)
  <2>1. \A t \in Addr, k \in Levels : EntryAt(t, va, k).ppn \in Nat /\ PageAt(EntryAt(t, va, k).ppn) \in Addr
    BY EntryType
  <2>2. \A ppn \in Nat, k \in Levels :
          Leaf(ppn, va, k) \in Addr /\ (va % 8 = 0 => Leaf(ppn, va, k) % 8 = 0)
    <3>1. va \in Int
      BY AddrAssumption DEF Addr
    <3>2. QED
      BY <3>1, LeafType, LeafAligned
  <2> DEFINE Good(x) == x \in Addr \cup {Nil} /\ (va % 8 = 0 /\ x # Nil => x % 8 = 0)
  <2>3. \A t \in Addr, k \in Levels : \A deeper :
          Good(deeper) => Good(Resolve(EntryAt(t, va, k), k, va, access, mode, deeper))
    BY <2>1, <2>2 DEF Resolve
  <2>4. Good(Nil)
    OBVIOUS
  <2> HIDE DEF Good
  <2>5. \A t \in Addr : Good(Walk0(t, va, access, mode))
    BY <2>3, <2>4, SpanShape DEF Walk0
  <2>6. \A t \in Addr : Good(Walk1(t, va, access, mode))
    BY <2>1, <2>3, <2>5, SpanShape DEF Walk1
  <2>7. \A t \in Addr : Good(Walk2(t, va, access, mode))
    BY <2>1, <2>3, <2>6, SpanShape DEF Walk2
  <2>8. root \in Addr
    BY <1>1 DEF Translates
  <2>9. QED
    BY <1>1, <2>7, <2>8 DEF Translation, Good
<1>2. CASE ~Translates(mode, root)
  BY <1>2 DEF Translation
<1>3. QED
  BY <1>1, <1>2

-----------------------------------------------------------------------------
(* The translation in force.                                               *)

\* What is known of every state besides what these proofs add.
Grounds ==
    /\ CoreTypeOK /\ PipeInv /\ BusInv /\ AccessInv /\ DeviceStable
    /\ NoSret /\ SatpFromM

\* An access under way is aligned, and the instruction in WB does nothing.
LEMMA Serving ==
  ASSUME Grounds, arbBusy
  PROVE  /\ arbReq.addr \in Addr /\ arbReq.addr % 8 = 0
         /\ W.valid => W.instr = Zero
         /\ ArbAccess \in Accesses
<1>1. arbReq.addr \in Addr
  BY DEF Grounds, CoreTypeOK, ArbTypeOK, Requests
<1>2. W.valid => W.instr = Zero
  BY QuietCycle DEF Grounds
<1>3. ArbAccess \in Accesses
  BY DEF ArbAccess, Accesses
<1>4. CASE arbIndex = FetchPort
  <2>1. arbReq.addr = miss.addr
    BY <1>4 DEF Grounds, AccessInv, BusesInv, MmuServes
  <2>2. miss.pending
    BY <1>4 DEF Grounds, BusInv
  <2>3. QED
    BY <1>1, <1>2, <1>3, <2>1, <2>2 DEF Grounds, AccessInv, MissQuiet
<1>5. CASE arbIndex # FetchPort
  <2>1. MemReq /\ arbReq = DataReq
    BY <1>5 DEF Grounds, BusInv, AccessInv, BusesInv, MmuServes
  <2>2. arbReq.addr = M.alu /\ M.alu % 8 = 0
    BY <2>1 DEF DataReq, MemReq, DataMisaligned
  <2>3. QED
    BY <1>1, <1>2, <1>3, <2>2
<1>6. QED
  BY <1>4, <1>5

\* It changes only together with a cancel, or where nothing is translated.
LEMMA ContextStep ==
  ASSUME Grounds, NEW enable \in BOOLEAN, NEW in \in Inputs, AccessEdge(enable, in),
         ~Cancelled
  PROVE  /\ priv' = priv
         /\ satp' # satp => priv = "M" /\ W.valid /\ W.instr # Zero
         /\ Translates(priv, satp)' <=> Translates(priv, satp)
         /\ \A va, access : Now(va, access)' = Now(va, access)
         /\ arbBusy => UNCHANGED <<priv, satp>>
<1>1. ~TrapValid(in.irq) /\ ~MretValid /\ ~SretValid
  BY DEF AccessEdge, BusCancel
<1>2. CsrWrite(IF W.valid /\ OpOf(W) = "csrw" THEN CsrArg[W.instr] ELSE NoWrite)
  BY <1>1 DEF AccessEdge, PipeClock, TrapClock
<1>3. priv' = priv
  BY <1>2 DEF CsrWrite
<1>4. satp' # satp => W.valid /\ OpOf(W) = "csrw" /\ CsrArg[W.instr].csr = "satp"
  BY <1>2 DEF CsrWrite, NoWrite
<1>5. satp' # satp => priv = "M" /\ W.valid /\ W.instr # Zero
  BY <1>4 DEF Grounds, SatpFromM, OpOf
<1>6. /\ Translates(priv, satp)' <=> Translates(priv, satp)
      /\ \A va, access : Now(va, access)' = Now(va, access)
  <2>1. CASE satp' = satp
    BY <1>3, <2>1 DEF Now, Translation, Translates
  <2>2. CASE priv = "M"
    BY <1>3, <2>2 DEF Now, Translation, Translates
  <2>3. QED
    BY <1>5, <2>1, <2>2
<1>7. arbBusy => UNCHANGED <<priv, satp>>
  BY <1>3, <1>5, Serving
<1>8. QED
  BY <1>3, <1>5, <1>6, <1>7

LEMMA RootStep ==
  ASSUME Grounds, RootAligned, NEW enable, NEW in, AccessEdge(enable, in)
  PROVE  RootAligned'
<1> DEFINE write == IF W.valid /\ OpOf(W) = "csrw" THEN CsrArg[W.instr] ELSE NoWrite
<1>1. satp' = satp \/ (satp' = write.value /\ write.csr = "satp")
  BY DEF AccessEdge, PipeClock, TrapClock, CsrWrite
<1>2. CASE satp' # satp
  <2>1. W.valid /\ OpOf(W) = "csrw" /\ satp' = CsrArg[W.instr].value
        /\ CsrArg[W.instr].csr = "satp"
    BY <1>1, <1>2 DEF NoWrite
  <2>2. W.instr \in Addr
    BY <2>1 DEF OpOf, Grounds, CoreTypeOK, PipeTypeOK, Slot, Words
  <2>3. satp' = Nil \/ satp' % PageSize = 0
    BY <2>1, <2>2, CoreAssumption
  <2>4. CsrArg[W.instr] \in CsrWrites
    BY <2>2, ProgramAssumption
  <2>5. satp' \in Addr \cup {Nil}
    BY <2>1, <2>4 DEF CsrWrites
  <2>6. ASSUME satp' # Nil PROVE satp' % 8 = 0
    <3>1. satp' \in Int
      BY <2>5, <2>6, AddrAssumption DEF Addr
    <3>2. PICK p \in Nat \ {0} : PageSize = 8 * p
      BY Multiple, SpanShape, PageAssumption
    <3>3. PICK q \in Int : satp' = PageSize * q + 0
      BY <2>3, <2>6, <3>1, Divided, SpanShape
    <3>4. satp' = 8 * (p * q) + 0 /\ p * q \in Int
      BY <3>2, <3>3
    <3>5. QED
      BY <3>1, <3>4, DividedOnce
  <2>7. QED
    BY <2>6 DEF RootAligned
<1>3. CASE satp' = satp
  BY <1>3 DEF RootAligned
<1>4. QED
  BY <1>2, <1>3

\* An answer to the walk is the entry it asked for.
LEMMA EntryRead ==
  ASSUME Grounds, RootAligned, WalkRight, NEW enable \in BOOLEAN,
         mmuState = "WAIT", DeviceResp(enable).ok
  PROVE  PteOf(DeviceResp(enable).data) = EntryOf(satp, arbReq.addr, mmuLevel)
<1>1. tx.valid /\ cbReq = tx /\ cbBusy
  BY DEF DeviceResp, NoResponse, Grounds, DeviceStable, CBusReq, NoRequest
<1>2. cbReq = MmuMemReq(FALSE) /\ mmuReq = arbReq /\ arbBusy
  BY <1>1 DEF Grounds, AccessInv, BusesInv, BusServes, MmuServes
<1>3. ~tx.write /\ tx.addr = PteAddr(mmuTable, arbReq.addr, mmuLevel)
  BY <1>1, <1>2 DEF MmuMemReq
<1>4. DeviceResp(enable).data = LineOf(PteAddr(mmuTable, arbReq.addr, mmuLevel))
  BY <1>1, <1>3 DEF DeviceResp, NoResponse
<1>5. mmuTable = TableOf(satp, arbReq.addr, mmuLevel) /\ satp # Nil
  BY DEF WalkRight, Translates
<1>6. satp \in Addr /\ satp % 8 = 0 /\ mmuLevel \in Levels /\ arbReq.addr \in Addr
  BY <1>2, <1>5, Serving DEF RootAligned, Grounds, CoreTypeOK, PipeTypeOK, TrapTypeOK, MmuTypeOK
<1>7. QED
  BY <1>4, <1>5, <1>6, TableShape

\* A row that answers a permitted access gives the address of its leaf.
LEMMA RowServes ==
  ASSUME Grounds, RootAligned, TlbRight, NEW i \in TlbRows, NEW va \in Addr,
         NEW access \in Accesses, TlbServes(va, i), Now(va, access) # Nil
  PROVE  TlbPaddr(va, i) = Now(va, access)
<1> DEFINE e == tlb[i]
           pte == EntryOf(satp, e.va, e.level)
<1>1. tlb[i].valid /\ SamePage(e.va, va, e.level)
  BY DEF TlbServes, TlbMatch
<1>2. /\ Translates(priv, satp) /\ Reaches(satp, e.va, e.level)
      /\ IsLeaf(pte) /\ e.pa = Leaf(pte.ppn, 0, e.level)
  BY <1>1 DEF TlbRight
<1>3. e.level \in Levels /\ e.va \in Addr /\ satp \in Addr /\ satp % 8 = 0
  BY <1>2 DEF Grounds, CoreTypeOK, MmuTypeOK, TlbEntries, PipeTypeOK, TrapTypeOK, RootAligned,
              Translates
<1>4. va \in Int /\ e.va \in Int
  BY <1>3, AddrAssumption DEF Addr
<1>5. \A k \in Levels : k >= e.level => EntryOf(satp, va, k) = EntryOf(satp, e.va, k)
  BY <1>1, <1>3, <1>4, SameEntries
<1>6. Reaches(satp, va, e.level) /\ EntryOf(satp, va, e.level) = pte
  BY <1>2, <1>3, <1>5, SpanShape DEF Reaches
<1>7. pte.ppn \in Nat
  BY <1>3, TableShape
<1> HIDE DEF pte
<1>8. Now(va, access) = Leaf(pte.ppn, va, e.level)
  BY <1>2, <1>3, <1>6, WalkEnds DEF Now, Translation
<1>9. QED
  BY <1>2, <1>3, <1>4, <1>7, <1>8, LeafOfPage DEF TlbPaddr
-----------------------------------------------------------------------------
(* The walk, the access it is for, and what is remembered of them.         *)

LEMMA WalkStep ==
  ASSUME Grounds, RootAligned, WalkRight, NEW enable \in BOOLEAN, NEW in \in Inputs,
         AccessEdge(enable, in)
  PROVE  WalkRight'
<1> SUFFICES ASSUME mmuState' \in {"REQ", "WAIT"} PROVE WalkRight'
  BY DEF WalkRight
<1>1. /\ ~Cancelled /\ arbBusy /\ UNCHANGED arbVars /\ UNCHANGED <<priv, satp>>
      /\ \/ mmuState = "IDLE" /\ MmuTake(arbReq, priv, satp)
         \/ MmuAsk
         \/ UNCHANGED mmuVars
         \/ /\ DeviceResp(enable).ok
            /\ MmuWalk(ArbAccess, priv, DeviceResp(enable))
  <2>1. ~Cancelled /\ arbBusy /\ UNCHANGED arbVars
        /\ \/ mmuState = "IDLE" /\ MmuTake(arbReq, priv, satp)
           \/ MmuAsk
           \/ UNCHANGED mmuVars
           \/ /\ DeviceResp(enable).ok
              /\ MmuWalk(ArbAccess, priv, DeviceResp(enable))
    BY MmuMoves DEF Grounds, MmuFlush, MmuAccessDone, MmuFinish
  <2>2. UNCHANGED <<priv, satp>>
    BY <2>1, ContextStep
  <2>3. QED
    BY <2>1, <2>2
<1>2. arbReq' = arbReq /\ priv' = priv /\ satp' = satp
  BY <1>1 DEF arbVars
<1>3. CASE mmuState = "IDLE" /\ MmuTake(arbReq, priv, satp)
  <2>1. Translates(priv, satp) /\ mmuLevel' = 2 /\ mmuTable' = satp
    BY <1>3 DEF MmuTake, MmuPhysical, Translates
  <2>2. Reaches(satp, arbReq.addr, 2) /\ TableOf(satp, arbReq.addr, 2) = satp
    BY SpanShape DEF Reaches, TableOf
  <2>3. QED
    BY <1>2, <2>1, <2>2 DEF WalkRight
<1>4. CASE MmuAsk
  BY <1>2, <1>4 DEF MmuAsk, WalkRight
<1>5. CASE UNCHANGED mmuVars
  BY <1>2, <1>5 DEF mmuVars, walkVars, WalkRight
<1>6. CASE DeviceResp(enable).ok /\ MmuWalk(ArbAccess, priv, DeviceResp(enable))
  <2> DEFINE pte == PteOf(DeviceResp(enable).data)
  <2>1. mmuState = "WAIT"
    BY <1>6 DEF MmuWalk
  <2>2. pte = EntryOf(satp, arbReq.addr, mmuLevel)
    BY <1>6, <2>1, EntryRead
  <2>3. MmuPointer(ArbAccess, priv, pte)
    BY <1>6 DEF MmuWalk, MmuRaise, MmuLeaf
  <2> HIDE DEF pte
  <2>4. /\ mmuLevel \in Levels /\ Reaches(satp, arbReq.addr, mmuLevel)
        /\ Translates(priv, satp)
    BY <2>1 DEF WalkRight, Grounds, CoreTypeOK, MmuTypeOK
  <2>5. /\ ~PteInvalid(pte) /\ ~IsLeaf(pte) /\ mmuLevel # 0
        /\ mmuLevel' = mmuLevel - 1 /\ mmuTable' = PageAt(pte.ppn)
    BY <2>3 DEF MmuPointer, WalkFault
  <2>6. /\ Reaches(satp, arbReq.addr, mmuLevel - 1)
        /\ TableOf(satp, arbReq.addr, mmuLevel - 1) = PageAt(pte.ppn)
    BY <2>2, <2>4, <2>5, WalkOn
  <2>7. QED
    BY <1>2, <2>4, <2>5, <2>6 DEF WalkRight
<1>7. QED
  BY <1>1, <1>3, <1>4, <1>5, <1>6

\* What a walk that ends has found.
LEMMA WalkFound ==
  ASSUME Grounds, RootAligned, WalkRight, NEW enable \in BOOLEAN,
         mmuState = "WAIT", DeviceResp(enable).ok
  PROVE  LET pte == PteOf(DeviceResp(enable).data)
         IN  /\ mmuReq = arbReq /\ mmuLevel \in Levels
             /\ Translates(priv, satp) /\ Reaches(satp, arbReq.addr, mmuLevel)
             /\ pte = EntryOf(satp, arbReq.addr, mmuLevel)
             /\ WalkFault(pte, mmuLevel, ArbAccess, priv) => Now(arbReq.addr, ArbAccess) = Nil
             /\ ~WalkFault(pte, mmuLevel, ArbAccess, priv) /\ IsLeaf(pte) =>
                  Now(arbReq.addr, ArbAccess) = Leaf(pte.ppn, arbReq.addr, mmuLevel)
<1> DEFINE pte == PteOf(DeviceResp(enable).data)
<1>1. pte = EntryOf(satp, arbReq.addr, mmuLevel)
  BY EntryRead
<1>2. /\ mmuLevel \in Levels /\ Reaches(satp, arbReq.addr, mmuLevel)
      /\ Translates(priv, satp)
  BY DEF WalkRight, Grounds, CoreTypeOK, MmuTypeOK
<1>3. mmuReq = arbReq
  BY DEF Grounds, AccessInv, BusesInv, MmuServes
<1> HIDE DEF pte
<1>4. Now(arbReq.addr, ArbAccess) = Walk2(satp, arbReq.addr, ArbAccess, priv)
  BY <1>2 DEF Now, Translation
<1>5. QED
  BY <1>1, <1>2, <1>3, <1>4, WalkEnds DEF pte

LEMMA AccessRightStep ==
  ASSUME Grounds, RootAligned, WalkRight, AccessRight, TlbRight, HitsPermitted,
         NEW enable \in BOOLEAN, NEW in \in Inputs, AccessEdge(enable, in)
  PROVE  AccessRight'
<1> DEFINE resp == DeviceResp(enable)
           pte == PteOf(resp.data)
<1>1. CASE mmuState' \notin {"REQ_P", "WAIT_P", "RESP"} /\ mmuFault' = "none"
  BY <1>1 DEF AccessRight
<1>2. ASSUME ~Cancelled, arbBusy, UNCHANGED arbVars
      PROVE  /\ arbReq' = arbReq /\ ArbAccess' = ArbAccess
             /\ Now(arbReq.addr, ArbAccess)' = Now(arbReq.addr, ArbAccess)
  <2>1. UNCHANGED <<priv, satp>>
    BY <1>2, ContextStep
  <2>2. QED
    BY <1>2, <2>1 DEF arbVars, ArbAccess, Now, Translation, Translates
<1>3. CASE /\ ~Cancelled /\ arbBusy /\ mmuState = "IDLE" /\ UNCHANGED arbVars
           /\ MmuTake(arbReq, priv, satp) /\ mmuFault' = "none"
  <2>1. arbReq.addr \in Addr /\ ArbAccess \in Accesses
    BY <1>3, Serving
  <2>2. mmuState' = "REQ_P" => mmuPaddr' = Now(arbReq.addr, ArbAccess)
    <3>1. CASE ~Translates(priv, satp)
      BY <1>3, <3>1 DEF MmuTake, MmuPhysical, Now, Translation
    <3>2. CASE Translates(priv, satp) /\ mmuState' = "REQ_P"
      <4>1. PICK i \in TlbRows : TlbServes(arbReq.addr, i) /\ mmuPaddr' = TlbPaddr(arbReq.addr, i)
        BY <1>3, <3>2 DEF MmuTake, MmuPhysical
      <4>2. Now(arbReq.addr, ArbAccess) # Nil
        BY <1>3, <3>2, <4>1 DEF HitsPermitted, Now
      <4>3. QED
        BY <2>1, <4>1, <4>2, RowServes
    <3>3. QED
      BY <3>1, <3>2
  <2>3. mmuState' \in {"REQ", "REQ_P"}
    BY <1>3 DEF MmuTake, MmuPhysical
  <2>4. QED
    BY <1>2, <1>3, <2>2, <2>3 DEF AccessRight, Now
<1>4. CASE ~Cancelled /\ arbBusy /\ MmuAsk /\ UNCHANGED arbVars
  BY <1>2, <1>4 DEF MmuAsk, AccessRight, Now
<1>5. CASE /\ ~Cancelled /\ arbBusy /\ UNCHANGED arbVars
           /\ mmuState \in {"WAIT", "WAIT_P"} /\ UNCHANGED mmuVars
  BY <1>2, <1>5 DEF mmuVars, walkVars, AccessRight, Now
<1>6. CASE /\ ~Cancelled /\ arbBusy /\ UNCHANGED arbVars
           /\ resp.ok /\ MmuWalk(ArbAccess, priv, resp)
  <2>1. mmuState = "WAIT"
    BY <1>6 DEF MmuWalk
  <2>2. /\ mmuReq = arbReq
        /\ WalkFault(pte, mmuLevel, ArbAccess, priv) => Now(arbReq.addr, ArbAccess) = Nil
        /\ ~WalkFault(pte, mmuLevel, ArbAccess, priv) /\ IsLeaf(pte) =>
             Now(arbReq.addr, ArbAccess) = Leaf(pte.ppn, arbReq.addr, mmuLevel)
    BY <1>6, <2>1, WalkFound
  <2>3. mmuFault = "none" /\ ArbAccess # "none"
    BY <2>1, <1>6, Serving DEF Grounds, AccessInv, BusesInv, MmuServes, Accesses
  <2>4. \/ MmuRaise(ArbAccess, priv, pte)
        \/ MmuLeaf(ArbAccess, priv, pte)
        \/ MmuPointer(ArbAccess, priv, pte)
    BY <1>6 DEF MmuWalk
  <2> HIDE DEF pte
  <2>5. CASE MmuRaise(ArbAccess, priv, pte)
    BY <1>2, <1>6, <2>2, <2>3, <2>5 DEF MmuRaise, AccessRight, Now
  <2>6. CASE MmuLeaf(ArbAccess, priv, pte)
    BY <1>2, <1>6, <2>2, <2>3, <2>6 DEF MmuLeaf, AccessRight, Now
  <2>7. CASE MmuPointer(ArbAccess, priv, pte)
    BY <1>1, <2>3, <2>7 DEF MmuPointer
  <2>8. QED
    BY <2>4, <2>5, <2>6, <2>7
<1>7. CASE /\ ~Cancelled /\ arbBusy /\ cbBusy /\ UNCHANGED arbVars
           /\ resp.ok /\ MmuAccessDone(resp)
  <2>1. mmuState = "WAIT_P" /\ mmuPaddr = Now(arbReq.addr, ArbAccess) /\ mmuFault = "none"
    BY <1>7 DEF MmuAccessDone, AccessRight, Now, Grounds, AccessInv, BusesInv, MmuServes
  <2>2. tx.valid /\ tx = cbReq /\ cbReq = MmuMemReq(FALSE) /\ mmuReq = arbReq
    BY <1>7, <2>1 DEF DeviceResp, NoResponse, Grounds, DeviceStable, CBusReq, NoRequest,
                      AccessInv, BusesInv, BusServes, MmuServes
  <2>3. tx.addr = mmuPaddr /\ tx.write = arbReq.write
    BY <2>1, <2>2 DEF MmuMemReq, Grounds, CoreTypeOK, ArbTypeOK, Requests
  <2>4. mmuPaddr \in Addr /\ mmuPaddr % 8 = 0
    <3>1. mmuPaddr \in Addr /\ satp \in Addr \cup {Nil} /\ priv \in Modes
      BY DEF Grounds, CoreTypeOK, MmuTypeOK, PipeTypeOK, TrapTypeOK
    <3>2. mmuPaddr # Nil
      BY <3>1, AddrAssumption DEF Addr, Nil
    <3>3. QED
      BY <1>7, <2>1, <3>1, <3>2, Serving, TranslationShape DEF RootAligned, Now
  <2>5. LineOf(mmuPaddr) = mmuPaddr
    BY <2>4, AddrAssumption DEF LineOf, Addr
  <2>6. ~arbReq.write => resp.data = mmuPaddr
    BY <1>7, <2>2, <2>3, <2>5 DEF DeviceResp, NoResponse
  <2> HIDE DEF resp
  <2>7. mmuState' = "RESP" /\ mmuResp' = resp /\ mmuPaddr' = mmuPaddr /\ mmuFault' = mmuFault
    BY <1>7 DEF MmuAccessDone
  <2>8. QED
    BY <1>2, <1>7, <2>1, <2>6, <2>7 DEF AccessRight, Now
<1>8. CASE Cancelled /\ MmuFlush
  BY <1>1, <1>8 DEF MmuFlush
<1>9. CASE ~Cancelled /\ MmuFinish
  <2>1. mmuFault = "none"
    BY <1>9, QuietCycle DEF Grounds
  <2>2. QED
    BY <1>1, <1>9, <2>1 DEF MmuFinish
<1>10. CASE mmuState' = "IDLE" /\ mmuFault' = "none"
  BY <1>1, <1>10
<1>11. QED
  BY <1>3, <1>4, <1>5, <1>6, <1>7, <1>8, <1>9, <1>10, MmuMoves DEF Grounds

\* Rows are written by a walk that found a leaf, and a change of context
\* meets an empty TLB or empties it.
LEMMA TlbStep ==
  ASSUME Grounds, RootAligned, WalkRight, TlbRight,
         NEW enable \in BOOLEAN, NEW in \in Inputs, AccessEdge(enable, in)
  PROVE  TlbRight'
<1> DEFINE resp == DeviceResp(enable)
           pte == PteOf(resp.data)
           Right(e, mode, root) ==
               /\ Translates(mode, root) /\ Reaches(root, e.va, e.level)
               /\ IsLeaf(EntryOf(root, e.va, e.level))
               /\ e.pa = Leaf(EntryOf(root, e.va, e.level).ppn, 0, e.level)
               /\ \E access \in Accesses :
                     ~WalkFault(EntryOf(root, e.va, e.level), e.level, access, mode)
<1>1. TlbRight <=> \A i \in TlbRows : tlb[i].valid => Right(tlb[i], priv, satp)
  BY DEF TlbRight
<1>2. TlbRight' <=> \A i \in TlbRows : tlb'[i].valid => Right(tlb'[i], priv', satp')
  BY DEF TlbRight
<1>3. CASE Cancelled /\ MmuFlush
  BY <1>3 DEF MmuFlush, TlbRight, NoEntry
<1>4. CASE ~Cancelled /\ tlb' = tlb
  <2>1. CASE UNCHANGED <<priv, satp>>
    BY <1>1, <1>2, <1>4, <2>1
  <2>2. CASE ~UNCHANGED <<priv, satp>>
    <3>1. priv = "M"
      BY <1>4, <2>2, ContextStep
    <3>2. \A i \in TlbRows : ~tlb[i].valid
      BY <3>1 DEF TlbRight, Translates
    <3>3. QED
      BY <1>2, <1>4, <3>2
  <2>3. QED
    BY <2>1, <2>2
<1>5. CASE /\ ~Cancelled /\ arbBusy /\ resp.ok /\ mmuState = "WAIT"
           /\ MmuLeaf(ArbAccess, priv, pte)
  <2> DEFINE new == [valid |-> TRUE, va |-> mmuReq.addr, level |-> mmuLevel,
                     pa |-> Leaf(pte.ppn, 0, mmuLevel)]
  <2>1. tlb' = [tlb EXCEPT ![tlbPtr] = new] /\ UNCHANGED <<priv, satp>>
    BY <1>5, ContextStep DEF MmuLeaf
  <2>2. /\ mmuReq = arbReq /\ mmuLevel \in Levels
        /\ Translates(priv, satp) /\ Reaches(satp, arbReq.addr, mmuLevel)
        /\ pte = EntryOf(satp, arbReq.addr, mmuLevel)
    BY <1>5, WalkFound
  <2>3. ArbAccess \in Accesses
    BY <1>5, Serving
  <2>4. IsLeaf(pte) /\ ~WalkFault(pte, mmuLevel, ArbAccess, priv)
    BY <1>5 DEF MmuLeaf
  <2> HIDE DEF pte
  <2>5. Right(new, priv, satp)
    BY <2>2, <2>3, <2>4
  <2>6. tlb \in [TlbRows -> TlbEntries]
    BY DEF Grounds, CoreTypeOK, MmuTypeOK
  <2> HIDE DEF new, Right
  <2>7. \A i \in TlbRows : tlb'[i] = new \/ tlb'[i] = tlb[i]
    BY <2>1, <2>6
  <2>8. QED
    BY <1>1, <1>2, <2>1, <2>5, <2>7
<1>6. \/ Cancelled /\ MmuFlush
      \/ ~Cancelled /\ tlb' = tlb
      \/ /\ ~Cancelled /\ arbBusy /\ resp.ok /\ MmuWalk(ArbAccess, priv, resp)
  BY MmuMoves DEF Grounds, MmuAsk, MmuAccessDone, MmuFinish, mmuVars
<1>7. CASE ~Cancelled /\ arbBusy /\ resp.ok /\ MmuWalk(ArbAccess, priv, resp)
  <2>1. mmuState = "WAIT" /\ (tlb' = tlb \/ MmuLeaf(ArbAccess, priv, pte))
    BY <1>7 DEF MmuWalk, MmuRaise, MmuPointer
  <2>2. QED
    BY <1>4, <1>5, <1>7, <2>1
<1>8. QED
  BY <1>3, <1>4, <1>6, <1>7

\* A line arrives for the fetch that missed, in the context it was asked in.
LEMMA LineStep ==
  ASSUME Grounds, AccessRight, LineCurrent,
         NEW enable \in BOOLEAN, NEW in \in Inputs, AccessEdge(enable, in)
  PROVE  LineCurrent'
<1>1. BridgeClock(Cancelled, fReq, FetchAnswer)
  BY DEF AccessEdge
<1>2. CASE Cancelled /\ BridgeCancel
  BY <1>2 DEF BridgeCancel, NoLine, LineCurrent
<1>3. CASE ~Cancelled /\ line' = line
  <2>1. Now(line.addr, "FETCH")' = Now(line'.addr, "FETCH")
    BY <1>3, ContextStep
  <2>2. QED
    BY <1>3, ContextStep DEF LineCurrent, Now
<1>4. CASE ~Cancelled /\ BridgeFill(FetchAnswer)
  <2>1. Answers(FetchPort) /\ FetchAnswer = mmuResp /\ mmuState = "RESP"
    BY <1>4 DEF BridgeFill, FetchAnswer, NoResponse, Answers, Answered
  <2>2. mmuFault = "none" /\ arbBusy
    BY <1>4, <2>1, QuietCycle DEF Grounds, Answers
  <2>3. arbReq = [valid |-> TRUE, addr |-> miss.addr, write |-> FALSE]
    BY <2>1, <2>2 DEF Grounds, AccessInv, BusesInv, MmuServes, Answers
  <2>4. ArbAccess = "FETCH"
    BY <2>1 DEF ArbAccess, Answers, FetchPort
  <2>5. mmuResp.data = Now(miss.addr, "FETCH")
    BY <2>1, <2>2, <2>3, <2>4 DEF AccessRight, Now
  <2>6. UNCHANGED <<priv, satp>>
    BY <1>4, <2>2, ContextStep
  <2>7. line' = [valid |-> TRUE, addr |-> miss.addr, data |-> mmuResp.data]
    BY <1>4, <2>1 DEF BridgeFill
  <2>8. QED
    BY <2>5, <2>6, <2>7 DEF LineCurrent, Now, Translation, Translates
<1>5. QED
  BY <1>1, <1>2, <1>3, <1>4 DEF BridgeClock, BridgeMiss, bridgeVars

\* What the port answers a load with is the data of its own access.
LEMMA AnswerOwn ==
  ASSUME Grounds, AccessRight, ~Cancelled, MemReq, Answers(DataPort)
  PROVE  /\ mmuPaddr = Now(M.alu, IF OpOf(M) = "store" THEN "STORE" ELSE "LOAD")
         /\ OpOf(M) = "load" => mmuResp.data = mmuPaddr
<1>1. arbBusy /\ arbIndex = DataPort /\ mmuState = "RESP" /\ mmuFault = "none"
  BY QuietCycle DEF Grounds, Answers, Answered
<1>2. arbReq = [valid |-> TRUE, addr |-> M.alu, write |-> OpOf(M) = "store"]
  BY <1>1 DEF Grounds, AccessInv, BusesInv, MmuServes, DataReq, DataPort, FetchPort
<1>3. ArbAccess = IF OpOf(M) = "store" THEN "STORE" ELSE "LOAD"
  <2>1. arbReq.write <=> OpOf(M) = "store"
    BY <1>2
  <2>2. QED
    BY <1>1, <2>1 DEF ArbAccess, DataPort
<1>4. QED
  BY <1>1, <1>2, <1>3 DEF AccessRight, Now

LEMMA LoadStep ==
  ASSUME Grounds, AccessRight, LoadOwn,
         NEW enable \in BOOLEAN, NEW in \in Inputs, AccessEdge(enable, in)
  PROVE  LoadOwn'
<1> SUFFICES ASSUME W'.valid, OpOf(W)' = "load", ~ExceptionW'
             PROVE  W'.val = Now(W.alu, "LOAD")'
  BY DEF LoadOwn, Completes, Now
<1>1. MemWbClock(in)
  BY DEF AccessEdge, PipeClock
<1>2. OneInFlight
  BY SpacingSuffices DEF Grounds, CoreTypeOK
<1>3. MemStall(in) => M.valid /\ W' = W
  BY <1>1 DEF MemStall, MemReq, MemWbClock
<1>4. ~MemStall(in)
  BY <1>2, <1>3 DEF OneInFlight
<1>5. W' = [M EXCEPT !.dexc = DataMisaligned(M),
                     !.dpf = in.fault \in {"LOAD", "STORE"},
                     !.val = IF OpOf(M) = "load" THEN in.dval ELSE M.val]
  BY <1>1, <1>4 DEF MemWbClock
<1>6. M \in Slot
  BY DEF Grounds, CoreTypeOK, PipeTypeOK
<1>7. /\ M.valid /\ OpOf(M) = "load" /\ ~DataMisaligned(M) /\ in.fault \notin {"LOAD", "STORE"}
      /\ W'.val = in.dval /\ W'.alu = M.alu
  BY <1>5, <1>6 DEF Slot, OpOf, ExceptionW
<1>8. MemReq /\ ~W.valid /\ mmuFault = in.fault
  BY <1>2, <1>7 DEF MemReq, OneInFlight, AccessEdge
<1>9. ~Cancelled
  BY <1>7, <1>8, QuietCycle DEF Grounds, ExceptionW, MretValid
<1>10. Answers(DataPort) /\ in.dval = mmuResp.data
  BY <1>4, <1>8, <1>9 DEF MemStall, AccessEdge, BusCancel
<1>11. W'.val = Now(M.alu, "LOAD")
  BY <1>7, <1>8, <1>9, <1>10, AnswerOwn
<1>12. arbBusy
  BY <1>10 DEF Answers
<1>13. UNCHANGED <<priv, satp>>
  BY <1>9, <1>12, ContextStep
<1>14. QED
  BY <1>7, <1>11, <1>13 DEF Now, Translation, Translates

\* What the walks and the rows of the TLB are right about by themselves, and
\* what the accesses are right about while the rows serve permitted ones.
TableInv == RootAligned /\ WalkRight /\ TlbRight
TranslateInv == TableInv /\ AccessRight /\ LineCurrent /\ LoadOwn

LEMMA TranslateInit == CoreInit => TranslateInv
<1> SUFFICES ASSUME CoreInit PROVE TranslateInv
  OBVIOUS
<1> USE DEF CoreInit, PipeInit
<1>1. RootAligned
  BY DEF TrapInit, RootAligned
<1>2. WalkRight /\ AccessRight
  BY DEF MmuInit, WalkRight, AccessRight
<1>3. TlbRight
  BY DEF MmuInit, NoEntry, TlbRight
<1>4. LineCurrent
  BY DEF BridgeInit, NoLine, LineCurrent
<1>5. LoadOwn
  BY DEF Bubble, LoadOwn, Completes
<1>6. QED
  BY <1>1, <1>2, <1>3, <1>4, <1>5 DEF TranslateInv, TableInv

LEMMA TableStep ==
  ASSUME NoInterrupts, Grounds, TableInv, [CoreNext]_coreVars
  PROVE  TableInv'
<1> USE DEF TableInv
<1>1. CASE CoreNext
  <2>1. PICK enable \in BOOLEAN, in \in Inputs : AccessEdge(enable, in)
    BY <1>1, AccessClock DEF Grounds, AccessInv, BusesInv
  <2>2. RootAligned'
    BY <2>1, RootStep
  <2>3. WalkRight'
    BY <2>1, WalkStep
  <2>4. TlbRight'
    BY <2>1, TlbStep
  <2>5. QED
    BY <2>2, <2>3, <2>4
<1>2. CASE UNCHANGED coreVars
  <2> USE <1>2 DEF coreVars, pipeVars, trapVars, arbVars, mmuVars, walkVars
  <2>1. RootAligned' /\ WalkRight' /\ TlbRight'
    BY DEF RootAligned, WalkRight, TlbRight
  <2>2. QED
    BY <2>1
<1>3. QED
  BY <1>1, <1>2

LEMMA TranslateStep ==
  ASSUME NoInterrupts, Grounds, HitsPermitted, TranslateInv, [CoreNext]_coreVars
  PROVE  TranslateInv'
<1>1. TableInv'
  BY TableStep DEF TranslateInv
<1> USE DEF TranslateInv, TableInv
<1>2. CASE CoreNext
  <2>1. PICK enable \in BOOLEAN, in \in Inputs : AccessEdge(enable, in)
    BY <1>2, AccessClock DEF Grounds, AccessInv, BusesInv
  <2>2. AccessRight'
    BY <2>1, AccessRightStep
  <2>3. LineCurrent'
    BY <2>1, LineStep
  <2>4. LoadOwn'
    BY <2>1, LoadStep
  <2>5. QED
    BY <1>1, <2>2, <2>3, <2>4
<1>3. CASE UNCHANGED coreVars
  <2> USE <1>3 DEF coreVars, pipeVars, trapVars, slotVars, bridgeVars, arbVars, mmuVars, walkVars
  <2>1. AccessRight'
    BY DEF AccessRight, ArbAccess, Translation, Translates
  <2>2. LineCurrent'
    BY DEF LineCurrent, Translation, Translates
  <2>3. LoadOwn'
    BY DEF LoadOwn, Completes, OpOf, ExceptionW, Translation, Translates
  <2>4. QED
    BY <1>1, <2>1, <2>2, <2>3
<1>4. QED
  BY <1>2, <1>3

-----------------------------------------------------------------------------
(* The two words of a line.                                                *)

\* The address of the second word of the doubleword at an address.
SecondWord(pa) == IF pa = Nil THEN Nil ELSE Plus4(pa)

\* Four bytes on, within a multiple of 8.
LEMMA FourOn ==
  ASSUME NEW d \in Nat \ {0}, d % 8 = 0, NEW x \in Int, x % 8 = 0
  PROVE  (x + 4) \div d = x \div d /\ (x + 4) % d = (x % d) + 4
<1> DEFINE q == x \div d
           r == x % d
<1>1. q \in Int /\ r \in 0 .. d - 1 /\ x = d * q + r
  BY Divided
<1>2. PICK e \in Nat \ {0} : d = 8 * e
  BY Multiple
<1>3. r % 8 = 0
  <2>1. (x % (8 * e)) % 8 = x % 8
    <3>1. 8 \in Nat \ {0}
      OBVIOUS
    <3>2. QED
      BY <3>1, Refined, Zenon
  <2>2. QED
    BY <1>2, <2>1
<1> HIDE DEF q, r
<1>4. r + 4 \in 0 .. d - 1
  <2>1. r = 8 * (r \div 8) + 0 /\ r \div 8 \in Int
    BY <1>1, <1>3, Divided
  <2>2. r \div 8 < e
    BY <1>1, <1>2, <2>1
  <2>3. QED
    BY <1>1, <1>2, <2>1, <2>2
<1>5. x + 4 = d * q + (r + 4) /\ x + 4 \in Int
  <2> DEFINE m == d * q
  <2>1. m \in Int /\ x = m + r
    BY <1>1
  <2> HIDE DEF m
  <2>2. x + 4 = m + (r + 4)
    BY <1>1, <2>1
  <2>3. QED
    BY <2>2 DEF m
<1>6. (x + 4) \div d = q /\ (x + 4) % d = r + 4
  BY <1>1, <1>4, <1>5, DividedOnce
<1>7. QED
  BY <1>6 DEF q, r

\* Both words have the same entries, and a leaf puts one behind the other.
LEMMA SecondOfPage ==
  ASSUME NEW va \in Int, va % 8 = 0, NEW k \in Levels
  PROVE  /\ \A t : EntryAt(t, va + 4, k) = EntryAt(t, va, k)
         /\ \A ppn \in Nat : Leaf(ppn, va, k) # Nil
                             /\ Leaf(ppn, va + 4, k) = Plus4(Leaf(ppn, va, k))
<1>1. Span(k) \in Nat \ {0} /\ Span(k) % 8 = 0 /\ AddrSpace \in Nat \ {0}
  BY SpanShape, EightDivides
<1>2. (va + 4) \div Span(k) = va \div Span(k) /\ (va + 4) % Span(k) = (va % Span(k)) + 4
  BY <1>1, FourOn
<1>3. \A t : EntryAt(t, va + 4, k) = EntryAt(t, va, k)
  BY <1>2 DEF EntryAt, PteAddr
<1>4. ASSUME NEW ppn \in Nat
      PROVE  Leaf(ppn, va, k) # Nil /\ Leaf(ppn, va + 4, k) = Plus4(Leaf(ppn, va, k))
  <2> DEFINE c == ppn * PageSize
             b == c - (c % Span(k))
             o == va % Span(k)
  <2>1. b \in Int /\ o \in Int
    <3>1. c \in Int
      BY SpanShape
    <3> HIDE DEF c
    <3>2. c % Span(k) \in 0 .. Span(k) - 1 /\ o \in 0 .. Span(k) - 1
      BY <1>1, <3>1, Divided, Zenon
    <3>3. QED
      BY <1>1, <3>1, <3>2
  <2>2. /\ Leaf(ppn, va, k) = (b + o) % AddrSpace
        /\ Leaf(ppn, va + 4, k) = (b + (o + 4)) % AddrSpace
    BY <1>2 DEF Leaf
  <2> HIDE DEF b, o
  <2>3. b + o \in Int /\ b + (o + 4) = (b + o) + 4
    BY <2>1
  <2>4. (((b + o) % AddrSpace) + 4) % AddrSpace = ((b + o) + 4) % AddrSpace
    BY <1>1, <2>3, Reduced
  <2>5. (b + o) % AddrSpace \in 0 .. AddrSpace - 1
    BY <1>1, <2>3, Divided
  <2>6. QED
    BY <1>1, <2>2, <2>3, <2>4, <2>5 DEF Plus4, Nil
<1>5. QED
  BY <1>3, <1>4

\* Translation takes the second word of a doubleword to the second word.
LEMMA SecondTranslated ==
  ASSUME NEW va \in Addr, va % 8 = 0, va + 4 \in Addr, NEW access \in Accesses,
         NEW mode \in Modes, NEW root \in Addr \cup {Nil}
  PROVE  Translation(va + 4, access, mode, root)
            = SecondWord(Translation(va, access, mode, root))
<1>1. va \in Int /\ AddrSpace \in Nat \ {0}
  BY AddrAssumption DEF Addr
<1>2. CASE ~Translates(mode, root)
  <2>1. (va + 4) % AddrSpace = va + 4 /\ va # Nil
    BY <1>1 DEF Addr, Nil
  <2>2. QED
    BY <1>2, <2>1 DEF Translation, SecondWord, Plus4
<1>3. CASE Translates(mode, root)
  <2> DEFINE Resolved(t, v, k, deeper) ==
               Resolve(EntryAt(t, v, k), k, v, access, mode, deeper)
  <2>1. ASSUME NEW t \in Addr, NEW k \in Levels, NEW one, NEW two, two = SecondWord(one)
        PROVE  Resolved(t, va + 4, k, two) = SecondWord(Resolved(t, va, k, one))
    BY <1>1, <2>1, SecondOfPage, EntryType DEF Resolve, SecondWord
  <2>2. SecondWord(Nil) = Nil
    BY DEF SecondWord
  <2>3. \A t \in Addr, k \in Levels :
           /\ EntryAt(t, va + 4, k) = EntryAt(t, va, k)
           /\ PageAt(EntryAt(t, va, k).ppn) \in Addr
    BY <1>1, SecondOfPage, EntryType
  <2>4. \A t \in Addr : Walk0(t, va + 4, access, mode) = SecondWord(Walk0(t, va, access, mode))
    BY <2>1, <2>2, SpanShape DEF Walk0
  <2>5. \A t \in Addr : Walk1(t, va + 4, access, mode) = SecondWord(Walk1(t, va, access, mode))
    <3> SUFFICES ASSUME NEW t \in Addr
                 PROVE  Walk1(t, va + 4, access, mode) = SecondWord(Walk1(t, va, access, mode))
      OBVIOUS
    <3> DEFINE next == PageAt(EntryAt(t, va, 1).ppn)
               one == Walk0(next, va, access, mode)
               two == Walk0(next, va + 4, access, mode)
    <3>1. two = SecondWord(one)
      BY <2>3, <2>4, SpanShape
    <3>2. /\ Walk1(t, va, access, mode) = Resolved(t, va, 1, one)
          /\ Walk1(t, va + 4, access, mode) = Resolved(t, va + 4, 1, two)
      BY <2>3, SpanShape DEF Walk1
    <3> HIDE DEF one, two, Resolved
    <3>3. QED
      BY <2>1, <3>1, <3>2, SpanShape
  <2>6. \A t \in Addr : Walk2(t, va + 4, access, mode) = SecondWord(Walk2(t, va, access, mode))
    <3> SUFFICES ASSUME NEW t \in Addr
                 PROVE  Walk2(t, va + 4, access, mode) = SecondWord(Walk2(t, va, access, mode))
      OBVIOUS
    <3> DEFINE next == PageAt(EntryAt(t, va, 2).ppn)
               one == Walk1(next, va, access, mode)
               two == Walk1(next, va + 4, access, mode)
    <3>1. two = SecondWord(one)
      BY <2>3, <2>5, SpanShape
    <3>2. /\ Walk2(t, va, access, mode) = Resolved(t, va, 2, one)
          /\ Walk2(t, va + 4, access, mode) = Resolved(t, va + 4, 2, two)
      BY <2>3, SpanShape DEF Walk2
    <3> HIDE DEF one, two, Resolved
    <3>3. QED
      BY <2>1, <3>1, <3>2, SpanShape
  <2>7. root \in Addr
    BY <1>3 DEF Translates
  <2>8. QED
    BY <1>3, <2>6, <2>7 DEF Translation
<1>4. QED
  BY <1>2, <1>3

\* The word the bridge takes from a line is the one at the address asked for.
LEMMA FetchedWord ==
  ASSUME Grounds, RootAligned, NEW pc \in Addr, ~Misaligned(pc), NEW data \in Addr \cup {Zero},
         data = Now(LineOf(pc), "FETCH")
  PROVE  WordOf(data, UpperHalf(pc)) = Now(pc, "FETCH")
<1>1. pc \in Int /\ AddrSpace \in Nat \ {0} /\ pc >= 0
  BY AddrAssumption DEF Addr
<1>2. data # Nil /\ data # Zero
  <2>1. /\ priv \in Modes /\ satp \in Addr \cup {Nil}
        /\ LineOf(pc) \in Addr
    BY <1>1, AddrAssumption DEF Grounds, CoreTypeOK, PipeTypeOK, TrapTypeOK, LineOf, Addr
  <2>2. Now(LineOf(pc), "FETCH") \in Addr \cup {Nil}
    BY <2>1, TranslationShape DEF Now, Accesses, RootAligned
  <2>3. QED
    BY <2>2, NotAddr
<1>3. CASE ~UpperHalf(pc)
  <2>1. pc % 8 = 0
    BY <1>1, <1>3 DEF UpperHalf, Misaligned
  <2>2. LineOf(pc) = pc
    BY <1>1, <2>1 DEF LineOf
  <2>3. QED
    BY <1>2, <1>3, <2>2 DEF WordOf
<1>4. CASE UpperHalf(pc)
  <2> DEFINE va == LineOf(pc)
  <2>1. pc % 8 = 4
    BY <1>1, <1>4 DEF UpperHalf, Misaligned
  <2>2. pc = va + 4 /\ va \in Int
    BY <1>1, <2>1 DEF LineOf
  <2>3. va % 8 = 0 /\ va >= 0
    BY <1>1, <2>1 DEF LineOf
  <2> HIDE DEF va
  <2>4. va \in Addr
    BY <1>1, <2>2, <2>3 DEF Addr
  <2>5. Now(pc, "FETCH") = SecondWord(Now(va, "FETCH"))
    BY <2>2, <2>3, <2>4, SecondTranslated
       DEF Now, Accesses, Grounds, CoreTypeOK, PipeTypeOK, TrapTypeOK
  <2>6. QED
    BY <1>2, <1>4, <2>5 DEF WordOf, SecondWord, va
<1>5. QED
  BY <1>3, <1>4
-----------------------------------------------------------------------------
(* The miss a fetch fault leaves behind.  The fault is up while fetch waits *)
(* in EXEC; the cancel it causes answers fetch with nothing, and in COMMIT *)
(* the request, still up, misses once more.  Nobody waits for that answer, *)
(* and the fetch that comes next may take it for its own: the instruction  *)
(* after a refused one may be dropped, or be given the word before it.     *)
(* The buses and the data are safe: what is in the pipeline while such a   *)
(* miss is out does nothing, the line is empty, and what fills it is the   *)
(* line the miss asked for.                                                *)

Harmless(s) == s.valid => s.instr = Zero /\ ~s.iexc

MissWaits ==
    /\ fCur = "EXEC" /\ fReq # Nil /\ ~M.valid /\ ~W.valid
    /\ miss.addr = LineOf(fReq) /\ miss.upper = UpperHalf(fReq) /\ ~Hit(FALSE, fReq)

\* The pc that was refused, and how far fetch can have gone since.
MissPc == IF miss.upper THEN Plus4(miss.addr) ELSE miss.addr
MissLeft ==
    /\ Harmless(D) /\ Harmless(E) /\ Harmless(M) /\ Harmless(W) /\ ~ExceptionW
    /\ ~line.valid
    /\ \/ fCur = "NEW_INSTR" /\ D.valid /\ fPc = MissPc
       \/ fCur \in {"CHECKING", "EXEC"} /\ fPrepared = Plus4(MissPc)
    /\ miss.upper => Now(miss.addr, "FETCH") = Nil

\* The word offered is that of a refused fetch.
WordRefused ==
    /\ ~line.valid /\ Harmless(W) /\ fInstr = Zero /\ ~fExc /\ fPc = fReq
    /\ UpperHalf(fReq) => Now(LineOf(fReq), "FETCH") = Nil

MissKept ==
    /\ miss.pending => miss.addr % 8 = 0 /\ (MissWaits \/ MissLeft)
    /\ fReq # Nil => fReq = fPrepared /\ ~Misaligned(fReq)
    /\ fCur = "COMMIT" /\ fReq # Nil => Hit(FALSE, fReq) \/ ExceptionW \/ WordRefused

LEMMA KeptIsQuiet == PipeInv /\ MissKept => MissQuiet
<1> SUFFICES ASSUME PipeInv, MissKept, miss.pending PROVE MissQuiet
  BY DEF MissQuiet
<1>1. CASE MissWaits
  BY <1>1 DEF MissKept, MissWaits, MissQuiet, PipeInv, BubblesEmpty, ExceptionW
<1>2. CASE MissLeft
  BY <1>2 DEF MissKept, MissLeft, Harmless, MissQuiet, PipeInv, BubblesEmpty
<1>3. QED
  BY <1>1, <1>2 DEF MissKept

\* Nothing but a trap or a return changes what an address stands for.
LEMMA SameMeaning ==
  ASSUME Grounds, NEW enable \in BOOLEAN, NEW in \in Inputs, AccessEdge(enable, in),
         ~CommitRedirect(in)
  PROVE  \A va, access : Now(va, access)' = Now(va, access)
<1>1. ~TrapValid(FALSE) /\ ~MretValid /\ ~SretValid
  BY DEF CommitRedirect, AccessEdge, TrapValid, InterruptTake
<1>2. CASE ~Cancelled
  BY <1>2, ContextStep
<1>3. CASE Cancelled
  <2>1. mmuFault # "none"
    BY <1>1, <1>3 DEF Cancelled, Cancel
  <2>2. W.valid => OpOf(W) = "nop"
    BY <2>1, QuietCycle DEF Grounds, OpOf
  <2>3. CsrWrite(NoWrite)
    BY <1>1, <2>2 DEF AccessEdge, PipeClock, TrapClock, CommitRedirect
  <2>4. priv' = priv /\ satp' = satp
    BY <2>3 DEF CsrWrite, NoWrite
  <2>5. QED
    BY <2>4 DEF Now, Translation, Translates
<1>4. QED
  BY <1>2, <1>3

\* The words of a line, and the line after it.
LEMMA LineWords ==
  ASSUME NEW a \in Addr, a % 8 = 0
  PROVE  /\ Plus4(a) \in Addr /\ Plus4(Plus4(a)) \in Addr /\ LineOf(Plus4(a)) = a
         /\ ~Misaligned(a) /\ ~Misaligned(Plus4(a)) /\ ~Misaligned(Plus4(Plus4(a)))
         /\ ~UpperHalf(Plus4(Plus4(a)))
<1>1. AddrSpace \in Nat \ {0} /\ a \in Int /\ a >= 0 /\ a < AddrSpace
  BY AddrAssumption DEF Addr
<1>2. AddrSpace % 8 = 0
  <2>1. PICK p \in Nat \ {0} : PageSize = 8 * p
    BY Multiple, SpanShape, PageAssumption
  <2>2. PICK q \in Nat \ {0} : AddrSpace = PageSize * q
    BY Multiple, SpanShape, PageAssumption
  <2>3. AddrSpace = 8 * (p * q) + 0 /\ p * q \in Int
    BY <2>1, <2>2
  <2>4. QED
    BY <1>1, <2>3, DividedOnce
<1>3. Plus4(a) = a + 4
  <2>1. a % AddrSpace = a
    BY <1>1
  <2>2. QED
    BY <1>1, <1>2, <2>1, FourOn DEF Plus4
<1>4. a + 4 < AddrSpace
  <2>1. (a + 4) % AddrSpace \in 0 .. AddrSpace - 1
    BY <1>1, Divided
  <2>2. QED
    BY <1>1, <1>3, <2>1 DEF Plus4
<1>5. Plus4(Plus4(a)) \in Addr /\ Plus4(Plus4(a)) % 8 = 0
  <2>1. CASE a + 8 < AddrSpace
    BY <1>1, <1>3, <2>1 DEF Plus4, Addr
  <2>2. CASE ~(a + 8 < AddrSpace)
    <3>1. a + 8 = AddrSpace
      BY <1>1, <1>2, <1>4, <2>2
    <3>2. Plus4(Plus4(a)) = 0
      BY <1>1, <1>3, <3>1 DEF Plus4
    <3>3. QED
      BY <1>1, <3>2 DEF Addr
  <2>3. QED
    BY <2>1, <2>2
<1>6. Plus4(Plus4(a)) \in Int
  BY <1>1, <1>5 DEF Addr
<1>7. /\ ~Misaligned(Plus4(Plus4(a))) /\ ~UpperHalf(Plus4(Plus4(a)))
  BY <1>5, <1>6 DEF Misaligned, UpperHalf
<1>8. /\ Plus4(a) \in Addr /\ LineOf(Plus4(a)) = a
      /\ ~Misaligned(a) /\ ~Misaligned(Plus4(a))
  BY <1>1, <1>3, <1>4 DEF Addr, LineOf, Misaligned
<1>9. QED
  BY <1>5, <1>7, <1>8

LEMMA LineParts ==
  ASSUME NEW pc \in Addr, ~Misaligned(pc)
  PROVE  /\ LineOf(pc) \in Addr /\ LineOf(pc) % 8 = 0
         /\ pc = IF UpperHalf(pc) THEN Plus4(LineOf(pc)) ELSE LineOf(pc)
<1>1. pc \in Int /\ pc >= 0 /\ pc < AddrSpace /\ AddrSpace \in Nat \ {0}
  BY AddrAssumption DEF Addr
<1>2. pc % 8 = 0 \/ pc % 8 = 4
  BY <1>1 DEF Misaligned
<1>3. LineOf(pc) \in Addr /\ LineOf(pc) % 8 = 0
  BY <1>1 DEF LineOf, Addr
<1>4. CASE pc % 8 = 0
  BY <1>1, <1>4 DEF LineOf, UpperHalf
<1>5. CASE pc % 8 = 4
  <2>1. LineOf(pc) = pc - 4
    BY <1>5 DEF LineOf
  <2>2. Plus4(LineOf(pc)) = pc
    BY <1>1, <2>1 DEF Plus4
  <2>3. QED
    BY <1>3, <1>5, <2>2 DEF UpperHalf
<1>6. QED
  BY <1>2, <1>3, <1>4, <1>5

\* A stall finds no request and no miss: what is in EX and MEM behind a miss
\* does nothing.
LEMMA StallMeetsNoMiss ==
  ASSUME Grounds, MissKept, NEW enable, NEW in \in Inputs, AccessEdge(enable, in)
  PROVE  PcStall(in) => fReq = Nil /\ ~miss.pending
<1>1. PcStall(in) => MduStall \/ MemStall(in)
  BY OneSource DEF ExMemStall, AccessEdge, Grounds, CoreTypeOK
<1>2. MduStall => E.valid /\ E.instr # Zero
  BY DEF MduStall, OpOf
<1>3. MemStall(in) => M.valid /\ M.instr # Zero
  BY DEF MemStall, MemReq, OpOf
<1>4. fReq # Nil => ~M.valid /\ ~E.valid
  BY DEF Grounds, BusInv, PipeInv, Spacing
<1>5. CASE miss.pending /\ MissWaits
  BY <1>1, <1>2, <1>3, <1>4, <1>5 DEF MissWaits
<1>6. CASE miss.pending /\ MissLeft
  BY <1>1, <1>2, <1>3, <1>4, <1>6 DEF MissLeft, Harmless
<1>7. QED
  BY <1>1, <1>2, <1>3, <1>4, <1>5, <1>6 DEF MissKept

LEMMA RequestStep ==
  ASSUME Grounds, MissKept, InOrder, NEW enable, NEW in \in Inputs, AccessEdge(enable, in)
  PROVE  (fReq # Nil => fReq = fPrepared /\ ~Misaligned(fReq))'
  BY DEF AccessEdge, PipeClock, FetchClock, FetchStalled, FetchRedirect, FetchNewInstr,
         FetchAligned, FetchMisaligned, FetchExec, FetchCommit, MissKept, InOrder

\* In the cycle after which a miss is out, nothing redirects or stalls fetch,
\* and nothing answers it.
LEMMA MissFree ==
  ASSUME Grounds, MissKept, InOrder, NEW enable, NEW in \in Inputs, AccessEdge(enable, in),
         miss'.pending
  PROVE  /\ ~Cancelled /\ ~CommitRedirect(in) /\ ~BranchValid(in) /\ ~PcStall(in)
         /\ ~ExMemStall(in) /\ ~MemStall(in) /\ line' = line
         /\ BridgeMiss(fReq) \/ (miss.pending /\ miss' = miss /\ ~Answers(FetchPort))
         /\ \/ FetchNewInstr \/ FetchAligned \/ FetchMisaligned
            \/ FetchExec(in.iok, in.iword) \/ FetchCommit(FetchValid)
<1>1. BridgeClock(Cancelled, fReq, FetchAnswer)
  BY DEF AccessEdge
<1>2. ~Cancelled /\ ~BridgeFill(FetchAnswer)
  <2>1. ~BridgeCancel
    BY DEF BridgeCancel, NoMiss
  <2>2. ~BridgeFill(FetchAnswer)
    BY DEF BridgeFill, Grounds, CoreTypeOK, BridgeTypeOK
  <2>3. QED
    BY <1>1, <2>1, <2>2 DEF BridgeClock
<1>3. /\ line' = line
      /\ BridgeMiss(fReq) \/ (miss.pending /\ miss' = miss /\ ~Answers(FetchPort))
  <2>1. Answers(FetchPort) => FetchAnswer.ok
    BY PortAnswer DEF FetchAnswer, Grounds, AccessInv, BusesInv, MmuServes, Answers,
                      Answered, Cancelled, Cancel
  <2>2. QED
    BY <1>1, <1>2, <2>1 DEF BridgeClock, BridgeMiss, bridgeVars
<1>4. fReq # Nil \/ miss.pending
  BY <1>3 DEF BridgeMiss, MissFire
<1>5. ~PcStall(in)
  BY <1>4, StallMeetsNoMiss
<1>6. ~ExMemStall(in) /\ ~MemStall(in)
  BY <1>5, OneSource DEF ExMemStall, AccessEdge, Grounds, CoreTypeOK
<1>7. ~CommitRedirect(in)
  BY <1>2, OneSource, QuietCycle DEF AccessEdge, Grounds, CoreTypeOK, NoSret
<1>8. ~BranchValid(in)
  <2>1. E.instr # Zero => ~miss.pending /\ fReq = Nil
    <3>1. fReq # Nil => E.instr = Zero
      BY DEF Grounds, BusInv, PipeInv, Spacing, BubblesEmpty
    <3>2. miss.pending => E.instr = Zero
      BY <3>1 DEF MissKept, MissWaits, MissLeft, Harmless, Grounds, PipeInv, BubblesEmpty
    <3>3. QED
      BY <3>1, <3>2
  <2>2. QED
    BY <1>4, <2>1 DEF BranchValid, OpOf
<1>9. FinalRedirect(in) = Nil /\ fPending = Nil
  BY <1>7, <1>8 DEF FinalRedirect, CommitRedirect, InOrder
<1>10. \/ FetchNewInstr \/ FetchAligned \/ FetchMisaligned
       \/ FetchExec(in.iok, in.iword) \/ FetchCommit(FetchValid)
  <2>1. (FetchValid /\ ~PcStall(in)) = FetchValid
    BY <1>5 DEF FetchValid
  <2>2. FetchClock(PcStall(in), FinalRedirect(in), FetchValid, in.iok, in.iword)
    BY <2>1 DEF AccessEdge, PipeClock
  <2>3. QED
    BY <1>5, <1>9, <2>2 DEF FetchClock, FetchRedirect, EffectiveRedirect
<1>11. QED
  BY <1>2, <1>3, <1>5, <1>6, <1>7, <1>8, <1>10

\* A miss out in the next cycle is one fetch waits for, or one left behind.
LEMMA MissOut ==
  ASSUME Grounds, MissKept, TranslateInv, InOrder, NothingAtZero,
         NEW enable \in BOOLEAN, NEW in \in Inputs, AccessEdge(enable, in), miss'.pending
  PROVE  miss'.addr % 8 = 0 /\ (MissWaits' \/ MissLeft')
<1>1. /\ ~Cancelled /\ ~CommitRedirect(in) /\ ~BranchValid(in) /\ ~PcStall(in)
      /\ ~ExMemStall(in) /\ ~MemStall(in) /\ line' = line
      /\ BridgeMiss(fReq) \/ (miss.pending /\ miss' = miss /\ ~Answers(FetchPort))
      /\ \/ FetchNewInstr \/ FetchAligned \/ FetchMisaligned
         \/ FetchExec(in.iok, in.iword) \/ FetchCommit(FetchValid)
  BY MissFree
<1>2. /\ D'.valid = FetchValid /\ E'.valid = D.valid
      /\ M'.valid = E.valid /\ W'.valid = M.valid
  BY <1>1, NextValid DEF AccessEdge, Grounds, CoreTypeOK
<1>3. \A va, access : Now(va, access)' = Now(va, access)
  BY <1>1, ContextStep
<1>4. fReq # Nil => fReq \in Addr /\ fReq = fPrepared /\ ~Misaligned(fReq)
  BY DEF MissKept, Grounds, CoreTypeOK, PipeTypeOK, FetchTypeOK
<1>5. ASSUME fCur = "EXEC", ~in.iok
      PROVE  fCur' = "EXEC" /\ fReq' = fPrepared /\ fPrepared' = fPrepared
  BY <1>1, <1>5 DEF FetchNewInstr, FetchAligned, FetchMisaligned, FetchExec, FetchCommit,
                    InOrder
<1>6. ASSUME fCur = "EXEC", fReq # Nil, ~in.iok, ~Hit(FALSE, fReq),
             miss'.addr = LineOf(fReq), miss'.upper = UpperHalf(fReq)
      PROVE  miss'.addr % 8 = 0 /\ MissWaits'
  <2>1. ~M.valid /\ ~E.valid
    BY <1>6 DEF Grounds, BusInv, PipeInv, Spacing
  <2>2. fCur' = "EXEC" /\ fReq' = fReq
    BY <1>4, <1>5, <1>6
  <2>3. ~Hit(FALSE, fReq)'
    BY <1>1, <1>6, <2>2 DEF Hit
  <2>4. miss'.addr % 8 = 0
    BY <1>4, <1>6, LineParts
  <2>5. QED
    BY <1>2, <1>6, <2>1, <2>2, <2>3, <2>4 DEF MissWaits
<1>7. CASE BridgeMiss(fReq)
  <2>1. /\ fReq # Nil /\ ~Hit(FALSE, fReq)
        /\ miss' = [pending |-> TRUE, addr |-> LineOf(fReq), upper |-> UpperHalf(fReq)]
    BY <1>7 DEF BridgeMiss, MissFire
  <2>2. ~in.iok
    BY <1>1, <1>7, <2>1 DEF BridgeMiss, MissFire, AccessEdge
  <2>3. CASE fCur = "EXEC"
    BY <1>6, <2>1, <2>2, <2>3
  <2>4. CASE fCur = "COMMIT"
    <3>1. WordRefused
      <4>1. ~ExceptionW
        BY <1>1, QuietCycle DEF Grounds
      <4>2. QED
        BY <2>1, <2>4, <4>1 DEF MissKept
    <3>2. ~D.valid /\ ~E.valid /\ ~M.valid
      BY <2>1, <2>4 DEF Grounds, BusInv, PipeInv, Spacing
    <3>3. fCur' = "NEW_INSTR" /\ fPc' = fPc /\ FetchValid
      BY <1>1, <2>4 DEF FetchNewInstr, FetchAligned, FetchMisaligned, FetchExec, FetchCommit,
                        FetchValid
    <3>4. D' = [Bubble EXCEPT !.valid = TRUE, !.pc = fPc, !.instr = fInstr,
                              !.iexc = fExc, !.ipf = in.fault = "FETCH"]
      BY <1>1, <3>3 DEF AccessEdge, PipeClock, IfIdClock
    <3>5. D'.valid /\ D'.instr = Zero /\ ~D'.iexc
      BY <3>1, <3>4 DEF Bubble, WordRefused
    <3>6. ~E'.valid /\ ~M'.valid /\ ~W'.valid
      BY <1>2, <3>2
    <3>7. LineOf(fReq) % 8 = 0
          /\ fReq = IF UpperHalf(fReq) THEN Plus4(LineOf(fReq)) ELSE LineOf(fReq)
      BY <1>4, <2>1, LineParts
    <3>8. fPc' = MissPc'
      BY <2>1, <3>1, <3>3, <3>7 DEF MissPc, WordRefused
    <3>9. miss'.upper => Now(miss.addr, "FETCH")' = Nil
      BY <1>3, <2>1, <3>1 DEF WordRefused, Now
    <3>10. ~line'.valid
      BY <1>1, <3>1 DEF WordRefused
    <3>11. MissLeft'
      BY <3>3, <3>5, <3>6, <3>8, <3>9, <3>10 DEF MissLeft, Harmless, ExceptionW
    <3>12. QED
      BY <2>1, <3>7, <3>11
  <2>5. QED
    BY <2>1, <2>3, <2>4 DEF Grounds, BusInv
<1>8. CASE miss.pending /\ miss' = miss /\ ~Answers(FetchPort)
  <2>1. CASE MissWaits
    <3>1. ~in.iok
      BY <1>1, <1>8, <2>1 DEF MissWaits, AccessEdge
    <3>2. QED
      BY <1>6, <1>8, <2>1, <3>1 DEF MissWaits
  <2>2. CASE MissLeft
    <3>1. ~line.valid /\ ~in.iok
      BY <1>1, <1>8, <2>2 DEF MissLeft, AccessEdge, Hit
    <3>2. miss.addr % 8 = 0 /\ miss.addr \in Addr /\ MissPc' = MissPc
      BY <1>8 DEF MissKept, Grounds, CoreTypeOK, BridgeTypeOK, MissPc
    <3>3. fCur' \in {"CHECKING", "EXEC"} /\ fPrepared' = Plus4(MissPc)
      <4>1. CASE fCur = "NEW_INSTR"
        <5>1. D.valid /\ fPc = D.pc /\ fPc # 0 /\ fPc = MissPc
          BY <2>2, <4>1 DEF MissLeft, InOrder, NothingAtZero
        <5>2. QED
          BY <1>1, <4>1, <5>1 DEF FetchNewInstr, FetchAligned, FetchMisaligned, FetchExec,
                                  FetchCommit
      <4>2. CASE fCur = "CHECKING"
        <5>1. fPrepared = Plus4(MissPc)
          BY <2>2, <4>2 DEF MissLeft
        <5>2. ~Misaligned(fPrepared)
          BY <3>2, <5>1, LineWords DEF MissPc
        <5>3. QED
          BY <1>1, <4>2, <5>1, <5>2 DEF FetchNewInstr, FetchAligned, FetchMisaligned,
                                        FetchExec, FetchCommit
      <4>3. CASE fCur = "EXEC"
        BY <1>5, <2>2, <3>1, <4>3 DEF MissLeft
      <4>4. QED
        BY <2>2, <4>1, <4>2, <4>3 DEF MissLeft
    <3>4. ~FetchValid
      BY <2>2 DEF MissLeft, FetchValid
    <3>5. E' = D
      BY <1>1, Sources DEF AccessEdge, PipeClock, IdExClock, Grounds, CoreTypeOK
    <3>6. M' = [E EXCEPT !.iexc = E.iexc, !.alu = in.ex,
                         !.val = IF OpOf(E) = "mdu" THEN mduFor ELSE Zero]
      BY <1>1 DEF AccessEdge, PipeClock, ExMemClock, Grounds, CoreTypeOK, PipeTypeOK, Slot
    <3>7. W' = [M EXCEPT !.dexc = DataMisaligned(M),
                         !.dpf = in.fault \in {"LOAD", "STORE"},
                         !.val = IF OpOf(M) = "load" THEN in.dval ELSE M.val]
      BY <1>1 DEF AccessEdge, PipeClock, MemWbClock
    <3>8. Harmless(D)' /\ Harmless(E)' /\ Harmless(M)'
      BY <1>2, <2>2, <3>4, <3>5, <3>6
         DEF MissLeft, Harmless, Grounds, CoreTypeOK, PipeTypeOK, Slot
    <3>9. Harmless(W)' /\ ~ExceptionW'
      <4>1. /\ W'.instr = M.instr /\ W'.iexc = M.iexc /\ W'.ipf = M.ipf
            /\ W'.dexc = DataMisaligned(M) /\ W'.dpf = (in.fault \in {"LOAD", "STORE"})
        BY <3>7 DEF Grounds, CoreTypeOK, PipeTypeOK, Slot
      <4>2. M.valid => M.instr = Zero /\ ~M.iexc
        BY <2>2 DEF MissLeft, Harmless
      <4>3. ~M.ipf /\ in.fault = "none"
        BY <1>1, QuietCycle DEF Grounds, AccessInv, BusesInv, FlagsEarly, AccessEdge
      <4>4. M.valid => ~DataMisaligned(M)
        BY <4>2 DEF DataMisaligned, OpOf
      <4>5. QED
        BY <1>2, <4>1, <4>2, <4>3, <4>4 DEF Harmless, ExceptionW, OpOf
    <3>10. ~line'.valid
      BY <1>1, <3>1
    <3>11. (miss.upper => Now(miss.addr, "FETCH") = Nil)'
      BY <1>3, <1>8, <2>2 DEF MissLeft, Now
    <3>12. MissLeft'
      BY <3>2, <3>3, <3>8, <3>9, <3>10, <3>11 DEF MissLeft
    <3>13. QED
      BY <1>8, <3>2, <3>12
  <2>3. QED
    BY <1>8, <2>1, <2>2 DEF MissKept
<1>9. QED
  BY <1>1, <1>7, <1>8

\* The request that stays up in COMMIT finds the line, or a trap that drops
\* it, or is that of a fetch refused in the cycle before.
LEMMA WordOut ==
  ASSUME Grounds, MissKept, TranslateInv, InOrder,
         NEW enable \in BOOLEAN, NEW in \in Inputs, AccessEdge(enable, in),
         fCur' = "COMMIT", fReq' # Nil
  PROVE  Hit(FALSE, fReq)' \/ ExceptionW' \/ WordRefused'
<1> DEFINE redirect == FinalRedirect(in)
           consume  == FetchValid /\ ~PcStall(in)
<1>1. /\ FetchClock(PcStall(in), redirect, consume, in.iok, in.iword)
      /\ BridgeClock(Cancelled, fReq, FetchAnswer)
      /\ ~in.irq /\ in.fault = mmuFault
  BY DEF AccessEdge, PipeClock
<1>2. ~PcStall(in) /\ FetchExec(in.iok, in.iword) /\ FinalRedirect(in) = Nil
  <2>1. ~PcStall(in)
    BY <1>1, StallMeetsNoMiss DEF FetchClock, FetchStalled
  <2>2. QED
    BY <1>1, <2>1 DEF FetchClock, FetchRedirect, FetchNewInstr, FetchAligned,
                      FetchMisaligned, FetchCommit, EffectiveRedirect
<1>3. /\ fCur = "EXEC" /\ in.iok /\ ~Misaligned(fPrepared) /\ fPrepared \in Addr
      /\ fReq' = fPrepared /\ fPc' = fPrepared /\ fInstr' = in.iword /\ fExc' = FALSE
      /\ fReq # Nil => fReq = fPrepared
  BY <1>2 DEF FetchExec, InOrder, MissKept, Grounds, CoreTypeOK, PipeTypeOK, FetchTypeOK
<1>4. ~CommitRedirect(in)
  BY <1>1, <1>2, CommitLeads DEF NoSret, Grounds, CoreTypeOK
<1>5. \A va, access : Now(va, access)' = Now(va, access)
  BY <1>4, SameMeaning
<1>6. ASSUME miss.pending
      PROVE  /\ miss.addr \in Addr /\ miss.addr % 8 = 0
             /\ \/ LineOf(fPrepared) = miss.addr
                \/ ~UpperHalf(fPrepared) /\ miss.upper /\ Now(miss.addr, "FETCH") = Nil
  <2>1. miss.addr \in Addr /\ miss.addr % 8 = 0
    BY <1>6 DEF MissKept, Grounds, CoreTypeOK, BridgeTypeOK
  <2>2. CASE MissWaits
    BY <1>3, <2>1, <2>2 DEF MissWaits
  <2>3. CASE MissLeft
    <3>1. fPrepared = Plus4(MissPc) /\ (miss.upper => Now(miss.addr, "FETCH") = Nil)
      BY <1>3, <2>3 DEF MissLeft
    <3>2. CASE miss.upper
      BY <2>1, <3>1, <3>2, LineWords DEF MissPc
    <3>3. CASE ~miss.upper
      BY <2>1, <3>1, <3>3, LineWords DEF MissPc
    <3>4. QED
      BY <3>2, <3>3
  <2>4. QED
    BY <1>6, <2>1, <2>2, <2>3 DEF MissKept
<1>7. CASE Cancelled /\ mmuFault # "FETCH"
  <2>1. mmuFault \in {"LOAD", "STORE"} /\ MemReq
    BY <1>1, <1>4, <1>7, OneSource, QuietCycle DEF Grounds, CoreTypeOK
  <2>2. ~MemStall(in)
    BY <1>7 DEF AccessEdge, MemStall
  <2>3. W'.valid /\ W'.dpf
    BY <1>1, <2>1, <2>2 DEF AccessEdge, PipeClock, MemWbClock, MemReq, Grounds, CoreTypeOK,
                            PipeTypeOK, Slot
  <2>4. QED
    BY <2>3 DEF ExceptionW
<1>8. CASE Cancelled /\ mmuFault = "FETCH"
  <2>1. arbBusy /\ arbIndex = FetchPort /\ miss.pending
    BY <1>8, QuietCycle DEF Grounds
  <2>2. Now(miss.addr, "FETCH") = Nil
    <3>1. arbReq.addr = miss.addr /\ ArbAccess = "FETCH"
      BY <2>1 DEF Grounds, AccessInv, BusesInv, MmuServes, ArbAccess, FetchPort
    <3>2. QED
      BY <1>8, <3>1 DEF TranslateInv, AccessRight, Now
  <2>3. UpperHalf(fReq') => Now(LineOf(fReq), "FETCH")' = Nil
    <3>1. UpperHalf(fPrepared) => LineOf(fPrepared) = miss.addr
      BY <1>6, <2>1
    <3>2. QED
      BY <1>3, <1>5, <2>2, <3>1 DEF Now
  <2>4. ~line'.valid
    BY <1>1, <1>8 DEF BridgeClock, BridgeCancel, NoLine
  <2>5. in.iword = Zero
    <3>1. FetchAnswer = NoResponse
      BY <1>8 DEF FetchAnswer, Answers, Answered
    <3>2. in.iword = WordOf(FetchAnswer.data, miss.upper)
      BY <1>8 DEF AccessEdge, BridgeWord, Hit
    <3>3. QED
      BY <3>1, <3>2 DEF NoResponse, WordOf
  <2>6. Harmless(W)'
    <3>1. ~MemStall(in)
      BY <2>1, QuietCycle DEF Grounds, MemStall
    <3>2. W'.valid = M.valid /\ W'.instr = M.instr /\ W'.iexc = M.iexc
      BY <3>1 DEF AccessEdge, PipeClock, MemWbClock, Grounds, CoreTypeOK, PipeTypeOK, Slot
    <3>3. Harmless(M)
      BY <2>1 DEF MissKept, MissWaits, MissLeft, Harmless
    <3>4. QED
      BY <3>2, <3>3 DEF Harmless
  <2>7. WordRefused'
    BY <1>3, <2>3, <2>4, <2>5, <2>6 DEF WordRefused
  <2>8. QED
    BY <2>7
<1>9. CASE ~Cancelled /\ miss.pending /\ FetchAnswer.ok
  <2>1. line'.valid /\ line'.addr = miss.addr
    BY <1>1, <1>9 DEF BridgeClock, BridgeMiss, BridgeFill, MissFire
  <2>2. LineOf(fPrepared) = miss.addr
    <3>1. /\ arbBusy /\ arbIndex = FetchPort /\ mmuState = "RESP" /\ mmuFault = "none"
      BY <1>9, QuietCycle DEF FetchAnswer, NoResponse, Answers, Answered, Grounds
    <3>2. arbReq.addr = miss.addr /\ ArbAccess = "FETCH"
      BY <3>1 DEF Grounds, AccessInv, BusesInv, MmuServes, ArbAccess, FetchPort
    <3>3. mmuPaddr = Now(miss.addr, "FETCH")
      BY <3>1, <3>2 DEF TranslateInv, AccessRight, Now
    <3>4. mmuPaddr # Nil
      BY NotAddr DEF Grounds, CoreTypeOK, MmuTypeOK
    <3>5. QED
      BY <1>6, <1>9, <3>3, <3>4
  <2>3. QED
    BY <1>3, <2>1, <2>2 DEF Hit
<1>10. CASE ~Cancelled /\ ~(miss.pending /\ FetchAnswer.ok)
  <2>1. Hit(FALSE, fReq)
    <3>1. Answers(FetchPort) => FetchAnswer.ok
      BY PortAnswer DEF FetchAnswer, Grounds, AccessInv, BusesInv, MmuServes, Answers,
                        Answered, Cancelled, Cancel
    <3>2. QED
      BY <1>3, <1>10, <3>1 DEF AccessEdge
  <2>2. UNCHANGED bridgeVars
    BY <1>1, <1>10, <2>1 DEF BridgeClock, BridgeMiss, BridgeFill, MissFire
  <2>3. QED
    BY <1>3, <2>1, <2>2 DEF Hit, bridgeVars
<1>11. QED
  BY <1>7, <1>8, <1>9, <1>10

\* Every miss stays one of the two, whatever fetch faults.
LEMMA KeptStep ==
  ASSUME Grounds, MissKept, TranslateInv, InOrder, NothingAtZero,
         NEW enable \in BOOLEAN, NEW in \in Inputs, AccessEdge(enable, in)
  PROVE  MissKept'
<1>1. miss'.pending => miss'.addr % 8 = 0 /\ (MissWaits' \/ MissLeft')
  BY MissOut
<1>2. (fReq # Nil => fReq = fPrepared /\ ~Misaligned(fReq))'
  BY RequestStep
<1>3. fCur' = "COMMIT" /\ fReq' # Nil => Hit(FALSE, fReq)' \/ ExceptionW' \/ WordRefused'
  BY WordOut
<1>4. QED
  BY <1>1, <1>2, <1>3 DEF MissKept

LEMMA KeptStutter == MissKept /\ UNCHANGED coreVars => MissKept'
<1> SUFFICES ASSUME MissKept, UNCHANGED coreVars PROVE MissKept'
  OBVIOUS
<1> USE DEF coreVars, pipeVars, fetchVars, trapVars, slotVars, bridgeVars
<1>1. /\ MissWaits' <=> MissWaits
      /\ MissLeft' <=> MissLeft
      /\ WordRefused' <=> WordRefused
      /\ Hit(FALSE, fReq)' <=> Hit(FALSE, fReq)
      /\ ExceptionW' <=> ExceptionW
  BY DEF MissWaits, MissLeft, MissPc, WordRefused, Harmless, Hit, ExceptionW, OpOf, Now,
         Translation, Translates
<1>2. QED
  BY <1>1 DEF MissKept

LEMMA KeptInit == CoreInit => MissKept
  BY DEF CoreInit, PipeInit, FetchInit, BridgeInit, NoMiss, MissKept

-----------------------------------------------------------------------------
(* The theorems about translation.  The first two hold whatever the TLB    *)
(* serves, but of programs whose fetches are not refused; the others hold  *)
(* whatever is refused, of programs that do not run at address 0.          *)

\* The walks follow the page tables in force, and the TLB holds leaves of them.
THEOREM TableInvariant ==
  CoreSpec /\ []NoInterrupts /\ []NoSret /\ []NoFetchFault /\ []SatpFromM
      => []TableInv
<1>1. /\ CoreTypeOK /\ PipeInv /\ BusInv /\ AccessInv /\ DeviceStable
      /\ NoSret /\ SatpFromM
      => Grounds
  BY DEF Grounds
<1>2. NoInterrupts /\ Grounds /\ TableInv /\ [CoreNext]_coreVars => TableInv'
  BY TableStep
<1>3. CoreInit => TableInv
  BY TranslateInit DEF TranslateInv
<1>4. QED
  BY CoreTypeCorrect, CoreImplementsPipe, PipelineInvariant, FetchBusInvariant,
     DeviceRequestStable, AccessInvariant, <1>1, <1>2, <1>3, PTL
     DEF CoreSpec

\* A row of the TLB translates its page as the tables do.
LEMMA RowsCurrent == TableInv /\ CoreTypeOK => TlbCurrent
<1> SUFFICES ASSUME TableInv, CoreTypeOK, NEW i \in TlbRows, tlb[i].valid
             PROVE  /\ Translates(priv, satp)
                    /\ \E access \in Accesses :
                          Translation(tlb[i].va, access, priv, satp)
                            = (tlb[i].pa + (tlb[i].va % Span(tlb[i].level))) % AddrSpace
  BY DEF TlbCurrent
<1> DEFINE e == tlb[i]
           pte == EntryOf(satp, e.va, e.level)
<1>1. /\ Translates(priv, satp) /\ Reaches(satp, e.va, e.level)
      /\ IsLeaf(pte) /\ e.pa = Leaf(pte.ppn, 0, e.level)
      /\ \E access \in Accesses : ~WalkFault(pte, e.level, access, priv)
  BY DEF TableInv, TlbRight
<1>2. PICK access \in Accesses : ~WalkFault(pte, e.level, access, priv)
  BY <1>1
<1>3. e.level \in Levels /\ e.va \in Addr /\ satp \in Addr /\ satp % 8 = 0
  BY <1>1 DEF TableInv, CoreTypeOK, MmuTypeOK, TlbEntries, PipeTypeOK, TrapTypeOK,
              RootAligned, Translates
<1>4. pte.ppn \in Nat
  BY <1>3, TableShape
<1>5. e.va \in Int
  BY <1>3, AddrAssumption DEF Addr
<1> HIDE DEF pte
<1>6. Translation(e.va, access, priv, satp) = Leaf(pte.ppn, e.va, e.level)
  BY <1>1, <1>2, <1>3, WalkEnds DEF Translation, pte
<1>7. QED
  BY <1>1, <1>3, <1>4, <1>5, <1>6, LeafOfPage

\* A TLB entry is what the page tables in force say, whatever it is used for.
THEOREM TlbFollowsTables ==
  CoreSpec /\ []NoInterrupts /\ []NoSret /\ []NoFetchFault /\ []SatpFromM
      => []TlbCurrent
  BY TableInvariant, CoreTypeCorrect, RowsCurrent, PTL

\* Every leaf of the page tables grants every kind of access.
GrantsAll ==
  \A a \in Addr : IsLeaf(Pte[a]) /\ ~PteInvalid(Pte[a]) => Pte[a].r /\ Pte[a].w /\ Pte[a].x

\* Under such tables a row of the TLB serves permitted accesses only, without
\* the check the code leaves out.
LEMMA FullLeavesServe == ASSUME GrantsAll PROVE Grounds /\ TableInv => HitsPermitted
<1> SUFFICES ASSUME Grounds, TableInv, NEW i \in TlbRows, arbBusy,
                    TlbServes(arbReq.addr, i)
             PROVE  Translation(arbReq.addr, ArbAccess, priv, satp) # Nil
  BY DEF HitsPermitted
<1> DEFINE e   == tlb[i]
           va  == arbReq.addr
           pte == EntryOf(satp, e.va, e.level)
<1>1. va \in Addr /\ ArbAccess \in Accesses
  BY Serving
<1>2. tlb[i].valid /\ SamePage(e.va, va, e.level)
  BY DEF TlbServes, TlbMatch
<1>3. /\ Translates(priv, satp) /\ Reaches(satp, e.va, e.level) /\ IsLeaf(pte)
      /\ \E access \in Accesses : ~WalkFault(pte, e.level, access, priv)
  BY <1>2 DEF TableInv, TlbRight
<1>4. e.level \in Levels /\ e.va \in Addr /\ satp \in Addr /\ satp % 8 = 0
  BY <1>3 DEF Grounds, CoreTypeOK, MmuTypeOK, TlbEntries, PipeTypeOK, TrapTypeOK,
              TableInv, RootAligned, Translates
<1>5. va \in Int /\ e.va \in Int
  BY <1>1, <1>4, AddrAssumption DEF Addr
<1>6. \A k \in Levels : k >= e.level => EntryOf(satp, va, k) = EntryOf(satp, e.va, k)
  BY <1>2, <1>4, <1>5, SameEntries
<1>7. Reaches(satp, va, e.level) /\ EntryOf(satp, va, e.level) = pte
  BY <1>3, <1>4, <1>6, SpanShape DEF Reaches
<1>8. pte.r /\ pte.w /\ pte.x
  <2>1. PteAddr(TableOf(satp, e.va, e.level), e.va, e.level) \in Addr
    BY <1>4, TableShape, PteAddrType
  <2>2. ~PteInvalid(pte)
    BY <1>3 DEF WalkFault
  <2>3. QED
    BY <1>3, <2>1, <2>2 DEF GrantsAll, EntryOf, EntryAt
<1>9. pte.ppn \in Nat
  BY <1>4, TableShape
<1> HIDE DEF pte
<1>10. ~WalkFault(pte, e.level, ArbAccess, priv)
  BY <1>3, <1>8 DEF WalkFault, LeafFault
<1>11. Translation(va, ArbAccess, priv, satp) = Leaf(pte.ppn, va, e.level)
  BY <1>3, <1>4, <1>7, <1>10, WalkEnds DEF Translation
<1>12. Leaf(pte.ppn, va, e.level) \in Addr
  BY <1>1, <1>4, <1>9, LeafType
<1>13. QED
  BY <1>11, <1>12, NotAddr

\* What is carried from cycle to cycle, whatever fetch faults.
FaultInv == MissKept /\ BusesInv /\ TranslateInv

LEMMA FaultInit == CoreInit => FaultInv
  BY KeptInit, BusesStart, TranslateInit DEF FaultInv

LEMMA FaultGrounds ==
  /\ CoreTypeOK /\ PipeInv /\ BusInv /\ DeviceStable /\ FaultInv /\ NoSret /\ SatpFromM
  => Grounds /\ AccessInv
  BY KeptIsQuiet DEF Grounds, FaultInv, AccessInv

LEMMA FaultStep ==
  ASSUME CoreTypeOK, PipeInv, BusInv, DeviceStable, InOrder, FaultInv, NoInterrupts, NoSret,
         NothingAtZero, SatpFromM, HitsPermitted, [CoreNext]_coreVars
  PROVE  FaultInv'
<1>1. Grounds /\ AccessInv
  BY FaultGrounds
<1>2. TranslateInv'
  BY <1>1, TranslateStep DEF FaultInv
<1>3. CASE CoreNext
  <2>1. PICK enable \in BOOLEAN, in \in Inputs : AccessEdge(enable, in)
    BY <1>3, AccessClock DEF FaultInv, BusesInv
  <2>2. BusesInv'
    BY <1>1, <2>1, BusesStep
  <2>3. MissKept'
    BY <1>1, <2>1, KeptStep DEF FaultInv
  <2>4. QED
    BY <1>2, <2>2, <2>3 DEF FaultInv
<1>4. CASE UNCHANGED coreVars
  BY <1>2, <1>4, BusesStutter, KeptStutter DEF FaultInv
<1>5. QED
  BY <1>3, <1>4

\* Where every leaf grants every access, every hit of the TLB is permitted:
\* the premise of the theorems below is then a fact about the machine.
THEOREM HitsOfFullLeaves ==
  ASSUME GrantsAll
  PROVE  CoreSpec /\ []NoInterrupts /\ []NoSret /\ []NothingAtZero /\ []SatpFromM
            => []HitsPermitted
<1>1. /\ CoreTypeOK /\ PipeInv /\ BusInv /\ DeviceStable /\ FaultInv /\ NoSret /\ SatpFromM
      => HitsPermitted
  BY FaultGrounds, FullLeavesServe DEF FaultInv, TranslateInv
<1>2. /\ CoreTypeOK /\ PipeInv /\ BusInv /\ DeviceStable /\ InOrder /\ FaultInv
      /\ NoInterrupts /\ NoSret /\ NothingAtZero /\ SatpFromM /\ [CoreNext]_coreVars
      => FaultInv'
  BY <1>1, FaultStep
<1>3. QED
  BY CoreTypeCorrect, CoreImplementsPipe, PipelineInvariant, FetchBusInvariant,
     DeviceRequestStable, ProgramOrder, FaultInit, <1>1, <1>2, PTL
     DEF CoreSpec

\* Everything remembered of a translation is what the page tables in force
\* say, and what the buses hold is one access, in every state of the machine,
\* also while and after a fetch is refused.
THEOREM TranslationInvariant ==
  /\ CoreSpec /\ []NoInterrupts /\ []NoSret /\ []NothingAtZero
  /\ []SatpFromM /\ []HitsPermitted
  => [](MissKept /\ AccessInv /\ TranslateInv)
<1>1. /\ CoreTypeOK /\ PipeInv /\ BusInv /\ DeviceStable /\ InOrder /\ FaultInv
      /\ NoInterrupts /\ NoSret /\ NothingAtZero /\ SatpFromM /\ HitsPermitted
      /\ [CoreNext]_coreVars
      => FaultInv'
  BY FaultStep
<1>2. /\ CoreTypeOK /\ PipeInv /\ BusInv /\ DeviceStable /\ FaultInv /\ NoSret /\ SatpFromM
      => MissKept /\ AccessInv /\ TranslateInv
  BY FaultGrounds DEF FaultInv
<1>3. QED
  BY CoreTypeCorrect, CoreImplementsPipe, PipelineInvariant, FetchBusInvariant,
     DeviceRequestStable, ProgramOrder, FaultInit, <1>1, <1>2, PTL
     DEF CoreSpec

\* A load returns the doubleword at its own translated address.
THEOREM LoadsTheirOwn ==
  /\ CoreSpec /\ []NoInterrupts /\ []NoSret /\ []NothingAtZero
  /\ []SatpFromM /\ []HitsPermitted
  => []LoadOwn
<1>1. TranslateInv => LoadOwn
  BY DEF TranslateInv
<1>2. QED
  BY TranslationInvariant, <1>1, PTL

\* The line of the bridge is what a fetch of its address would bring now.
THEOREM LineFollowsTables ==
  /\ CoreSpec /\ []NoInterrupts /\ []NoSret /\ []NothingAtZero
  /\ []SatpFromM /\ []HitsPermitted
  => []LineCurrent
<1>1. TranslateInv => LineCurrent
  BY DEF TranslateInv
<1>2. QED
  BY TranslationInvariant, <1>1, PTL

\* A refused fetch, and the miss it leaves behind, do not reach the data side:
\* stores still reach memory once, no transaction is left on the CBus, and the
\* TLB still agrees with the tables.
THEOREM DataSurvivesFetchFaults ==
  /\ CoreSpec /\ []NoInterrupts /\ []NoSret /\ []NothingAtZero
  /\ []SatpFromM /\ []HitsPermitted
  => [](StoreOnce /\ ~orphan /\ TlbCurrent)
<1>1. AccessInv => StoreOnce /\ ~orphan
  BY DEF AccessInv, BusesInv, BusServes, StoreCounted, StoreOnce
<1>2. TranslateInv /\ CoreTypeOK => TlbCurrent
  BY RowsCurrent DEF TranslateInv
<1>3. QED
  BY TranslationInvariant, CoreTypeCorrect, <1>1, <1>2, PTL

\* The program is never told: no instruction carries the flag of a refused
\* fetch, and no trap has its cause, 12.
THEOREM FetchFaultsUnreported ==
  /\ CoreSpec /\ []NoInterrupts /\ []NoSret /\ []NothingAtZero
  /\ []SatpFromM /\ []HitsPermitted
  => [](~W.ipf /\ (ExceptionW => TrapCode # 12))
<1>1. AccessInv => ~W.ipf /\ (ExceptionW => TrapCode # 12)
  BY DEF AccessInv, BusesInv, FlagsEarly, TrapCode
<1>2. QED
  BY TranslationInvariant, <1>1, PTL

-----------------------------------------------------------------------------
(* What every stage holds.                                                 *)

\* A word that arrives is the one at the address asked for, unless a data
\* fault made the bridge answer with nothing.
LEMMA WordArrives ==
  ASSUME Grounds, MissAlone, TranslateInv, NEW enable \in BOOLEAN, NEW in \in Inputs,
         AccessEdge(enable, in), ~Cancelled, in.iok, fCur = "EXEC"
  PROVE  in.iword = Now(fPrepared, "FETCH")
<1>1. /\ fReq = fPrepared /\ fReq # Nil /\ ~Misaligned(fPrepared) /\ fPrepared \in Addr
      /\ miss.pending => miss.addr = LineOf(fReq) /\ miss.upper = UpperHalf(fReq)
                         /\ ~Hit(FALSE, fReq)
  <2>1. Hit(FALSE, fReq) \/ miss.pending
    BY DEF AccessEdge
  <2>2. fReq # Nil
    BY <2>1 DEF Hit, MissAlone
  <2>3. QED
    BY <2>2 DEF Grounds, MissAlone, CoreTypeOK, PipeTypeOK, FetchTypeOK
<1>2. CASE Hit(FALSE, fReq)
  <2>1. in.iword = WordOf(line.data, UpperHalf(fPrepared))
    BY <1>1, <1>2 DEF AccessEdge, BridgeWord, Hit
  <2>2. line.data = Now(LineOf(fPrepared), "FETCH")
    BY <1>1, <1>2 DEF Hit, TranslateInv, LineCurrent, Now
  <2>3. line.data \in Addr \cup {Zero}
    BY DEF Grounds, CoreTypeOK, BridgeTypeOK
  <2>4. QED
    BY <1>1, <2>1, <2>2, <2>3, FetchedWord DEF TranslateInv, TableInv
<1>3. CASE ~Hit(FALSE, fReq)
  <2>1. Answers(FetchPort) /\ miss.pending
    BY <1>3 DEF AccessEdge
  <2>2. in.iword = WordOf(mmuResp.data, UpperHalf(fPrepared))
    BY <1>1, <1>3, <2>1 DEF AccessEdge, BridgeWord, FetchAnswer, Hit
  <2>3. /\ arbReq = [valid |-> TRUE, addr |-> miss.addr, write |-> FALSE]
        /\ mmuState = "RESP" /\ arbIndex = FetchPort /\ arbBusy
    BY <2>1 DEF Grounds, AccessInv, BusesInv, MmuServes, Answers, Answered
  <2>4. ArbAccess = "FETCH"
    BY <2>3 DEF ArbAccess, FetchPort
  <2>5. mmuFault = "none"
    BY QuietCycle DEF Grounds
  <2>6. mmuResp.data = Now(LineOf(fPrepared), "FETCH")
    BY <1>1, <2>1, <2>3, <2>4, <2>5 DEF TranslateInv, AccessRight, Now
  <2>7. mmuResp.data \in Addr \cup {Zero}
    BY DEF Grounds, CoreTypeOK, MmuTypeOK, Responses
  <2>8. QED
    BY <1>1, <2>2, <2>6, <2>7, FetchedWord DEF TranslateInv, TableInv
<1>4. QED
  BY <1>2, <1>3

\* The same, of what fetch offers.
LEMMA FetchedStep ==
  ASSUME Grounds, MissAlone, NoFetchFault, TranslateInv, InOrder, SlotsRight,
         NEW enable \in BOOLEAN, NEW in \in Inputs, AccessEdge(enable, in),
         ~CommitRedirect(in), fCur' = "COMMIT", ~ExceptionW'
  PROVE  Decoded(FetchedSlot)'
<1> DEFINE redirect == FinalRedirect(in)
           consume  == FetchValid /\ ~PcStall(in)
<1>1. FetchClock(PcStall(in), redirect, consume, in.iok, in.iword)
  BY DEF AccessEdge, PipeClock
<1>2. \A va, access : Now(va, access)' = Now(va, access)
  BY SameMeaning
<1>3. ~ExceptionW
  BY DEF CommitRedirect, TrapValid
<1>4. Decoded(FetchedSlot)' <=>
         /\ IF Misaligned(fPc') THEN fInstr' = Zero ELSE fInstr' = Now(fPc', "FETCH")
         /\ fExc' <=> Misaligned(fPc')
  BY <1>2 DEF Decoded, WordRight, FetchedSlot, Now
<1> HIDE DEF redirect, consume
<1>5. CASE FetchStalled(redirect)
  <2>1. fCur = "COMMIT" /\ fPc' = fPc /\ fInstr' = fInstr /\ fExc' = fExc
    BY <1>5 DEF FetchStalled
  <2>2. QED
    BY <1>3, <1>4, <2>1 DEF SlotsRight, Decoded, WordRight, FetchedSlot
<1>6. CASE FetchMisaligned
  BY <1>4, <1>6 DEF FetchMisaligned
<1>7. CASE FetchExec(in.iok, in.iword)
  <2>1. fCur = "EXEC" /\ ~Misaligned(fPrepared)
    BY <1>7 DEF FetchExec, InOrder
  <2>2. in.iok /\ fInstr' = in.iword /\ fPc' = fPrepared /\ fExc' = FALSE
    BY <1>7, <2>1 DEF FetchExec
  <2>3. ~Cancelled
    <3>1. SUFFICES ASSUME Cancelled PROVE FALSE
      OBVIOUS
    <3>2. mmuFault \in {"LOAD", "STORE"} /\ MemReq
      BY <3>1, QuietCycle DEF Grounds, CommitRedirect, TrapValid, NoFetchFault
    <3>3. ~MemStall(in)
      BY <3>1 DEF AccessEdge, MemStall
    <3>4. W'.valid /\ W'.dpf
      BY <3>2, <3>3 DEF AccessEdge, PipeClock, MemWbClock, MemReq, Grounds, CoreTypeOK,
                        PipeTypeOK, Slot
    <3>5. QED
      BY <3>4 DEF ExceptionW
  <2>4. QED
    BY <1>4, <2>1, <2>2, <2>3, WordArrives
<1>8. CASE FetchRedirect(redirect) \/ FetchNewInstr \/ FetchAligned \/ FetchCommit(consume)
  BY <1>3, <1>4, <1>8 DEF FetchRedirect, FetchNewInstr, FetchAligned, FetchCommit,
       SlotsRight, Decoded, WordRight, FetchedSlot
<1>9. QED
  BY <1>1, <1>5, <1>6, <1>7, <1>8 DEF FetchClock

\* A jump carries the exception of its target, and everything what it found.
LEMMA ExecutedStep ==
  ASSUME Grounds, SlotsRight, NEW enable \in BOOLEAN, NEW in \in Inputs,
         AccessEdge(enable, in), ~CommitRedirect(in), ~ExMemStall(in), M'.valid
  PROVE  Executed(M)'
<1>1. E.valid /\ E \in Slot
  BY NextValid DEF AccessEdge, Grounds, CoreTypeOK, PipeTypeOK
<1>2. M' = [E EXCEPT !.iexc = E.iexc \/ (E.valid /\ BranchValid(in) /\ Misaligned(in.ex)),
                     !.alu = in.ex,
                     !.val = IF OpOf(E) = "mdu" THEN mduFor ELSE Zero]
  BY DEF AccessEdge, PipeClock, ExMemClock
<1>3. /\ M'.pc = E.pc /\ M'.instr = E.instr /\ M'.alu = in.ex
      /\ M'.iexc <=> E.iexc \/ (BranchValid(in) /\ Misaligned(in.ex))
  BY <1>1, <1>2 DEF Slot
<1>4. Decoded(E) /\ in.ex \in Outcomes(E)
  BY <1>1 DEF SlotsRight, AccessEdge
<1>5. WordRight(M)'
  BY <1>3, <1>4, SameMeaning DEF WordRight, Decoded, Now
<1>6. (M.alu \in Outcomes(M))'
  BY <1>3, <1>4 DEF Outcomes
<1>7. BadTarget(M)' <=> BranchValid(in) /\ Misaligned(in.ex)
  BY <1>3 DEF BadTarget, BranchValid, OpOf
<1>8. QED
  BY <1>3, <1>4, <1>5, <1>6, <1>7 DEF Executed, Decoded

\* An access that is through has faulted exactly when the tables refuse it.
LEMMA AccessedStep ==
  ASSUME Grounds, TranslateInv, SlotsRight, NEW enable \in BOOLEAN, NEW in \in Inputs,
         AccessEdge(enable, in), ~CommitRedirect(in), W'.valid
  PROVE  Executed(W)' /\ Accessed(W)'
<1>1. OneInFlight /\ M \in Slot
  BY SpacingSuffices DEF Grounds, CoreTypeOK, PipeTypeOK
<1>2. ~MemStall(in)
  <2>1. MemStall(in) => W' = W /\ M.valid
    BY DEF AccessEdge, PipeClock, MemWbClock, MemStall, MemReq
  <2>2. QED
    BY <1>1, <2>1 DEF OneInFlight
<1>3. W' = [M EXCEPT !.dexc = DataMisaligned(M),
                     !.dpf = in.fault \in {"LOAD", "STORE"},
                     !.val = IF OpOf(M) = "load" THEN in.dval ELSE M.val]
  BY <1>2 DEF AccessEdge, PipeClock, MemWbClock
<1>4. /\ W'.valid = M.valid /\ W'.pc = M.pc /\ W'.instr = M.instr /\ W'.alu = M.alu
      /\ W'.iexc = M.iexc /\ W'.ipf = M.ipf /\ W'.dexc = DataMisaligned(M)
      /\ W'.dpf = (mmuFault \in {"LOAD", "STORE"})
  BY <1>1, <1>3 DEF Slot, AccessEdge
<1>5. M.valid /\ ~W.valid /\ Executed(M)
  BY <1>1, <1>4 DEF OneInFlight, SlotsRight
<1>6. \A va, access : Now(va, access)' = Now(va, access)
  BY SameMeaning
<1>7. Executed(W)'
  BY <1>4, <1>5, <1>6 DEF Executed, WordRight, Outcomes, BadTarget, OpOf, Now
<1>8. ~M.ipf
  BY DEF Grounds, AccessInv, BusesInv, FlagsEarly
<1>9. mmuFault \in {"LOAD", "STORE"} <=>
         /\ OpOf(M) \in {"load", "store"} /\ ~DataMisaligned(M)
         /\ Now(M.alu, AccessOf(M)) = Nil
  <2>1. CASE mmuFault \notin {"none", "FETCH"}
    <3>1. mmuFault \in {"LOAD", "STORE"} /\ arbBusy /\ arbIndex = DataPort /\ MemReq
      BY <2>1, QuietCycle DEF Grounds
    <3>2. arbReq = [valid |-> TRUE, addr |-> M.alu, write |-> OpOf(M) = "store"]
      BY <3>1 DEF Grounds, AccessInv, BusesInv, MmuServes, DataReq, DataPort, FetchPort
    <3>3. ArbAccess = AccessOf(M)
      <4>1. arbReq.write <=> OpOf(M) = "store"
        BY <3>2
      <4>2. QED
        BY <3>1, <4>1 DEF ArbAccess, AccessOf, DataPort
    <3>4. Now(M.alu, AccessOf(M)) = Nil
      BY <2>1, <3>2, <3>3 DEF TranslateInv, AccessRight, Now
    <3>5. QED
      BY <3>1, <3>4 DEF MemReq
  <2>2. CASE mmuFault = "FETCH"
    BY <1>5, <2>2, QuietCycle DEF Grounds, MemReq
  <2>3. CASE mmuFault = "none" /\ MemReq
    <3>1. ~ExceptionW /\ ~MretValid
      BY <1>5 DEF ExceptionW, MretValid
    <3>2. ~Cancelled
      BY <2>3, <3>1, QuietCycle DEF Grounds
    <3>3. Answers(DataPort)
      BY <1>2, <2>3, <3>2 DEF MemStall, AccessEdge
    <3>4. mmuPaddr = Now(M.alu, AccessOf(M))
      BY <2>3, <3>2, <3>3, AnswerOwn DEF TranslateInv, AccessOf
    <3>5. mmuPaddr # Nil
      BY NotAddr DEF Grounds, CoreTypeOK, MmuTypeOK
    <3>6. QED
      BY <2>3, <3>4, <3>5
  <2>4. CASE mmuFault = "none" /\ ~MemReq
    BY <1>5, <2>4 DEF MemReq
  <2>5. QED
    BY <2>1, <2>2, <2>3, <2>4
<1>10. Accessed(W)'
  BY <1>4, <1>6, <1>8, <1>9 DEF Accessed, DataMisaligned, AccessOf, OpOf, Now
<1>11. QED
  BY <1>7, <1>10

LEMMA SlotsStep ==
  ASSUME Grounds, MissAlone, NoFetchFault, TranslateInv, InOrder, SlotsRight,
         NEW enable \in BOOLEAN, NEW in \in Inputs, AccessEdge(enable, in)
  PROVE  SlotsRight'
<1>1. PipeClock(in) /\ PipeTypeOK /\ PipeInv /\ ~in.irq
  BY DEF AccessEdge, Grounds, CoreTypeOK
<1>2. CASE CommitRedirect(in)
  <2>1. W.valid /\ ~PcStall(in) /\ ~E.valid /\ ~M.valid
    BY <1>1, <1>2, OneSource
  <2>2. ~D'.valid /\ ~E'.valid /\ ~M'.valid /\ ~W'.valid
    BY <1>1, <1>2, <2>1, NextValid, OneSource
  <2>3. FinalRedirect(in) # Nil
    BY <1>1, <1>2, CommitLeads DEF Grounds, NoSret
  <2>4. FetchRedirect(FinalRedirect(in))
    BY <1>1, <2>1, <2>3 DEF PipeClock, FetchClock, InOrder, EffectiveRedirect
  <2>5. fCur' # "COMMIT"
    BY <2>4 DEF FetchRedirect
  <2>6. QED
    BY <2>2, <2>5 DEF SlotsRight
<1>3. CASE ~CommitRedirect(in)
  <2>1. \A va, access : Now(va, access)' = Now(va, access)
    BY <1>3, SameMeaning
  <2>2. fCur' = "COMMIT" /\ ~ExceptionW' => Decoded(FetchedSlot)'
    BY <1>3, FetchedStep
  <2>3. ~ExceptionW
    BY <1>3 DEF CommitRedirect, TrapValid
  <2>4. ASSUME D'.valid PROVE Decoded(D)'
    <3>1. CASE D' = D
      BY <2>1, <2>4, <3>1 DEF SlotsRight, Decoded, WordRight, Now
    <3>2. CASE D' # D
      <4>1. FetchValid /\ D' = [Bubble EXCEPT !.valid = TRUE, !.pc = fPc, !.instr = fInstr,
                                        !.iexc = fExc, !.ipf = in.fault = "FETCH"]
        BY <1>1, <2>4, <3>2 DEF PipeClock, IfIdClock, Bubble
      <4>2. D'.pc = fPc /\ D'.instr = fInstr /\ D'.iexc = fExc
        BY <4>1 DEF Bubble
      <4>3. Decoded(FetchedSlot)
        BY <2>3, <4>1 DEF SlotsRight, FetchValid
      <4>4. QED
        BY <2>1, <4>2, <4>3 DEF Decoded, WordRight, FetchedSlot, Now
    <3>3. QED
      BY <3>1, <3>2
  <2>5. ASSUME E'.valid PROVE Decoded(E)'
    <3>1. E' = E \/ E' = D
      BY <1>1, <2>5, NextValid DEF PipeClock, IdExClock, Bubble
    <3>2. QED
      BY <2>1, <2>5, <3>1 DEF SlotsRight, Decoded, WordRight, Now
  <2>6. ASSUME M'.valid PROVE Executed(M)'
    <3>1. CASE ExMemStall(in)
      <4>1. M' = M
        BY <1>1, <1>3, <3>1 DEF PipeClock, ExMemClock
      <4>2. QED
        BY <2>1, <2>6, <4>1 DEF SlotsRight, Executed, WordRight, Outcomes, BadTarget, OpOf, Now
    <3>2. CASE ~ExMemStall(in)
      BY <1>3, <2>6, <3>2, ExecutedStep
    <3>3. QED
      BY <3>1, <3>2
  <2>7. W'.valid => Executed(W)' /\ Accessed(W)'
    BY <1>3, AccessedStep
  <2>8. QED
    BY <2>2, <2>4, <2>5, <2>6, <2>7 DEF SlotsRight
<1>4. QED
  BY <1>2, <1>3
-----------------------------------------------------------------------------
(* One instruction at a time.                                              *)

\* The architecture reads the same tables in the same way.
LEMMA SameTables ==
  /\ Architecture!Nil = Nil
  /\ \A a : Architecture!Misaligned(a) <=> Misaligned(a)
  /\ \A a : Architecture!Plus4(a) = Plus4(a)
  /\ \A va, access, mode, root :
        Architecture!Translation(va, access, mode, root) = Translation(va, access, mode, root)
<1>1. Architecture!Nil = Nil
  BY DEF Nil, Architecture!Nil
<1>2. \A a : Architecture!Misaligned(a) <=> Misaligned(a)
  BY DEF Misaligned, Architecture!Misaligned
<1>3. \A a : Architecture!Plus4(a) = Plus4(a)
  BY DEF Plus4, Architecture!Plus4
<1>4. \A pte : /\ Architecture!IsLeaf(pte) <=> IsLeaf(pte)
               /\ Architecture!PteInvalid(pte) <=> PteInvalid(pte)
  BY DEF IsLeaf, PteInvalid, Architecture!IsLeaf, Architecture!PteInvalid
<1>5. \A level : Architecture!Span(level) = Span(level)
  BY DEF Span, Architecture!Span
<1>6. \A pte, level, access, mode :
         Architecture!WalkFault(pte, level, access, mode) <=> WalkFault(pte, level, access, mode)
  BY <1>4, <1>5 DEF WalkFault, LeafFault, Architecture!WalkFault, Architecture!LeafFault
<1>7. \A ppn, va, level : Architecture!Leaf(ppn, va, level) = Leaf(ppn, va, level)
  BY <1>5 DEF Leaf, Architecture!Leaf
<1>8. \A table, va, level : Architecture!EntryAt(table, va, level) = EntryAt(table, va, level)
  BY <1>5 DEF EntryAt, PteAddr, Architecture!EntryAt, Architecture!PteAddr
<1>9. \A ppn : Architecture!PageAt(ppn) = PageAt(ppn)
  BY DEF PageAt, Architecture!PageAt
<1>10. \A pte, level, va, access, mode, deeper :
          Architecture!Resolve(pte, level, va, access, mode, deeper)
             = Resolve(pte, level, va, access, mode, deeper)
  BY <1>1, <1>4, <1>6, <1>7 DEF Resolve, Architecture!Resolve
<1>11. \A table, va, access, mode :
          Architecture!Walk0(table, va, access, mode) = Walk0(table, va, access, mode)
  BY <1>1, <1>8, <1>10 DEF Walk0, Architecture!Walk0
<1>12. \A table, va, access, mode :
          Architecture!Walk1(table, va, access, mode) = Walk1(table, va, access, mode)
  BY <1>8, <1>9, <1>10, <1>11 DEF Walk1, Architecture!Walk1
<1>13. \A table, va, access, mode :
          Architecture!Walk2(table, va, access, mode) = Walk2(table, va, access, mode)
  BY <1>8, <1>9, <1>10, <1>12 DEF Walk2, Architecture!Walk2
<1>14. \A va, access, mode, root :
          Architecture!Translation(va, access, mode, root) = Translation(va, access, mode, root)
  BY <1>1, <1>13 DEF Translation, Translates, Architecture!Translation, Architecture!Translates
<1>15. QED
  BY <1>1, <1>2, <1>3, <1>14

LEMMA IsaReset == CoreInit => Architecture!Reset
<1> SUFFICES ASSUME CoreInit PROVE Architecture!Reset
  OBVIOUS
<1>1. OldestPc = PcInit
  BY DEF CoreInit, PipeInit, FetchInit, Bubble, OldestPc, FetchPc
<1>2. QED
  BY <1>1, SameTables DEF CoreInit, PipeInit, TrapInit, ResetCause, Architecture!Reset

\* An edge with nothing in WB changes nothing the program sees.
LEMMA IsaWaits ==
  ASSUME Grounds, StreamStep, NEW enable \in BOOLEAN, NEW in \in Inputs,
         AccessEdge(enable, in), ~W.valid
  PROVE  UNCHANGED Architecture!isaVars
<1>1. ~TrapValid(in.irq) /\ ~MretValid /\ ~SretValid
  BY DEF AccessEdge, TrapValid, InterruptTake, ExceptionW, MretValid, SretValid
<1>2. CsrWrite(NoWrite)
  BY <1>1 DEF AccessEdge, PipeClock, TrapClock
<1>3. OldestPc' = OldestPc
  BY DEF StreamStep
<1>4. UNCHANGED trapVars
  BY <1>2 DEF CsrWrite, NoWrite, trapVars
<1>5. QED
  BY <1>3, <1>4 DEF trapVars, Architecture!isaVars, Architecture!trapRegs,
                    Architecture!setupRegs

\* The word in WB is the one the program has at its pc.
LEMMA WordInWb ==
  ASSUME Grounds, TranslateInv, SlotsRight, W.valid
  PROVE  /\ OldestPc = W.pc
         /\ Misaligned(W.pc) => OpOf(W) = "nop" /\ W.iexc
         /\ ~Misaligned(W.pc) =>
              /\ Architecture!Word = W.instr /\ W.instr \in Addr /\ W.instr # Nil
              /\ OpOf(W) = Op[W.instr] /\ W.alu \in Outcome[W.instr]
              /\ W.iexc <=> BadTarget(W)
<1>1. OldestPc = W.pc
  BY DEF OldestPc
<1>2. Executed(W) /\ W \in Slot
  BY DEF SlotsRight, Grounds, CoreTypeOK, PipeTypeOK
<1>3. Misaligned(W.pc) => OpOf(W) = "nop" /\ W.iexc
  BY <1>2 DEF Executed, WordRight, OpOf
<1>4. ASSUME ~Misaligned(W.pc)
      PROVE  /\ Architecture!Word = W.instr /\ W.instr \in Addr /\ W.instr # Nil
             /\ OpOf(W) = Op[W.instr] /\ W.alu \in Outcome[W.instr]
             /\ W.iexc <=> BadTarget(W)
  <2>1. W.instr = Now(W.pc, "FETCH")
    BY <1>2, <1>4 DEF Executed, WordRight
  <2>2. Architecture!Word = W.instr
    BY <1>1, <1>4, <2>1, SameTables DEF Architecture!Word, Architecture!Physical, Now
  <2>3. Now(W.pc, "FETCH") \in Addr \cup {Nil}
    BY <1>2, TranslationShape DEF Now, Accesses, Slot, TranslateInv, TableInv, RootAligned, Grounds,
                                  CoreTypeOK, PipeTypeOK, TrapTypeOK
  <2>4. W.instr \in Words
    BY <1>2 DEF Slot
  <2>5. W.instr # Zero /\ W.instr # Nil
    BY <2>1, <2>3, <2>4, NotAddr DEF Words
  <2>6. W.instr \in Addr
    BY <2>4, <2>5 DEF Words
  <2>7. QED
    BY <1>2, <1>4, <2>2, <2>5, <2>6 DEF Executed, Outcomes, OpOf
<1>5. QED
  BY <1>1, <1>3, <1>4

\* A trap enters the handler as the architecture says.
LEMMA IsaRaises ==
  ASSUME Grounds, StreamStep, NEW enable \in BOOLEAN, NEW in \in Inputs,
         AccessEdge(enable, in), ExceptionW
  PROVE  Architecture!Raise(TrapCode)
<1>1. W.valid /\ TrapValid(in.irq)
  BY DEF ExceptionW, TrapValid
<1>2. TrapCause = [irq |-> FALSE, code |-> TrapCode] /\ TrapPc = W.pc
  BY DEF TrapCause, TrapPc
<1>3. OldestPc = W.pc /\ OldestPc' = IF TrapTarget(TrapCause) = "S" THEN stvec ELSE mtvec
  BY <1>1 DEF OldestPc, StreamStep, NextPc, TrapRedirect
<1>4. /\ TrapToS(TrapCause, W.pc) \/ TrapToM(TrapCause, W.pc)
      /\ UNCHANGED <<mie, mtvec, stvec, medeleg, satp>>
  BY <1>1, <1>2 DEF AccessEdge, PipeClock, TrapClock
<1>5. TrapTarget(TrapCause) = IF priv # "M" /\ TrapCode \in medeleg THEN "S" ELSE "M"
  BY <1>2 DEF TrapTarget
<1>6. priv \in Modes
  BY DEF Grounds, CoreTypeOK, PipeTypeOK, TrapTypeOK
<1> DEFINE handler == TrapTarget(TrapCause)
<1>7. Architecture!TrapIn(handler, TrapCause)
  <2>1. CASE handler = "S"
    BY <1>3, <1>4, <1>5, <1>6, <2>1
       DEF TrapToS, TrapToM, Modes, Architecture!TrapIn, Architecture!setupRegs
  <2>2. CASE handler = "M"
    BY <1>3, <1>4, <1>5, <1>6, <2>2
       DEF TrapToS, TrapToM, Architecture!TrapIn, Architecture!setupRegs
  <2>3. QED
    BY <1>5, <2>1, <2>2
<1>8. QED
  BY <1>2, <1>5, <1>7 DEF Architecture!Raise

\* An instruction that traps does so with the cause the architecture gives.
LEMMA IsaTraps ==
  ASSUME Grounds, TranslateInv, SlotsRight, StreamStep,
         NEW enable \in BOOLEAN, NEW in \in Inputs, AccessEdge(enable, in), ExceptionW
  PROVE  Architecture!Execute
<1>1. W.valid /\ Architecture!Raise(TrapCode)
  BY IsaRaises DEF ExceptionW
<1>2. Accessed(W) /\ OldestPc = W.pc
  BY <1>1, WordInWb DEF SlotsRight
<1>3. CASE Misaligned(W.pc)
  <2>1. TrapCode = 0
    BY <1>1, <1>3, WordInWb DEF TrapCode
  <2>2. QED
    BY <1>1, <1>2, <1>3, <2>1, SameTables DEF Architecture!FetchFault, Architecture!Execute
<1>4. CASE ~Misaligned(W.pc)
  <2> DEFINE op == OpOf(W)
  <2>1. /\ Architecture!Word = W.instr /\ W.alu \in Outcome[W.instr]
        /\ W.iexc <=> BadTarget(W)
        /\ Architecture!Executes(op)
    BY <1>1, <1>4, WordInWb, SameTables DEF Architecture!Executes
  <2>2. CASE BadTarget(W)
    <3>1. TrapCode = 0 /\ op = "jump" /\ W.alu # Nil /\ Misaligned(W.alu)
      BY <2>1, <2>2 DEF TrapCode, BadTarget
    <3>2. Architecture!Jump
      BY <1>1, <2>1, <3>1, SameTables DEF Architecture!Jump
    <3>3. QED
      BY <3>2 DEF Architecture!Execute
  <2>3. CASE ~BadTarget(W) /\ W.dexc
    <3>1. W.alu % 8 # 0 /\ op \in {"load", "store"}
      BY <1>2, <2>3 DEF Accessed, DataMisaligned
    <3>2. TrapCode = IF op = "store" THEN 6 ELSE 4
      BY <1>2, <2>1, <2>3 DEF TrapCode, Accessed
    <3>3. op = "load" => Architecture!Load
      BY <1>1, <2>1, <3>1, <3>2, SameTables DEF Architecture!Load, Architecture!Access
    <3>4. op = "store" => Architecture!Store
      BY <1>1, <2>1, <3>1, <3>2, SameTables DEF Architecture!Store, Architecture!Access
    <3>5. QED
      BY <3>1, <3>3, <3>4 DEF Architecture!Execute
  <2>4. CASE ~BadTarget(W) /\ ~W.dexc /\ W.dpf
    <3>1. /\ W.alu % 8 = 0 /\ op \in {"load", "store"}
          /\ Architecture!Physical(W.alu, AccessOf(W)) = Nil
      BY <1>2, <2>4, SameTables DEF Accessed, DataMisaligned, Architecture!Physical, Now
    <3>2. TrapCode = IF op = "store" THEN 15 ELSE 13
      BY <1>2, <2>1, <2>4 DEF TrapCode, Accessed
    <3>3. op = "load" => Architecture!Load
      BY <1>1, <2>1, <3>1, <3>2, SameTables DEF AccessOf, Architecture!Load, Architecture!Access
    <3>4. op = "store" => Architecture!Store
      BY <1>1, <2>1, <3>1, <3>2, SameTables DEF AccessOf, Architecture!Store, Architecture!Access
    <3>5. QED
      BY <3>1, <3>3, <3>4 DEF Architecture!Execute
  <2>5. CASE ~BadTarget(W) /\ ~W.dexc /\ ~W.dpf
    <3>1. op = "ecall" /\ TrapCode = IF priv = "U" THEN 8 ELSE 11
      BY <1>2, <2>1, <2>5 DEF ExceptionW, TrapCode, Accessed
    <3>2. Architecture!Ecall
      BY <1>1, <2>1, <3>1 DEF Architecture!Ecall
    <3>3. QED
      BY <3>2 DEF Architecture!Execute
  <2>6. QED
    BY <2>2, <2>3, <2>4, <2>5
<1>5. QED
  BY <1>3, <1>4

\* An instruction that does not trap retires, returns or writes its register.
LEMMA IsaCompletes ==
  ASSUME Grounds, TranslateInv, SlotsRight, StreamStep,
         NEW enable \in BOOLEAN, NEW in \in Inputs, AccessEdge(enable, in),
         W.valid, ~ExceptionW
  PROVE  Architecture!Execute
<1> DEFINE op == OpOf(W)
<1>1. ~Misaligned(W.pc) /\ ~W.iexc /\ ~W.dexc /\ ~W.dpf /\ op # "ecall"
  BY WordInWb DEF ExceptionW
<1>2. /\ Architecture!Word = W.instr /\ W.alu \in Outcome[W.instr] /\ ~BadTarget(W)
      /\ Architecture!Executes(op) /\ OldestPc = W.pc /\ op = Op[W.instr]
  BY <1>1, WordInWb, SameTables DEF Architecture!Executes
<1>3. Accessed(W)
  BY DEF SlotsRight
<1>4. ~TrapValid(in.irq) /\ ~SretValid /\ op # "sret"
  BY DEF TrapValid, InterruptTake, AccessEdge, Grounds, NoSret, SretValid
<1>5. OldestPc' = IF MretValid THEN mepc ELSE Following(W)
  BY <1>4 DEF StreamStep, NextPc
<1>6. CASE op = "mret"
  <2>1. Mret /\ UNCHANGED <<mie, mtvec, stvec, medeleg, satp>>
    BY <1>4, <1>6 DEF AccessEdge, PipeClock, TrapClock, MretValid
  <2>2. Architecture!MReturn
    BY <1>2, <1>5, <1>6, <2>1
       DEF Mret, MretValid, Architecture!MReturn, Architecture!trapRegs, Architecture!setupRegs
  <2>3. QED
    BY <2>2 DEF Architecture!Execute
<1>7. CASE op = "csrw"
  <2>1. CsrWrite(CsrArg[W.instr]) /\ ~MretValid
    BY <1>4, <1>7 DEF AccessEdge, PipeClock, TrapClock, MretValid
  <2>2. OldestPc' = Plus4(OldestPc)
    BY <1>2, <1>5, <1>7, <2>1 DEF Following
  <2>3. Architecture!WriteCsr
    BY <1>2, <1>7, <2>1, <2>2, SameTables DEF CsrWrite, Architecture!WriteCsr
  <2>4. QED
    BY <2>3 DEF Architecture!Execute
<1>8. CASE op \notin {"mret", "csrw"}
  <2>1. CsrWrite(NoWrite) /\ ~MretValid
    BY <1>4, <1>8 DEF AccessEdge, PipeClock, TrapClock, MretValid
  <2>2. OldestPc' = Following(W)
    BY <1>5, <2>1
  <2>3. \A next : next = Following(W) => Architecture!Retire(next)
    BY <2>1, <2>2 DEF CsrWrite, NoWrite, Architecture!Retire, Architecture!trapRegs,
                      Architecture!setupRegs
  <2>4. W.instr \in Addr /\ op \in Ops
    BY <1>1, <1>2, WordInWb, ProgramAssumption
  <2>5. CASE op \in {"nop", "alu", "mdu"}
    BY <1>2, <2>3, <2>5, SameTables DEF Following, Architecture!Compute, Architecture!Execute
  <2>6. CASE op \in {"load", "store"}
    <3>1. W.alu % 8 = 0 /\ Architecture!Physical(W.alu, AccessOf(W)) # Nil
      BY <1>1, <1>3, <2>6, SameTables DEF Accessed, DataMisaligned, Architecture!Physical, Now
    <3>2. Architecture!Retire(Plus4(OldestPc))
      BY <1>2, <2>3, <2>6 DEF Following
    <3>3. op = "load" => Architecture!Load
      BY <1>2, <3>1, <3>2, SameTables DEF AccessOf, Architecture!Load, Architecture!Access
    <3>4. op = "store" => Architecture!Store
      BY <1>2, <3>1, <3>2, SameTables DEF AccessOf, Architecture!Store, Architecture!Access
    <3>5. QED
      BY <2>6, <3>3, <3>4 DEF Architecture!Execute
  <2>7. CASE op = "jump"
    <3>1. Architecture!Jump
      BY <1>2, <2>3, <2>7, SameTables DEF Following, BadTarget, Architecture!Jump
    <3>2. QED
      BY <3>1 DEF Architecture!Execute
  <2>8. QED
    BY <1>1, <1>4, <1>8, <2>4, <2>5, <2>6, <2>7 DEF Ops
<1>9. QED
  BY <1>6, <1>7, <1>8

\* Every clock edge is an instruction of the program, or nothing to it.
LEMMA IsaStep ==
  ASSUME NoInterrupts, NoFetchFault, NothingAtZero, Grounds, MissAlone, TranslateInv,
         InOrder, SlotsRight, [CoreNext]_coreVars
  PROVE  /\ InOrder' /\ SlotsRight'
         /\ [Architecture!IsaNext]_(Architecture!isaVars)
<1>1. CASE CoreNext
  <2>1. PICK enable \in BOOLEAN, in \in Inputs : AccessEdge(enable, in)
    BY <1>1, AccessClock DEF Grounds, AccessInv, BusesInv
  <2>2. InOrder' /\ StreamStep
    BY <2>1, InOrderStep DEF AccessEdge, Grounds, CoreTypeOK, NoSret, NothingAtZero
  <2>3. SlotsRight'
    BY <2>1, SlotsStep
  <2>4. W.valid => Architecture!Execute
    BY <2>1, <2>2, IsaTraps, IsaCompletes
  <2>5. ~W.valid => UNCHANGED Architecture!isaVars
    BY <2>1, <2>2, IsaWaits
  <2>6. QED
    BY <2>2, <2>3, <2>4, <2>5 DEF Architecture!IsaNext
<1>2. CASE UNCHANGED coreVars
  <2> USE <1>2 DEF coreVars, pipeVars, trapVars, fetchVars, slotVars
  <2>1. InOrder'
    BY DEF InOrder, FetchPc, Following, OpOf
  <2>2. SlotsRight'
    BY DEF SlotsRight, Decoded, Executed, Accessed, WordRight, FetchedSlot, BadTarget, Outcomes,
           DataMisaligned, AccessOf, OpOf, ExceptionW, Now, Translation, Translates
  <2>3. UNCHANGED Architecture!isaVars
    BY DEF OldestPc, FetchPc, Architecture!isaVars, Architecture!trapRegs, Architecture!setupRegs
  <2>4. QED
    BY <2>1, <2>2, <2>3
<1>3. QED
  BY <1>1, <1>2

\* The machine implements its instruction set: each instruction is the word
\* at its own translated address, and each trap, return and CSR write
\* changes the registers as one instruction at a time would.
THEOREM CoreImplementsIsa ==
  /\ CoreSpec /\ []NoInterrupts /\ []NoSret /\ []NothingAtZero /\ []NoFetchFault
  /\ []SatpFromM /\ []HitsPermitted
  => ImplementsIsa
<1>1. CoreInit => InOrder /\ SlotsRight
  BY DEF CoreInit, PipeInit, FetchInit, Bubble, InOrder, SlotsRight
<1>2. /\ CoreTypeOK /\ PipeInv /\ BusInv /\ AccessInv /\ DeviceStable
      /\ NoSret /\ SatpFromM
      => Grounds
  BY DEF Grounds
<1>3. /\ NoInterrupts /\ NoFetchFault /\ Grounds /\ MissAlone /\ TranslateInv /\ InOrder
      /\ SlotsRight /\ NothingAtZero /\ [CoreNext]_coreVars
      => /\ InOrder' /\ SlotsRight'
         /\ [Architecture!IsaNext]_(Architecture!isaVars)
  BY IsaStep
<1>4. QED
  BY CoreTypeCorrect, CoreImplementsPipe, PipelineInvariant, FetchBusInvariant,
     DeviceRequestStable, AccessInvariant, TranslationInvariant, IsaReset,
     <1>1, <1>2, <1>3, PTL
     DEF CoreSpec, ImplementsIsa, Architecture!IsaSpec
=============================================================================
