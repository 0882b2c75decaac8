-------------------------- MODULE PageTablesProofs -------------------------
(***************************************************************************)
(* The page tables, for every size of a table, every number of gigabytes   *)
(* the kernel maps and every number of page faults.  For a program of any  *)
(* size: the builders keep to the pages allocated for the tables, and the  *)
(* kernel stays mapped after every store.  For a program that leaves the   *)
(* last two entries of its table alone (Fits): no store of a rebuild leads *)
(* an address astray, and the address space is the one meant whenever the  *)
(* program runs.                                                           *)
(*                                                                         *)
(* The argument is about words of memory.  A builder is a sequence of      *)
(* stores; Fills says what its last store to every word leaves there, and  *)
(* Due what a word will hold when the running builder is done.             *)
(***************************************************************************)
EXTENDS PageTables, TLAPS

----------------------------------------------------------------------------
(* Arithmetic.                                                             *)

LEMMA Product ==
    ASSUME NEW a \in Nat, NEW b \in Nat
    PROVE  a * b \in Nat /\ (a + 1) * b = a * b + b /\ a * b = b * a
  OBVIOUS

LEMMA Distribute ==
    ASSUME NEW a \in Int, NEW b \in Int, NEW c \in Int
    PROVE  (a + b) * c = a * c + b * c /\ a * c \in Int
  OBVIOUS

LEMMA Products ==
    ASSUME NEW a \in Nat, NEW b \in Nat, NEW c \in Nat, a < b
    PROVE  a * c + c <= b * c /\ a * c \in Nat /\ b * c \in Nat
  <1>1. (a + 1) * c <= b * c OBVIOUS
  <1> QED BY <1>1, Product

LEMMA Divide ==
    ASSUME NEW a \in Nat, NEW r \in Nat \ {0}
    PROVE  /\ a \div r \in Nat
           /\ a < r => a \div r = 0
           /\ r <= a /\ a < 2 * r => a \div r = 1
           /\ a >= r => a \div r >= 1
  OBVIOUS

----------------------------------------------------------------------------
(* Where the tables are: their pages, and their first words.               *)

KPte  == info.kernelPt
KPde  == KPte + Giga * Radix
KPdpe == KPde + Giga
KPml4 == KPdpe + 1

Index == 0..(Radix - 1)
Span == Giga * Radix          \* page tables of the kernel
K0 == KPte * Radix
K1 == K0 + PhysicalPages
K2 == K1 + Span
K3 == K2 + Radix
U0 == UserPte * Radix

LaidOut == \E binary \in BinaryPages : info = Layout(binary)

LEMMA Constants ==
    /\ Radix \in Nat /\ Radix > 3 /\ Giga \in Nat /\ Giga >= 1 /\ Giga <= Radix
    /\ Span \in Nat /\ Span = Giga * Radix /\ Span >= Radix /\ Span <= Radix * Radix
    /\ PhysicalPages \in Nat /\ PhysicalPages = Span * Radix /\ PhysicalPages >= Span
    /\ MaxFaults \in Nat
  <1>1. Radix \in Nat /\ Radix > 3 /\ Giga \in Nat /\ Giga >= 1 /\ Giga <= Radix /\ MaxFaults \in Nat
    BY RadixAssumption
  <1>2. Span \in Nat /\ Span >= Radix /\ Span <= Radix * Radix
    BY <1>1 DEF Span
  <1>3. PhysicalPages = Span * Radix BY DEF PhysicalPages, Span
  <1>4. Span * Radix \in Nat /\ Span * Radix >= Span BY <1>1, <1>2
  <1> QED BY <1>1, <1>2, <1>3, <1>4 DEF Span

LEMMA PagesForFacts ==
    ASSUME NEW n \in Nat, n >= 1
    PROVE  PagesFor(n) \in Nat /\ PagesFor(n) >= 1
  <1>1. n + Radix - 1 \in Nat /\ n + Radix - 1 >= Radix BY Constants
  <1> QED BY <1>1, Constants, Divide DEF PagesFor

LEMMA LayoutFacts ==
    ASSUME LaidOut
    PROVE  /\ info.n.ptes \in Nat /\ info.n.ptes >= 2 /\ info.n.ptes <= Radix + 1
           /\ info.n.pdes \in 1..2 /\ (info.n.ptes < Radix => info.n.pdes = 1)
           /\ info.n.pdpes = 1 /\ info.n.pml4es = 1
           /\ info.app = 1 /\ KPte \in Nat /\ KPte = info.n.ptes
           /\ UserPte = KPml4 + 1
           /\ UserTablePages(info.n) \in Nat /\ UserTablePages(info.n) >= 4
           /\ info.tss = UserPte + UserTablePages(info.n)
           /\ info.tls = info.tss + 2 /\ info.extra = info.tss + 3
           /\ info.userStack = info.tss + 5 /\ info.userStack < PhysicalPages
           /\ \E binary \in BinaryPages : info.n.ptes = binary + 1
  <1>1. PICK binary \in BinaryPages : info = Layout(binary) BY DEF LaidOut
  <1>2. binary \in Nat /\ binary >= 1 /\ binary <= Radix BY <1>1, RadixAssumption
  <1> DEFINE n == Levels(binary + 1)
  <1>3. /\ n.ptes = binary + 1 /\ n.pdes = (binary + 1) \div Radix + 1
        /\ n.pdpes = n.pdes \div Radix + 1 /\ n.pml4es = n.pdpes \div Radix + 1
    BY DEF Levels
  <1>4. n.pdes \in 1..2 /\ (n.ptes < Radix => n.pdes = 1)
    BY <1>2, <1>3, Constants, Divide
  <1>5. n.pdpes = 1 BY <1>3, <1>4, Constants, Divide
  <1>6. n.pml4es = 1 BY <1>3, <1>5, Constants, Divide
  <1>7. UserTablePages(n) \in Nat /\ UserTablePages(n) >= 4
    BY <1>2, <1>3, <1>4, <1>5, <1>6, PagesForFacts DEF UserTablePages
  <1>8. /\ info.n = n /\ info.app = 1 /\ info.kernelPt = 1 + binary
        /\ info.userPt = 1 + binary + KernelTablePages
        /\ info.tss = 1 + binary + KernelTablePages + UserTablePages(n)
        /\ info.tls = info.tss + 2 /\ info.extra = info.tss + 3
        /\ info.userStack = info.tss + 5 /\ info.userStack < PhysicalPages
    BY <1>1, MemoryAssumption DEF Layout, StackPages
  <1>9. KernelTablePages = Span + Giga + 2 BY DEF KernelTablePages, Span
  <1> HIDE DEF n
  <1> QED BY <1>2, <1>3, <1>4, <1>5, <1>6, <1>7, <1>8, <1>9, Constants
          DEF KPte, KPml4, KPdpe, KPde, UserPte, Span

LEMMA TableWords ==
    ASSUME LaidOut
    PROVE  /\ K0 \in Nat /\ K0 = KPte * Radix
           /\ K1 = KPde * Radix /\ K2 = KPdpe * Radix /\ K3 = KPml4 * Radix
           /\ K1 = K0 + PhysicalPages /\ K2 = K1 + Span /\ K3 = K2 + Radix
           /\ U0 = K3 + Radix /\ U0 \in Nat /\ UserPte * Radix = U0
           /\ UserPde * Radix = U0 + Radix /\ UserPdpe * Radix = U0 + 2 * Radix
           /\ UserPml4 * Radix = U0 + 3 * Radix
           /\ U0 + 4 * Radix <= PhysicalPages * Radix
           /\ PhysicalPages * Radix \in Nat
  <1>1. /\ KPte \in Nat /\ KPde = KPte + Span /\ KPdpe = KPde + Giga /\ KPml4 = KPdpe + 1
        /\ UserPte = KPml4 + 1 /\ UserPde = UserPte + 1 /\ UserPdpe = UserPde + 1
        /\ UserPml4 = UserPdpe + 1 /\ UserPml4 < PhysicalPages
    BY LayoutFacts, Constants DEF KPde, KPdpe, KPml4, Span, UserPde, UserPdpe, UserPml4
  <1>2. KPde * Radix = KPte * Radix + Span * Radix
    BY <1>1, Constants, Distribute
  <1>3. KPdpe * Radix = KPde * Radix + Giga * Radix
    BY <1>1, Constants, Distribute
  <1>4. /\ KPml4 * Radix = KPdpe * Radix + Radix /\ UserPte * Radix = KPml4 * Radix + Radix
        /\ UserPde * Radix = UserPte * Radix + Radix /\ UserPdpe * Radix = UserPde * Radix + Radix
        /\ UserPml4 * Radix = UserPdpe * Radix + Radix
    BY <1>1, Constants, Product
  <1>5. UserPml4 * Radix + Radix <= PhysicalPages * Radix /\ PhysicalPages * Radix \in Nat
    BY <1>1, Constants, Products
  <1>6. KPte * Radix \in Nat BY <1>1, Constants, Product
  <1> QED BY <1>2, <1>3, <1>4, <1>5, <1>6, Constants DEF K0, K1, K2, K3, U0, Span

----------------------------------------------------------------------------
(* What a sequence of stores comes to, word by word.                       *)

Touches(s, w) == \E j \in 1..Len(s) : s[j][1] = w

\* The last store to w leaves x there.
Leaves(s, w, x) ==
    \E j \in 1..Len(s) : s[j] = <<w, x>> /\ \A k \in (j + 1)..Len(s) : s[k][1] # w

\* s stores into the words from a up to b, and leaves there what f says.
Fills(s, f, a, b) ==
    \A w \in Int : IF a <= w /\ w < b THEN Leaves(s, w, f[w]) ELSE ~Touches(s, w)

\* What will be in w when the running builder is done.
Due(w, x) == Leaves(todo, w, x) \/ (~Touches(todo, w) /\ mem[w] = x)

LEMMA Cat ==
    ASSUME NEW S, NEW p \in Seq(S), NEW q \in Seq(S), NEW c, c = p \o q,
           NEW m, NEW n, m = Len(p), n = Len(q)
    PROVE  /\ c \in Seq(S) /\ Len(c) = m + n /\ m \in Nat /\ n \in Nat
           /\ \A j \in 1..m : c[j] = p[j]
           /\ \A j \in 1..n : c[m + j] = q[j]
  OBVIOUS

LEMMA CatLeaves ==
    ASSUME NEW S, NEW p \in Seq(S), NEW q \in Seq(S), NEW w, NEW x,
           NEW c, c = p \o q
    PROVE  /\ Leaves(q, w, x) => Leaves(c, w, x)
           /\ Leaves(p, w, x) /\ ~Touches(q, w) => Leaves(c, w, x)
           /\ Touches(c, w) => Touches(p, w) \/ Touches(q, w)
  <1>1. PICK m \in Nat, n \in Nat : m = Len(p) /\ n = Len(q) OBVIOUS
  <1>2. /\ Len(c) = m + n
        /\ \A j \in 1..m : c[j] = p[j]
        /\ \A j \in 1..n : c[m + j] = q[j]
    BY <1>1, Cat
  <1>3. ASSUME NEW k \in 1..Len(c), k > m PROVE \E j \in 1..n : k = m + j /\ c[k] = q[j]
    <2>1. k - m \in 1..n /\ k = m + (k - m) BY <1>1, <1>2, <1>3
    <2> QED BY <1>2, <2>1
  <1>4. ASSUME Leaves(q, w, x) PROVE Leaves(c, w, x)
    <2>1. PICK j \in 1..n : q[j] = <<w, x>> /\ \A k \in (j + 1)..n : q[k][1] # w
      BY <1>1, <1>4 DEF Leaves
    <2>2. PICK i : i = m + j OBVIOUS
    <2>3. i \in 1..Len(c) /\ c[i] = <<w, x>> BY <1>1, <1>2, <2>1, <2>2
    <2>4. ASSUME NEW k \in (i + 1)..Len(c) PROVE c[k][1] # w
      <3>1. k \in 1..Len(c) /\ k > m BY <1>1, <1>2, <2>2
      <3>2. PICK l \in 1..n : k = m + l /\ c[k] = q[l] BY <1>3, <3>1
      <3>3. l \in (j + 1)..n BY <1>1, <2>2, <3>2
      <3> QED BY <2>1, <3>2, <3>3
    <2> QED BY <2>3, <2>4 DEF Leaves
  <1>5. ASSUME Leaves(p, w, x), ~Touches(q, w) PROVE Leaves(c, w, x)
    <2>1. PICK j \in 1..m : p[j] = <<w, x>> /\ \A k \in (j + 1)..m : p[k][1] # w
      BY <1>1, <1>5 DEF Leaves
    <2>2. j \in 1..Len(c) /\ c[j] = <<w, x>> BY <1>1, <1>2, <2>1
    <2>3. ASSUME NEW k \in (j + 1)..Len(c) PROVE c[k][1] # w
      <3>1. CASE k <= m
        <4>1. k \in 1..m /\ k \in (j + 1)..m BY <1>1, <3>1
        <4> QED BY <1>2, <2>1, <4>1
      <3>2. CASE k > m
        <4>1. k \in 1..Len(c) BY <1>1, <1>2
        <4>2. PICK l \in 1..n : c[k] = q[l] BY <1>3, <3>2, <4>1
        <4> QED BY <1>1, <1>5, <4>2 DEF Touches
      <3> QED BY <1>1, <1>2, <3>1, <3>2
    <2> QED BY <2>2, <2>3 DEF Leaves
  <1>6. ASSUME Touches(c, w) PROVE Touches(p, w) \/ Touches(q, w)
    <2>1. PICK k \in 1..Len(c) : c[k][1] = w BY <1>6 DEF Touches
    <2>2. CASE k <= m
      <3>1. k \in 1..m BY <1>1, <1>2, <2>2
      <3> QED BY <1>1, <1>2, <2>1, <3>1 DEF Touches
    <2>3. CASE k > m
      <3>1. PICK l \in 1..n : c[k] = q[l] BY <1>3, <2>3
      <3> QED BY <1>1, <2>1, <3>1 DEF Touches
    <2> QED BY <1>1, <1>2, <2>2, <2>3
  <1> QED BY <1>4, <1>5, <1>6

LEMMA CatSeq ==
    ASSUME NEW S, NEW p \in Seq(S), NEW q \in Seq(S)
    PROVE  p \o q \in Seq(S)
  OBVIOUS

\* Two stretches that meet.
LEMMA CatFills ==
    ASSUME NEW S, NEW p \in Seq(S), NEW q \in Seq(S), NEW f,
           NEW a \in Int, NEW b \in Int, NEW c \in Int, a <= b, b <= c,
           Fills(p, f, a, b), Fills(q, f, b, c), NEW r, r = p \o q
    PROVE  r \in Seq(S) /\ Fills(r, f, a, c)
  <1>1. r \in Seq(S) BY CatSeq
  <1>2. ASSUME NEW w \in Int, a <= w, w < c PROVE Leaves(r, w, f[w])
    <2>1. CASE w < b
      <3>1. Leaves(p, w, f[w]) /\ ~Touches(q, w) BY <1>2, <2>1 DEF Fills
      <3> QED BY <3>1, CatLeaves
    <2>2. CASE b <= w
      <3>1. Leaves(q, w, f[w]) BY <1>2, <2>2 DEF Fills
      <3> QED BY <3>1, CatLeaves
    <2> QED BY <2>1, <2>2
  <1>3. ASSUME NEW w \in Int, ~(a <= w /\ w < c) PROVE ~Touches(r, w)
    <2>1. ~Touches(p, w) /\ ~Touches(q, w) BY <1>3 DEF Fills
    <2> QED BY <2>1, CatLeaves
  <1> QED BY <1>1, <1>2, <1>3 DEF Fills

LEMMA FunIsSeq ==
    ASSUME NEW S, NEW n \in Nat, NEW p \in [1..n -> S]
    PROVE  p \in Seq(S) /\ Len(p) = n
  OBVIOUS

LEMMA ListIsSeq ==
    ASSUME NEW S, NEW n \in Nat, NEW p, p = [j \in 1..n |-> p[j]],
           \A j \in 1..n : p[j] \in S
    PROVE  p \in Seq(S) /\ Len(p) = n
  OBVIOUS

\* A loop over the table whose first word is t, its values given by a function.
Looped(t, from, to, v) ==
    [j \in 1..(to - from) |-> <<t + from + j - 1, v[from + j - 1]>>]

LEMMA LoopedFacts ==
    ASSUME NEW t \in Int, NEW from \in Int, NEW to \in Int, from <= to,
           NEW v, NEW f, NEW S,
           NEW a \in Int, NEW b \in Int, a = t + from, b = t + to,
           \A i \in Int : from <= i /\ i < to => f[t + i] = v[i] /\ <<t + i, v[i]>> \in S,
           NEW p, p = Looped(t, from, to, v)
    PROVE  p \in Seq(S) /\ Fills(p, f, a, b)
  <1>1. PICK n \in Nat : n = to - from OBVIOUS
  <1>2. p = [j \in 1..n |-> <<t + from + j - 1, v[from + j - 1]>>]
    BY <1>1 DEF Looped
  <1>3. ASSUME NEW j \in 1..n
        PROVE  /\ <<t + from + j - 1, v[from + j - 1]>> \in S
               /\ v[from + j - 1] = f[t + from + j - 1]
    <2>1. PICK i \in Int : i = from + j - 1 BY <1>1
    <2>2. from <= i /\ i < to /\ t + from + j - 1 = t + i BY <1>1, <2>1
    <2>3. f[t + i] = v[i] /\ <<t + i, v[i]>> \in S BY <2>2
    <2> QED BY <2>1, <2>2, <2>3
  <1>4. p \in Seq(S) /\ Len(p) = n
    <2>1. p = [j \in 1..n |-> p[j]] BY <1>2
    <2>2. \A j \in 1..n : p[j] \in S BY <1>2, <1>3
    <2>3. p \in [1..n -> S] BY <2>1, <2>2, Zenon
    <2> QED BY <2>3, FunIsSeq, Zenon
  <1>5. \A j \in 1..n : p[j] = <<a + j - 1, f[a + j - 1]>> BY <1>2, <1>3
  <1>6. ASSUME NEW w \in Int, a <= w, w < b PROVE Leaves(p, w, f[w])
    <2>1. PICK j \in 1..n : a + j - 1 = w
      <3>1. w - a + 1 \in 1..n /\ a + (w - a + 1) - 1 = w BY <1>1, <1>6
      <3> QED BY <3>1
    <2>2. p[j] = <<w, f[w]>> BY <1>5, <2>1
    <2>3. ASSUME NEW k \in (j + 1)..n PROVE p[k][1] # w
      <3>1. k \in 1..n /\ a + k - 1 # w BY <1>1, <2>1
      <3> QED BY <1>5, <3>1
    <2> QED BY <1>4, <2>2, <2>3 DEF Leaves
  <1>7. ASSUME NEW w \in Int, ~(a <= w /\ w < b), Touches(p, w) PROVE FALSE
    <2>1. PICK j \in 1..n : p[j][1] = w BY <1>4, <1>7 DEF Touches
    <2>2. a + j - 1 = w BY <1>5, <2>1
    <2> QED BY <1>1, <1>7, <2>2
  <1> QED BY <1>4, <1>6, <1>7 DEF Fills

\* The same, of stores that are all as f says.
Good(f, a, b) == {<<w, f[w]>> : w \in {w \in Int : a <= w /\ w < b}}
Builds(s, f, a, b) == s \in Seq(Good(f, a, b)) /\ Fills(s, f, a, b)

LEMMA LoopedBuilds ==
    ASSUME NEW t \in Int, NEW from \in Int, NEW to \in Int, from <= to,
           NEW v, NEW f, NEW a \in Int, NEW b \in Int, a = t + from, b = t + to,
           \A i \in Int : from <= i /\ i < to => f[t + i] = v[i],
           NEW p, p = Looped(t, from, to, v)
    PROVE  Builds(p, f, a, b)
  <1>1. ASSUME NEW i \in Int, from <= i, i < to PROVE <<t + i, v[i]>> \in Good(f, a, b)
    <2>1. PICK w \in Int : w = t + i OBVIOUS
    <2>2. a <= w /\ w < b BY <1>1, <2>1
    <2>3. f[w] = v[i] BY <1>1, <2>1
    <2> QED BY <2>1, <2>2, <2>3 DEF Good
  <1> QED BY <1>1, LoopedFacts DEF Builds

LEMMA WiderSeq ==
    ASSUME NEW S, NEW T, S \subseteq T, NEW p \in Seq(S)
    PROVE  p \in Seq(T)
  <1>1. \A j \in 1..Len(p) : p[j] \in T OBVIOUS
  <1>2. Len(p) \in Nat /\ p = [j \in 1..Len(p) |-> p[j]] OBVIOUS
  <1>3. PICK n \in Nat : n = Len(p) BY <1>2
  <1> QED BY <1>1, <1>2, <1>3, ListIsSeq

LEMMA CatBuilds ==
    ASSUME NEW f, NEW a \in Int, NEW b \in Int, NEW c \in Int, a <= b, b <= c,
           NEW p, NEW q, Builds(p, f, a, b), Builds(q, f, b, c), NEW r, r = p \o q
    PROVE  Builds(r, f, a, c)
  <1>1. PICK S : S = Good(f, a, c) OBVIOUS
  <1>2. Good(f, a, b) \subseteq S /\ Good(f, b, c) \subseteq S BY <1>1 DEF Good
  <1>3. p \in Seq(S) /\ q \in Seq(S) BY <1>2, WiderSeq DEF Builds
  <1> QED BY <1>1, <1>3, CatFills DEF Builds

----------------------------------------------------------------------------
(* page_table_init_kernel.                                                 *)

KernelMap ==
    [w \in Int |->
        IF w < K1 THEN Entry(w - K0, FALSE)
        ELSE IF w < K2 THEN Entry(KPte + (w - K1), FALSE)
        ELSE IF w < K2 + Giga THEN Entry(KPde + (w - K2), FALSE)
        ELSE IF w = K3 THEN Entry(KPdpe, FALSE) ELSE Empty]

KernelSize == PhysicalPages + Span + 2 * Radix - 1

LEMMA KernelPages ==
    ASSUME LaidOut
    PROVE  KPte \in Nat /\ KPde \in Nat /\ KPdpe \in Nat /\ KPml4 \in Nat
           /\ UserPte \in Nat /\ UserPde \in Nat /\ UserPdpe \in Nat /\ UserPml4 \in Nat
           /\ KPde = KPte + Span /\ KPdpe = KPde + Giga /\ KPml4 = KPdpe + 1
           /\ UserPte = KPml4 + 1 /\ UserPde = UserPte + 1 /\ UserPdpe = UserPde + 1
           /\ UserPml4 = UserPdpe + 1 /\ UserPml4 < PhysicalPages
           /\ KernelRoot = KPml4
  BY LayoutFacts, Constants
     DEF KPde, KPdpe, KPml4, Span, UserPde, UserPdpe, UserPml4, KernelRoot, KernelTablePages, KPte

\* The words alone, without the products.
LEMMA Words0 ==
    ASSUME LaidOut
    PROVE  /\ K0 \in Nat /\ K1 \in Nat /\ K2 \in Nat /\ K3 \in Nat /\ U0 \in Nat
           /\ K1 = K0 + PhysicalPages /\ K2 = K1 + Span /\ K3 = K2 + Radix /\ U0 = K3 + Radix
           /\ PhysicalPages \in Nat /\ PhysicalPages >= Span /\ Span \in Nat /\ Span >= Radix
           /\ Radix \in Nat /\ Radix > 3 /\ Giga \in Nat /\ Giga >= 1 /\ Giga <= Radix
  BY TableWords, Constants

LEMMA KernelMapAt ==
    ASSUME LaidOut, NEW w \in Int
    PROVE  /\ K0 <= w /\ w < K1 => KernelMap[w] = Entry(w - K0, FALSE)
           /\ K1 <= w /\ w < K2 => KernelMap[w] = Entry(KPte + (w - K1), FALSE)
           /\ K2 <= w /\ w < K2 + Giga => KernelMap[w] = Entry(KPde + (w - K2), FALSE)
           /\ K2 + Giga <= w /\ w # K3 => KernelMap[w] = Empty
           /\ w = K3 => KernelMap[w] = Entry(KPdpe, FALSE)
  BY Words0 DEF KernelMap, Entry, Empty

KernelEnd == K3 + (Radix - 1)
LEMMA KernelBuilds ==
    ASSUME LaidOut
    PROVE  Builds(KernelStores, KernelMap, K0, KernelEnd)
  <1> DEFINE ptes == Loop(KPte, 0, PhysicalPages, LAMBDA i : Entry(i, FALSE))
             pdes == Loop(KPde, 0, Giga * Radix, LAMBDA j : Entry(KPte + j, FALSE))
             pdpes == Loop(KPdpe, 0, Giga, LAMBDA k : Entry(KPde + k, FALSE))
             rest == Clear(KPdpe, Giga, Radix)
             pml4e == Loop(KPml4, 0, 1, LAMBDA m : Entry(KPdpe + m, FALSE))
             last == Clear(KPml4, 1, Radix - 1)
  <1>1. PICK b0 \in Int, b1 \in Int, b2 \in Int, b3 \in Int, b4 \in Int, b5 \in Int, b6 \in Int :
           /\ b0 = K0 /\ b1 = K1 /\ b2 = K2 /\ b3 = K2 + Giga /\ b4 = K3
           /\ b5 = K3 + 1 /\ b6 = KernelEnd
    <2>1. /\ K0 \in Int /\ K1 \in Int /\ K2 \in Int /\ K2 + Giga \in Int /\ K3 \in Int
          /\ K3 + 1 \in Int /\ KernelEnd \in Int
      BY Words0 DEF KernelEnd
    <2> QED BY <2>1, Zenon
  <1>2. /\ b0 <= b1 /\ b1 <= b2 /\ b2 <= b3 /\ b3 <= b4 /\ b4 <= b5 /\ b5 <= b6
        /\ b0 <= b2 /\ b0 <= b3 /\ b0 <= b4 /\ b0 <= b5
    BY <1>1, Words0 DEF KernelEnd
  <1>3. Builds(ptes, KernelMap, b0, b1)
    <2> DEFINE v == [i \in Int |-> Entry(i, FALSE)]
    <2>1. ptes = Looped(K0, 0, PhysicalPages, v) BY TableWords, Constants DEF Loop, Looped
    <2>2. \A i \in Int : v[i] = Entry(i, FALSE) OBVIOUS
    <2> HIDE DEF ptes, v
    <2>3. PICK t \in Int, from \in Int, to \in Int : t = K0 /\ from = 0 /\ to = PhysicalPages BY Words0
    <2>4. b0 = t + from /\ b1 = t + to /\ from <= to BY <1>1, <2>3, Words0 DEF KernelEnd
    <2>5. ASSUME NEW i \in Int, from <= i /\ i < to PROVE KernelMap[t + i] = v[i]
      <3>1. PICK w \in Int : w = t + i OBVIOUS
      <3>2. w - K0 = i /\ K0 <= w /\ w < K1 BY <2>3, <2>5, <3>1, Words0, KernelPages
      <3>3. KernelMap[w] = Entry(i, FALSE) BY <3>2, KernelMapAt
      <3> QED BY <2>2, <3>1, <3>3
    <2>6. ptes = Looped(t, from, to, v) BY <2>1, <2>3
    <2> QED BY <2>4, <2>5, <2>6, LoopedBuilds
  <1>4. Builds(pdes, KernelMap, b1, b2)
    <2> DEFINE v == [i \in Int |-> Entry(KPte + i, FALSE)]
    <2>1. pdes = Looped(K1, 0, Span, v) BY TableWords, Constants DEF Loop, Span, Looped
    <2>2. \A i \in Int : v[i] = Entry(KPte + i, FALSE) OBVIOUS
    <2> HIDE DEF pdes, v
    <2>3. PICK t \in Int, from \in Int, to \in Int : t = K1 /\ from = 0 /\ to = Span BY Words0
    <2>4. b1 = t + from /\ b2 = t + to /\ from <= to BY <1>1, <2>3, Words0 DEF KernelEnd
    <2>5. ASSUME NEW i \in Int, from <= i /\ i < to PROVE KernelMap[t + i] = v[i]
      <3>1. PICK w \in Int : w = t + i OBVIOUS
      <3>2. w - K1 = i /\ K1 <= w /\ w < K2 BY <2>3, <2>5, <3>1, Words0, KernelPages
      <3>3. KernelMap[w] = Entry(KPte + i, FALSE) BY <3>2, KernelMapAt
      <3> QED BY <2>2, <3>1, <3>3
    <2>6. pdes = Looped(t, from, to, v) BY <2>1, <2>3
    <2> QED BY <2>4, <2>5, <2>6, LoopedBuilds
  <1>5. Builds(pdpes, KernelMap, b2, b3)
    <2> DEFINE v == [i \in Int |-> Entry(KPde + i, FALSE)]
    <2>1. pdpes = Looped(K2, 0, Giga, v) BY TableWords, Constants DEF Loop, Looped
    <2>2. \A i \in Int : v[i] = Entry(KPde + i, FALSE) OBVIOUS
    <2> HIDE DEF pdpes, v
    <2>3. PICK t \in Int, from \in Int, to \in Int : t = K2 /\ from = 0 /\ to = Giga BY Words0
    <2>4. b2 = t + from /\ b3 = t + to /\ from <= to BY <1>1, <2>3, Words0 DEF KernelEnd
    <2>5. ASSUME NEW i \in Int, from <= i /\ i < to PROVE KernelMap[t + i] = v[i]
      <3>1. PICK w \in Int : w = t + i OBVIOUS
      <3>2. w - K2 = i /\ K2 <= w /\ w < K2 + Giga BY <2>3, <2>5, <3>1, Words0, KernelPages
      <3>3. KernelMap[w] = Entry(KPde + i, FALSE) BY <3>2, KernelMapAt
      <3> QED BY <2>2, <3>1, <3>3
    <2>6. pdpes = Looped(t, from, to, v) BY <2>1, <2>3
    <2> QED BY <2>4, <2>5, <2>6, LoopedBuilds
  <1>6. Builds(rest, KernelMap, b3, b4)
    <2> DEFINE v == [i \in Int |-> Empty]
    <2>1. rest = Looped(K2, Giga, Radix, v) BY TableWords, Constants DEF Clear, Loop, Looped
    <2>2. \A i \in Int : v[i] = Empty OBVIOUS
    <2> HIDE DEF rest, v
    <2>3. PICK t \in Int, from \in Int, to \in Int : t = K2 /\ from = Giga /\ to = Radix BY Words0
    <2>4. b3 = t + from /\ b4 = t + to /\ from <= to BY <1>1, <2>3, Words0 DEF KernelEnd
    <2>5. ASSUME NEW i \in Int, from <= i /\ i < to PROVE KernelMap[t + i] = v[i]
      <3>1. PICK w \in Int : w = t + i OBVIOUS
      <3>2. w # K3 /\ K2 + Giga <= w BY <2>3, <2>5, <3>1, Words0, KernelPages
      <3>3. KernelMap[w] = Empty BY <3>2, KernelMapAt
      <3> QED BY <2>2, <3>1, <3>3
    <2>6. rest = Looped(t, from, to, v) BY <2>1, <2>3
    <2> QED BY <2>4, <2>5, <2>6, LoopedBuilds
  <1>7. Builds(pml4e, KernelMap, b4, b5)
    <2> DEFINE v == [i \in Int |-> Entry(KPdpe + i, FALSE)]
    <2>1. pml4e = Looped(K3, 0, 1, v) BY TableWords, Constants DEF Loop, Looped
    <2>2. \A i \in Int : v[i] = Entry(KPdpe + i, FALSE) OBVIOUS
    <2> HIDE DEF pml4e, v
    <2>3. PICK t \in Int, from \in Int, to \in Int : t = K3 /\ from = 0 /\ to = 1 BY Words0
    <2>4. b4 = t + from /\ b5 = t + to /\ from <= to BY <1>1, <2>3, Words0 DEF KernelEnd
    <2>5. ASSUME NEW i \in Int, from <= i /\ i < to PROVE KernelMap[t + i] = v[i]
      <3>1. PICK w \in Int : w = t + i OBVIOUS
      <3>2. w = K3 /\ KPdpe + i = KPdpe BY <2>3, <2>5, <3>1, Words0, KernelPages
      <3>3. KernelMap[w] = Entry(KPdpe + i, FALSE) BY <3>2, KernelMapAt
      <3> QED BY <2>2, <3>1, <3>3
    <2>6. pml4e = Looped(t, from, to, v) BY <2>1, <2>3
    <2> QED BY <2>4, <2>5, <2>6, LoopedBuilds
  <1>8. Builds(last, KernelMap, b5, b6)
    <2> DEFINE v == [i \in Int |-> Empty]
    <2>1. last = Looped(K3, 1, Radix - 1, v) BY TableWords, Constants DEF Clear, Loop, Looped
    <2>2. \A i \in Int : v[i] = Empty OBVIOUS
    <2> HIDE DEF last, v
    <2>3. PICK t \in Int, from \in Int, to \in Int : t = K3 /\ from = 1 /\ to = Radix - 1 BY Words0
    <2>4. b5 = t + from /\ b6 = t + to /\ from <= to BY <1>1, <2>3, Words0 DEF KernelEnd
    <2>5. ASSUME NEW i \in Int, from <= i /\ i < to PROVE KernelMap[t + i] = v[i]
      <3>1. PICK w \in Int : w = t + i OBVIOUS
      <3>2. w # K3 /\ K2 + Giga <= w BY <2>3, <2>5, <3>1, Words0, KernelPages
      <3>3. KernelMap[w] = Empty BY <3>2, KernelMapAt
      <3> QED BY <2>2, <3>1, <3>3
    <2>6. last = Looped(t, from, to, v) BY <2>1, <2>3
    <2> QED BY <2>4, <2>5, <2>6, LoopedBuilds
  <1>9. KernelStores = ptes \o pdes \o pdpes \o rest \o pml4e \o last
    BY DEF KernelStores, KPte, KPde, KPdpe, KPml4
  <1> HIDE DEF ptes, pdes, pdpes, rest, pml4e, last
  <1> DEFINE c2 == ptes \o pdes
             c3 == c2 \o pdpes
             c4 == c3 \o rest
             c5 == c4 \o pml4e
             c6 == c5 \o last
  <1>10. Builds(c2, KernelMap, b0, b2) BY <1>2, <1>3, <1>4, CatBuilds
  <1> HIDE DEF c2
  <1>11. Builds(c3, KernelMap, b0, b3) BY <1>2, <1>5, <1>10, CatBuilds
  <1> HIDE DEF c3
  <1>12. Builds(c4, KernelMap, b0, b4) BY <1>2, <1>6, <1>11, CatBuilds
  <1> HIDE DEF c4
  <1>13. Builds(c5, KernelMap, b0, b5) BY <1>2, <1>7, <1>12, CatBuilds
  <1> HIDE DEF c5
  <1>14. Builds(c6, KernelMap, b0, b6) BY <1>2, <1>8, <1>13, CatBuilds
  <1> QED BY <1>1, <1>9, <1>14 DEF c6, c5, c4, c3, c2

----------------------------------------------------------------------------
(* page_table_init_user: the directories first, which no program changes.  *)

U1 == U0 + Radix
U2 == U1 + Radix
U3 == U2 + Radix
U4 == U3 + Radix

UpperMap ==
    [w \in Int |->
        IF w < U1 + info.n.pdes THEN Entry(UserPte + (w - U1), TRUE)
        ELSE IF w = U3 - 1 THEN Entry(UserPde, TRUE)
        ELSE IF w = U3 THEN Entry(KPdpe, FALSE)
        ELSE IF w = U4 - 1 THEN Entry(UserPdpe, TRUE) ELSE Empty]

LEMMA UserTables ==
    ASSUME LaidOut
    PROVE  /\ UserPte * Radix = U0 /\ UserPde * Radix = U1
           /\ UserPdpe * Radix = U2 /\ UserPml4 * Radix = U3
           /\ KernelRoot * Radix = K3 /\ U4 <= PhysicalPages * Radix
  BY TableWords, KernelPages, Constants DEF U1, U2, U3, U4

LEMMA UserWords ==
    ASSUME LaidOut
    PROVE  /\ U0 \in Nat /\ U1 \in Nat /\ U2 \in Nat /\ U3 \in Nat /\ U4 \in Nat
           /\ U1 = U0 + Radix /\ U2 = U1 + Radix /\ U3 = U2 + Radix /\ U4 = U3 + Radix
           /\ Radix \in Nat /\ Radix > 3 /\ info.n.pdes \in Int
           /\ info.n.pdes >= 1 /\ info.n.pdes <= 2 /\ info.n.pdpes = 1 /\ info.n.pml4es = 1
           /\ info.n.ptes \in Nat /\ info.n.ptes >= 2 /\ info.n.ptes <= Radix + 1
           /\ info.app = 1 /\ UserPte \in Nat
  BY Words0, LayoutFacts, KernelPages DEF U1, U2, U3, U4

LEMMA UpperMapAt ==
    ASSUME LaidOut, NEW w \in Int, U1 <= w
    PROVE  /\ w < U1 + info.n.pdes => UpperMap[w] = Entry(UserPte + (w - U1), TRUE)
           /\ U1 + info.n.pdes <= w /\ w # U3 - 1 /\ w # U3 /\ w # U4 - 1 => UpperMap[w] = Empty
           /\ w = U3 - 1 => UpperMap[w] = Entry(UserPde, TRUE)
           /\ w = U3 => UpperMap[w] = Entry(KPdpe, FALSE)
           /\ w = U4 - 1 => UpperMap[w] = Entry(UserPdpe, TRUE)
  BY UserWords DEF UpperMap, Entry, Empty

LEMMA PdBuilds ==
    ASSUME LaidOut
    PROVE  Builds(PdStores, UpperMap, U1, U3)
  <1> DEFINE pdes == Loop(UserPde, 0, info.n.pdes, LAMBDA j : Entry(UserPte + j, TRUE))
             rest == Clear(UserPde, info.n.pdes, Radix)
             none == Clear(UserPdpe, 0, Radix - info.n.pdpes)
             pdpe == Loop(UserPdpe, Radix - 1, Radix, LAMBDA k : Entry(UserPde, TRUE))
  <1>1. PICK b0 \in Int, b1 \in Int, b2 \in Int, b3 \in Int, b4 \in Int :
           b0 = U1 /\ b1 = U1 + info.n.pdes /\ b2 = U2 /\ b3 = U3 - 1 /\ b4 = U3
    <2>1. U1 \in Int /\ U1 + info.n.pdes \in Int /\ U2 \in Int /\ U3 - 1 \in Int /\ U3 \in Int
      BY UserWords
    <2> QED BY <2>1, Zenon
  <1>2. b0 <= b1 /\ b1 <= b2 /\ b2 <= b3 /\ b3 <= b4 /\ b0 <= b2 /\ b0 <= b3
    BY <1>1, UserWords
  <1>3. Builds(pdes, UpperMap, b0, b1)
    <2> DEFINE v == [i \in Int |-> Entry(UserPte + i, TRUE)]
    <2>1. pdes = Looped(U1, 0, info.n.pdes, v)
      <3>1. pdes = Looped(UserPde * Radix, 0, info.n.pdes, v) BY UserWords DEF Loop, Looped
      <3> HIDE DEF pdes, v
      <3> QED BY <3>1, UserWords, UserTables
    <2>2. \A i \in Int : v[i] = Entry(UserPte + i, TRUE) OBVIOUS
    <2> HIDE DEF pdes, v
    <2>3. PICK t \in Int, from \in Int, to \in Int : t = U1 /\ from = 0 /\ to = info.n.pdes BY UserWords
    <2>4. b0 = t + from /\ b1 = t + to /\ from <= to BY <1>1, <2>3, UserWords
    <2>5. ASSUME NEW i \in Int, from <= i /\ i < to PROVE UpperMap[t + i] = v[i]
      <3>1. PICK w \in Int : w = t + i OBVIOUS
      <3>2. w - U1 = i /\ U1 <= w /\ w < U1 + info.n.pdes BY <2>3, <2>5, <3>1, UserWords
      <3>3. UpperMap[w] = Entry(UserPte + i, TRUE) BY <3>2, UpperMapAt
      <3> QED BY <2>2, <3>1, <3>3
    <2>6. pdes = Looped(t, from, to, v) BY <2>1, <2>3
    <2> QED BY <2>4, <2>5, <2>6, LoopedBuilds
  <1>4. Builds(rest, UpperMap, b1, b2)
    <2> DEFINE v == [i \in Int |-> Empty]
    <2>1. rest = Looped(U1, info.n.pdes, Radix, v)
      <3>1. rest = Looped(UserPde * Radix, info.n.pdes, Radix, v) BY UserWords DEF Clear, Loop, Looped
      <3> HIDE DEF rest, v
      <3> QED BY <3>1, UserWords, UserTables
    <2>2. \A i \in Int : v[i] = Empty OBVIOUS
    <2> HIDE DEF rest, v
    <2>3. PICK t \in Int, from \in Int, to \in Int : t = U1 /\ from = info.n.pdes /\ to = Radix BY UserWords
    <2>4. b1 = t + from /\ b2 = t + to /\ from <= to BY <1>1, <2>3, UserWords
    <2>5. ASSUME NEW i \in Int, from <= i /\ i < to PROVE UpperMap[t + i] = v[i]
      <3>1. PICK w \in Int : w = t + i OBVIOUS
      <3>2. U1 <= w /\ U1 + info.n.pdes <= w /\ w # U3 - 1 /\ w # U3 /\ w # U4 - 1 BY <2>3, <2>5, <3>1, UserWords
      <3>3. UpperMap[w] = Empty BY <3>2, UpperMapAt
      <3> QED BY <2>2, <3>1, <3>3
    <2>6. rest = Looped(t, from, to, v) BY <2>1, <2>3
    <2> QED BY <2>4, <2>5, <2>6, LoopedBuilds
  <1>5. Builds(none, UpperMap, b2, b3)
    <2> DEFINE v == [i \in Int |-> Empty]
    <2>1. none = Looped(U2, 0, Radix - 1, v)
      <3>1. none = Looped(UserPdpe * Radix, 0, Radix - info.n.pdpes, v) BY UserWords DEF Clear, Loop, Looped
      <3> HIDE DEF none, v
      <3> QED BY <3>1, UserWords, UserTables
    <2>2. \A i \in Int : v[i] = Empty OBVIOUS
    <2> HIDE DEF none, v
    <2>3. PICK t \in Int, from \in Int, to \in Int : t = U2 /\ from = 0 /\ to = Radix - 1 BY UserWords
    <2>4. b2 = t + from /\ b3 = t + to /\ from <= to BY <1>1, <2>3, UserWords
    <2>5. ASSUME NEW i \in Int, from <= i /\ i < to PROVE UpperMap[t + i] = v[i]
      <3>1. PICK w \in Int : w = t + i OBVIOUS
      <3>2. U1 <= w /\ U1 + info.n.pdes <= w /\ w # U3 - 1 /\ w # U3 /\ w # U4 - 1 BY <2>3, <2>5, <3>1, UserWords
      <3>3. UpperMap[w] = Empty BY <3>2, UpperMapAt
      <3> QED BY <2>2, <3>1, <3>3
    <2>6. none = Looped(t, from, to, v) BY <2>1, <2>3
    <2> QED BY <2>4, <2>5, <2>6, LoopedBuilds
  <1>6. Builds(pdpe, UpperMap, b3, b4)
    <2> DEFINE v == [i \in Int |-> Entry(UserPde, TRUE)]
    <2>1. pdpe = Looped(U2, Radix - 1, Radix, v)
      <3>1. PICK from \in Int : from = Radix - 1 BY UserWords
      <3>2. \A j \in 1..(Radix - from) : v[from + j - 1] = Entry(UserPde, TRUE)
        <4>1. \A i \in Int : v[i] = Entry(UserPde, TRUE) OBVIOUS
        <4> HIDE DEF v
        <4>2. \A j \in 1..(Radix - from) : from + j - 1 \in Int BY UserWords
        <4> QED BY <4>1, <4>2
      <3>3. pdpe = [j \in 1..(Radix - from) |-> <<UserPdpe * Radix + from + j - 1, Entry(UserPde, TRUE)>>]
        BY <3>1 DEF Loop
      <3> HIDE DEF pdpe, v
      <3>4. pdpe = Looped(UserPdpe * Radix, from, Radix, v) BY <3>2, <3>3 DEF Looped
      <3> QED BY <3>1, <3>4, UserWords, UserTables
    <2>2. \A i \in Int : v[i] = Entry(UserPde, TRUE) OBVIOUS
    <2> HIDE DEF pdpe, v
    <2>3. PICK t \in Int, from \in Int, to \in Int : t = U2 /\ from = Radix - 1 /\ to = Radix BY UserWords
    <2>4. b3 = t + from /\ b4 = t + to /\ from <= to BY <1>1, <2>3, UserWords
    <2>5. ASSUME NEW i \in Int, from <= i /\ i < to PROVE UpperMap[t + i] = v[i]
      <3>1. PICK w \in Int : w = t + i OBVIOUS
      <3>2. U1 <= w /\ w = U3 - 1 BY <2>3, <2>5, <3>1, UserWords
      <3>3. UpperMap[w] = Entry(UserPde, TRUE) BY <3>2, UpperMapAt
      <3> QED BY <2>2, <3>1, <3>3
    <2>6. pdpe = Looped(t, from, to, v) BY <2>1, <2>3
    <2> QED BY <2>4, <2>5, <2>6, LoopedBuilds
  <1>7. PdStores = pdes \o rest \o none \o pdpe BY DEF PdStores
  <1> HIDE DEF pdes, rest, none, pdpe
  <1> DEFINE c2 == pdes \o rest
             c3 == c2 \o none
             c4 == c3 \o pdpe
  <1>8. Builds(c2, UpperMap, b0, b2) BY <1>2, <1>3, <1>4, CatBuilds
  <1> HIDE DEF c2
  <1>9. Builds(c3, UpperMap, b0, b3) BY <1>2, <1>5, <1>8, CatBuilds
  <1> HIDE DEF c3
  <1>10. Builds(c4, UpperMap, b0, b4) BY <1>2, <1>6, <1>9, CatBuilds
  <1> QED BY <1>1, <1>7, <1>10 DEF c4, c3, c2

\* The first entry of the top table is copied from the kernel's.
LEMMA Pml4Builds ==
    ASSUME LaidOut, mem[K3] = Entry(KPdpe, FALSE)
    PROVE  Builds(Pml4Stores, UpperMap, U3, U4)
  <1> DEFINE copy == Loop(UserPml4, 0, 1, LAMBDA m : mem[KernelRoot * Radix])
             rest == Clear(UserPml4, 1, Radix - info.n.pml4es)
             own == Loop(UserPml4, Radix - 1, Radix, LAMBDA m : Entry(UserPdpe, TRUE))
  <1>1. PICK b0 \in Int, b1 \in Int, b2 \in Int, b3 \in Int :
           b0 = U3 /\ b1 = U3 + 1 /\ b2 = U4 - 1 /\ b3 = U4
    <2>1. U3 \in Int /\ U3 + 1 \in Int /\ U4 - 1 \in Int /\ U4 \in Int BY UserWords
    <2> QED BY <2>1, Zenon
  <1>2. b0 <= b1 /\ b1 <= b2 /\ b2 <= b3 /\ b0 <= b2 BY <1>1, UserWords
  <1>3. Builds(copy, UpperMap, b0, b1)
    <2> DEFINE v == [i \in Int |-> mem[KernelRoot * Radix]]
    <2>1. copy = Looped(U3, 0, 1, v)
      <3>1. copy = Looped(UserPml4 * Radix, 0, 1, v) BY UserWords DEF Loop, Looped
      <3> HIDE DEF copy, v
      <3> QED BY <3>1, UserWords, UserTables
    <2>2. \A i \in Int : v[i] = mem[KernelRoot * Radix] OBVIOUS
    <2> HIDE DEF copy, v
    <2>3. PICK t \in Int, from \in Int, to \in Int : t = U3 /\ from = 0 /\ to = 1 BY UserWords
    <2>4. b0 = t + from /\ b1 = t + to /\ from <= to BY <1>1, <2>3, UserWords
    <2>5. ASSUME NEW i \in Int, from <= i /\ i < to PROVE UpperMap[t + i] = v[i]
      <3>1. PICK w \in Int : w = t + i OBVIOUS
      <3>2. U1 <= w /\ w = U3 BY <2>3, <2>5, <3>1, UserWords
      <3>3. UpperMap[w] = mem[KernelRoot * Radix] BY <3>2, UpperMapAt, UserTables
      <3> QED BY <2>2, <3>1, <3>3
    <2>6. copy = Looped(t, from, to, v) BY <2>1, <2>3
    <2> QED BY <2>4, <2>5, <2>6, LoopedBuilds
  <1>4. Builds(rest, UpperMap, b1, b2)
    <2> DEFINE v == [i \in Int |-> Empty]
    <2>1. rest = Looped(U3, 1, Radix - 1, v)
      <3>1. rest = Looped(UserPml4 * Radix, 1, Radix - info.n.pml4es, v) BY UserWords DEF Clear, Loop, Looped
      <3> HIDE DEF rest, v
      <3> QED BY <3>1, UserWords, UserTables
    <2>2. \A i \in Int : v[i] = Empty OBVIOUS
    <2> HIDE DEF rest, v
    <2>3. PICK t \in Int, from \in Int, to \in Int : t = U3 /\ from = 1 /\ to = Radix - 1 BY UserWords
    <2>4. b1 = t + from /\ b2 = t + to /\ from <= to BY <1>1, <2>3, UserWords
    <2>5. ASSUME NEW i \in Int, from <= i /\ i < to PROVE UpperMap[t + i] = v[i]
      <3>1. PICK w \in Int : w = t + i OBVIOUS
      <3>2. U1 <= w /\ U1 + info.n.pdes <= w /\ w # U3 - 1 /\ w # U3 /\ w # U4 - 1 BY <2>3, <2>5, <3>1, UserWords
      <3>3. UpperMap[w] = Empty BY <3>2, UpperMapAt
      <3> QED BY <2>2, <3>1, <3>3
    <2>6. rest = Looped(t, from, to, v) BY <2>1, <2>3
    <2> QED BY <2>4, <2>5, <2>6, LoopedBuilds
  <1>5. Builds(own, UpperMap, b2, b3)
    <2> DEFINE v == [i \in Int |-> Entry(UserPdpe, TRUE)]
    <2>1. own = Looped(U3, Radix - 1, Radix, v)
      <3>1. PICK from \in Int : from = Radix - 1 BY UserWords
      <3>2. \A j \in 1..(Radix - from) : v[from + j - 1] = Entry(UserPdpe, TRUE)
        <4>1. \A i \in Int : v[i] = Entry(UserPdpe, TRUE) OBVIOUS
        <4> HIDE DEF v
        <4>2. \A j \in 1..(Radix - from) : from + j - 1 \in Int BY UserWords
        <4> QED BY <4>1, <4>2
      <3>3. own = [j \in 1..(Radix - from) |-> <<UserPml4 * Radix + from + j - 1, Entry(UserPdpe, TRUE)>>]
        BY <3>1 DEF Loop
      <3> HIDE DEF own, v
      <3>4. own = Looped(UserPml4 * Radix, from, Radix, v) BY <3>2, <3>3 DEF Looped
      <3> QED BY <3>1, <3>4, UserWords, UserTables
    <2>2. \A i \in Int : v[i] = Entry(UserPdpe, TRUE) OBVIOUS
    <2> HIDE DEF own, v
    <2>3. PICK t \in Int, from \in Int, to \in Int : t = U3 /\ from = Radix - 1 /\ to = Radix BY UserWords
    <2>4. b2 = t + from /\ b3 = t + to /\ from <= to BY <1>1, <2>3, UserWords
    <2>5. ASSUME NEW i \in Int, from <= i /\ i < to PROVE UpperMap[t + i] = v[i]
      <3>1. PICK w \in Int : w = t + i OBVIOUS
      <3>2. U1 <= w /\ w = U4 - 1 BY <2>3, <2>5, <3>1, UserWords
      <3>3. UpperMap[w] = Entry(UserPdpe, TRUE) BY <3>2, UpperMapAt
      <3> QED BY <2>2, <3>1, <3>3
    <2>6. own = Looped(t, from, to, v) BY <2>1, <2>3
    <2> QED BY <2>4, <2>5, <2>6, LoopedBuilds
  <1>6. Pml4Stores = copy \o rest \o own BY DEF Pml4Stores
  <1> HIDE DEF copy, rest, own
  <1> DEFINE c2 == copy \o rest
             c3 == c2 \o own
  <1>7. Builds(c2, UpperMap, b0, b2) BY <1>2, <1>3, <1>4, CatBuilds
  <1> HIDE DEF c2
  <1>8. Builds(c3, UpperMap, b0, b3) BY <1>2, <1>5, <1>7, CatBuilds
  <1> QED BY <1>1, <1>6, <1>8 DEF c3, c2

----------------------------------------------------------------------------
(* The last-level table, as five loops.                                    *)

StackValue == [i \in Int |-> Entry(info.userStack + i, TRUE)]
AppValue   == [i \in Int |-> Entry(info.app + (i - 1), TRUE)]
NoValue    == [i \in Int |-> Empty]
TlsValue   == [i \in Int |-> Entry(info.tls, TRUE)]
ExtraValue == [i \in Int |-> Entry(info.extra, TRUE)]

StackLoop == Looped(U0, 0, 1, StackValue)
AppLoop   == Looped(U0, 1, info.n.ptes, AppValue)
NoLoop    == Looped(U0, info.n.ptes, Radix, NoValue)
TlsLoop   == Looped(U0, Radix - 2, Radix - 1, TlsValue)
ExtraLoop(extra) == IF extra THEN Looped(U0, Radix - 1, Radix, ExtraValue) ELSE <<>>

LEMMA Values ==
    ASSUME NEW i \in Int
    PROVE  /\ StackValue[i] = Entry(info.userStack + i, TRUE)
           /\ AppValue[i] = Entry(info.app + (i - 1), TRUE)
           /\ NoValue[i] = Empty /\ TlsValue[i] = Entry(info.tls, TRUE)
           /\ ExtraValue[i] = Entry(info.extra, TRUE)
  BY DEF StackValue, AppValue, NoValue, TlsValue, ExtraValue

LEMMA PteRuns ==
    ASSUME LaidOut, NEW extra \in BOOLEAN
    PROVE  PteStores(extra) =
               StackLoop \o AppLoop \o NoLoop \o TlsLoop \o ExtraLoop(extra)
  <1> DEFINE L1 == Loop(UserPte, 0, StackPages, LAMBDA i : Entry(info.userStack + i, TRUE))
             L2 == Loop(UserPte, StackPages, info.n.ptes, LAMBDA i : Entry(AppPage(i), TRUE))
             L3 == Clear(UserPte, info.n.ptes, Radix)
             L4 == Loop(UserPte, Radix - 2, Radix - 1, LAMBDA i : Entry(info.tls, TRUE))
             L5 == Loop(UserPte, Radix - 1, Radix, LAMBDA i : Entry(info.extra, TRUE))
  <1>1. L1 = StackLoop
    <2>1. ASSUME NEW j \in 1..(1 - 0)
          PROVE  StackValue[0 + j - 1] = Entry(info.userStack + (0 + j - 1), TRUE)
      <3>1. PICK i \in Int : i = 0 + j - 1 OBVIOUS
      <3> QED BY <3>1, Values
    <2>2. L1 = [j \in 1..(1 - 0) |-> <<UserPte * Radix + 0 + j - 1,
                                       Entry(info.userStack + (0 + j - 1), TRUE)>>]
      BY DEF Loop, StackPages
    <2> HIDE DEF L1
    <2> QED BY <2>1, <2>2 DEF StackLoop, Looped, U0
  <1>2. L2 = AppLoop
    <2>1. PICK n \in Int : n = info.n.ptes BY UserWords
    <2>2. ASSUME NEW j \in 1..(n - 1) PROVE AppValue[1 + j - 1] = Entry(info.app + ((1 + j - 1) - 1), TRUE)
      <3>1. PICK i \in Int : i = 1 + j - 1 OBVIOUS
      <3> QED BY <3>1, Values
    <2>3. L2 = [j \in 1..(n - 1) |-> <<UserPte * Radix + 1 + j - 1,
                                       Entry(info.app + ((1 + j - 1) - 1), TRUE)>>]
      BY <2>1 DEF Loop, StackPages, AppPage
    <2> HIDE DEF L2
    <2> QED BY <2>1, <2>2, <2>3 DEF AppLoop, Looped, U0
  <1>3. L3 = NoLoop
    <2>1. PICK n \in Int, r \in Int : n = info.n.ptes /\ r = Radix BY UserWords
    <2>2. ASSUME NEW j \in 1..(r - n) PROVE NoValue[n + j - 1] = Empty
      <3>1. PICK i \in Int : i = n + j - 1 OBVIOUS
      <3> QED BY <3>1, Values
    <2>3. L3 = [j \in 1..(r - n) |-> <<UserPte * Radix + n + j - 1, Empty>>]
      BY <2>1 DEF Clear, Loop
    <2> HIDE DEF L3
    <2> QED BY <2>1, <2>2, <2>3 DEF NoLoop, Looped, U0
  <1>4. L4 = TlsLoop
    <2>1. PICK from \in Int, to \in Int : from = Radix - 2 /\ to = Radix - 1 BY UserWords
    <2>2. ASSUME NEW j \in 1..(to - from) PROVE TlsValue[from + j - 1] = Entry(info.tls, TRUE)
      <3>1. PICK i \in Int : i = from + j - 1 OBVIOUS
      <3> QED BY <3>1, Values
    <2>3. L4 = [j \in 1..(to - from) |-> <<UserPte * Radix + from + j - 1, Entry(info.tls, TRUE)>>]
      BY <2>1 DEF Loop
    <2> HIDE DEF L4
    <2> QED BY <2>1, <2>2, <2>3 DEF TlsLoop, Looped, U0
  <1>5. L5 = Looped(U0, Radix - 1, Radix, ExtraValue)
    <2>1. PICK from \in Int, to \in Int : from = Radix - 1 /\ to = Radix BY UserWords
    <2>2. ASSUME NEW j \in 1..(to - from) PROVE ExtraValue[from + j - 1] = Entry(info.extra, TRUE)
      <3>1. PICK i \in Int : i = from + j - 1 OBVIOUS
      <3> QED BY <3>1, Values
    <2>3. L5 = [j \in 1..(to - from) |-> <<UserPte * Radix + from + j - 1, Entry(info.extra, TRUE)>>]
      BY <2>1 DEF Loop
    <2> HIDE DEF L5
    <2> QED BY <2>1, <2>2, <2>3 DEF Looped, U0
  <1>6. PteStores(extra) = L1 \o L2 \o L3 \o L4 \o (IF extra THEN L5 ELSE <<>>)
    BY DEF PteStores
  <1> HIDE DEF L1, L2, L3, L4, L5
  <1> QED BY <1>1, <1>2, <1>3, <1>4, <1>5, <1>6 DEF ExtraLoop

----------------------------------------------------------------------------
(* Types: for a program of any size.                                       *)

UserGood ==
    {s \in Int \X EntryType :
        U0 <= s[1] /\ s[1] < U4 /\ (s[1] = U3 => s[2] = Entry(KPdpe, FALSE))}

LEMMA EntryIs ==
    ASSUME NEW p \in Int, -2 <= p, p < PhysicalPages, NEW b \in BOOLEAN
    PROVE  Entry(p, b) \in EntryType
  BY Constants DEF Entry, EntryType

LEMMA PageFacts ==
    ASSUME LaidOut
    PROVE  /\ info.userStack \in Nat /\ info.userStack < PhysicalPages
           /\ info.tls \in Nat /\ info.tls < PhysicalPages
           /\ info.extra \in Nat /\ info.extra < PhysicalPages
           /\ info.app = 1 /\ info.n.ptes \in Nat /\ info.n.ptes < PhysicalPages
           /\ KPdpe \in Nat /\ KPdpe < PhysicalPages
           /\ UserPte \in Nat /\ UserPte + 1 < PhysicalPages
           /\ UserPde \in Nat /\ UserPde < PhysicalPages
           /\ UserPdpe \in Nat /\ UserPdpe < PhysicalPages
           /\ UserPml4 \in Nat /\ UserPml4 < PhysicalPages /\ PhysicalPages \in Nat
  <1>1. /\ info.userStack \in Nat /\ info.userStack < PhysicalPages
        /\ info.tls \in Nat /\ info.tls < PhysicalPages
        /\ info.extra \in Nat /\ info.extra < PhysicalPages
        /\ info.app = 1 /\ info.n.ptes \in Nat /\ info.n.ptes < PhysicalPages
    BY LayoutFacts, KernelPages, Constants
  <1> QED BY <1>1, KernelPages, Constants

LEMMA LoopSeq ==
    ASSUME NEW t \in Int, NEW from \in Int, NEW to \in Int, NEW v, NEW S,
           \A i \in Int : from <= i /\ i < to => <<t + i, v[i]>> \in S,
           NEW p, p = Looped(t, from, to, v)
    PROVE  p \in Seq(S)
  <1>1. CASE from <= to
    <2>1. PICK n \in Nat : n = to - from BY <1>1
    <2>2. p = [j \in 1..n |-> <<t + from + j - 1, v[from + j - 1]>>] BY <2>1 DEF Looped
    <2>3. ASSUME NEW j \in 1..n PROVE <<t + from + j - 1, v[from + j - 1]>> \in S
      <3>1. PICK i \in Int : i = from + j - 1 BY <2>1
      <3>2. from <= i /\ i < to /\ t + from + j - 1 = t + i BY <2>1, <3>1
      <3> QED BY <3>1, <3>2
    <2>4. p = [j \in 1..n |-> p[j]] /\ \A j \in 1..n : p[j] \in S BY <2>2, <2>3
    <2> QED BY <2>4, ListIsSeq
  <1>2. CASE to < from
    <2>1. 1..(to - from) = {} BY <1>2
    <2>2. p = [j \in {} |-> <<t + from + j - 1, v[from + j - 1]>>] BY <2>1 DEF Looped
    <2>3. p = <<>> BY <2>2
    <2> QED BY <2>3
  <1> QED BY <1>1, <1>2

LEMMA PteTyped ==
    ASSUME LaidOut, NEW extra \in BOOLEAN
    PROVE  PteStores(extra) \in Seq(UserGood)
  <1>1. ASSUME NEW i \in Int, 0 <= i, i <= Radix, NEW x \in EntryType
        PROVE  <<U0 + i, x>> \in UserGood
    <2>1. PICK w \in Int : w = U0 + i BY UserWords
    <2>2. U0 <= w /\ w < U4 /\ w # U3 BY <1>1, <2>1, UserWords
    <2> QED BY <2>1, <2>2 DEF UserGood
  <1>2. PICK t \in Int, n \in Int, r \in Int, r1 \in Int, r2 \in Int :
            /\ t = U0 /\ n = info.n.ptes
            /\ r = Radix /\ r1 = Radix - 1 /\ r2 = Radix - 2
    <2>1. /\ U0 \in Int /\ info.n.ptes \in Int
          /\ Radix \in Int /\ Radix - 1 \in Int /\ Radix - 2 \in Int
      BY UserWords
    <2> QED BY <2>1, Zenon
  <1>3. StackLoop \in Seq(UserGood)
    <2>1. ASSUME NEW i \in Int, 0 <= i, i < 1 PROVE <<t + i, StackValue[i]>> \in UserGood
      <3>1. info.userStack + i \in Int /\ -2 <= info.userStack + i /\ info.userStack + i < PhysicalPages
        BY <2>1, PageFacts
      <3>2. StackValue[i] \in EntryType BY <3>1, EntryIs, Values
      <3> QED BY <1>1, <1>2, <2>1, <3>2, UserWords
    <2> QED BY <1>2, <2>1, LoopSeq DEF StackLoop
  <1>4. AppLoop \in Seq(UserGood)
    <2>1. ASSUME NEW i \in Int, 1 <= i, i < n PROVE <<t + i, AppValue[i]>> \in UserGood
      <3>1. info.app + (i - 1) \in Int /\ -2 <= info.app + (i - 1) /\ info.app + (i - 1) < PhysicalPages
        BY <1>2, <2>1, PageFacts
      <3>2. AppValue[i] \in EntryType BY <3>1, EntryIs, Values
      <3>3. 0 <= i /\ i <= Radix BY <1>2, <2>1, UserWords
      <3> QED BY <1>1, <1>2, <3>2, <3>3
    <2>2. AppLoop = Looped(t, 1, n, AppValue) BY <1>2 DEF AppLoop
    <2> QED BY <2>1, <2>2, LoopSeq
  <1>5. NoLoop \in Seq(UserGood)
    <2>1. ASSUME NEW i \in Int, n <= i, i < r PROVE <<t + i, NoValue[i]>> \in UserGood
      <3>1. NoValue[i] \in EntryType
        <4>1. -1 \in Int /\ -2 <= -1 /\ -1 < PhysicalPages BY PageFacts
        <4>2. Entry(-1, FALSE) \in EntryType BY <4>1, EntryIs
        <4> QED BY <4>2, Values DEF Empty
      <3>2. 0 <= i /\ i <= Radix BY <1>2, <2>1, UserWords
      <3> QED BY <1>1, <1>2, <3>1, <3>2
    <2>2. NoLoop = Looped(t, n, r, NoValue) BY <1>2 DEF NoLoop
    <2> QED BY <2>1, <2>2, LoopSeq
  <1>6. TlsLoop \in Seq(UserGood)
    <2>1. ASSUME NEW i \in Int, r2 <= i, i < r1 PROVE <<t + i, TlsValue[i]>> \in UserGood
      <3>1. TlsValue[i] \in EntryType
        <4>1. info.tls \in Int /\ -2 <= info.tls /\ info.tls < PhysicalPages BY PageFacts
        <4> QED BY <4>1, EntryIs, Values
      <3>2. 0 <= i /\ i <= Radix BY <1>2, <2>1, UserWords
      <3> QED BY <1>1, <1>2, <3>1, <3>2
    <2> QED BY <1>2, <2>1, LoopSeq DEF TlsLoop
  <1>7. ExtraLoop(extra) \in Seq(UserGood)
    <2>1. ASSUME NEW i \in Int, r1 <= i, i < r PROVE <<t + i, ExtraValue[i]>> \in UserGood
      <3>1. ExtraValue[i] \in EntryType
        <4>1. info.extra \in Int /\ -2 <= info.extra /\ info.extra < PhysicalPages BY PageFacts
        <4> QED BY <4>1, EntryIs, Values
      <3>2. 0 <= i /\ i <= Radix BY <1>2, <2>1, UserWords
      <3> QED BY <1>1, <1>2, <3>1, <3>2
    <2>2. Looped(t, r1, r, ExtraValue) \in Seq(UserGood)
      BY <2>1, LoopSeq
    <2> QED BY <1>2, <2>2 DEF ExtraLoop
  <1> HIDE DEF StackLoop, AppLoop, NoLoop, TlsLoop, ExtraLoop
  <1>8. StackLoop \o AppLoop \in Seq(UserGood) BY <1>3, <1>4, CatSeq
  <1>9. (StackLoop \o AppLoop) \o NoLoop \in Seq(UserGood) BY <1>5, <1>8, CatSeq
  <1>10. (StackLoop \o AppLoop \o NoLoop) \o TlsLoop \in Seq(UserGood) BY <1>6, <1>9, CatSeq
  <1>11. (StackLoop \o AppLoop \o NoLoop \o TlsLoop) \o ExtraLoop(extra) \in Seq(UserGood)
    BY <1>7, <1>10, CatSeq
  <1> QED BY <1>11, PteRuns

LEMMA UpperGood ==
    ASSUME LaidOut
    PROVE  Good(UpperMap, U1, U3) \subseteq UserGood /\ Good(UpperMap, U3, U4) \subseteq UserGood
  <1>1. ASSUME NEW w \in Int, U1 <= w, w < U4 PROVE <<w, UpperMap[w]>> \in UserGood
    <2>1. CASE w < U1 + info.n.pdes
      <3>1. PICK p \in Int : p = UserPte + (w - U1) BY UserWords
      <3>2. -2 <= p /\ p < PhysicalPages BY <1>1, <2>1, <3>1, UserWords, PageFacts
      <3>3. UpperMap[w] \in EntryType BY <1>1, <2>1, <3>1, <3>2, EntryIs, UpperMapAt
      <3>4. U0 <= w /\ w # U3 BY <1>1, <2>1, UserWords
      <3> QED BY <1>1, <3>3, <3>4 DEF UserGood
    <2>2. CASE w = U3
      <3>1. KPdpe \in Int /\ -2 <= KPdpe /\ KPdpe < PhysicalPages BY PageFacts
      <3>2. Entry(KPdpe, FALSE) \in EntryType BY <3>1, EntryIs
      <3>3. UpperMap[w] = Entry(KPdpe, FALSE) BY <1>1, <2>2, UpperMapAt
      <3>4. U0 <= w BY <1>1, UserWords
      <3> QED BY <1>1, <3>2, <3>3, <3>4 DEF UserGood
    <2>3. CASE w = U3 - 1
      <3>1. UserPde \in Int /\ -2 <= UserPde /\ UserPde < PhysicalPages BY PageFacts
      <3>2. UpperMap[w] \in EntryType BY <1>1, <2>3, <3>1, EntryIs, UpperMapAt
      <3>3. U0 <= w /\ w # U3 BY <1>1, <2>3, UserWords
      <3> QED BY <1>1, <3>2, <3>3 DEF UserGood
    <2>4. CASE w = U4 - 1
      <3>1. UserPdpe \in Int /\ -2 <= UserPdpe /\ UserPdpe < PhysicalPages BY PageFacts
      <3>2. UpperMap[w] \in EntryType BY <1>1, <2>4, <3>1, EntryIs, UpperMapAt
      <3>3. U0 <= w /\ w # U3 BY <1>1, <2>4, UserWords
      <3> QED BY <1>1, <3>2, <3>3 DEF UserGood
    <2>5. CASE U1 + info.n.pdes <= w /\ w # U3 - 1 /\ w # U3 /\ w # U4 - 1
      <3>1. -1 \in Int /\ -2 <= -1 /\ -1 < PhysicalPages BY PageFacts
      <3>2. Empty \in EntryType BY <3>1, EntryIs DEF Empty
      <3>3. UpperMap[w] = Empty BY <1>1, <2>5, UpperMapAt
      <3>4. U0 <= w BY <1>1, UserWords
      <3> QED BY <1>1, <2>5, <3>2, <3>3, <3>4 DEF UserGood
    <2> QED BY <2>1, <2>2, <2>3, <2>4, <2>5, UserWords
  <1>2. ASSUME NEW w \in Int, U1 <= w, w < U3 PROVE w < U4 BY <1>2, UserWords
  <1>3. ASSUME NEW w \in Int, U3 <= w, w < U4 PROVE U1 <= w BY <1>3, UserWords
  <1> QED BY <1>1, <1>2, <1>3 DEF Good

\* Every store of the builder is a good one, and the last one to the first
\* entry of the top table is the kernel's.
LEMMA UserTyped ==
    ASSUME LaidOut, mem[K3] = Entry(KPdpe, FALSE), NEW extra \in BOOLEAN
    PROVE  /\ UserStores(extra) \in Seq(UserGood)
           /\ Leaves(UserStores(extra), U3, Entry(KPdpe, FALSE))
  <1>1. PteStores(extra) \in Seq(UserGood) BY PteTyped
  <1>2. PdStores \in Seq(UserGood) BY PdBuilds, UpperGood, WiderSeq DEF Builds
  <1>3. Pml4Stores \in Seq(UserGood) BY Pml4Builds, UpperGood, WiderSeq DEF Builds
  <1>4. PICK c : c = PteStores(extra) \o PdStores OBVIOUS
  <1>5. c \in Seq(UserGood) BY <1>1, <1>2, <1>4, CatSeq
  <1>6. PICK d : d = c \o Pml4Stores OBVIOUS
  <1>7. d \in Seq(UserGood) BY <1>3, <1>5, <1>6, CatSeq
  <1>8. Leaves(Pml4Stores, U3, UpperMap[U3])
    <2>1. U3 \in Int /\ U3 <= U3 /\ U3 < U4 BY UserWords
    <2> QED BY <2>1, Pml4Builds DEF Builds, Fills
  <1>9. UpperMap[U3] = Entry(KPdpe, FALSE)
    <2>1. PICK w \in Int : w = U3 BY UserWords
    <2>2. U1 <= w BY <2>1, UserWords
    <2> QED BY <2>1, <2>2, UpperMapAt
  <1>10. Leaves(d, U3, Entry(KPdpe, FALSE)) BY <1>3, <1>5, <1>6, <1>8, <1>9, CatLeaves
  <1> QED BY <1>4, <1>6, <1>7, <1>10 DEF UserStores

----------------------------------------------------------------------------
(* One store.                                                              *)

LEMMA StoreStep ==
    ASSUME NEW S, todo \in Seq(S), todo # <<>>, NEW s, s = Head(todo),
           NEW w, w = s[1], s = <<s[1], s[2]>>, w \in DOMAIN mem,
           mem' = [mem EXCEPT ![Head(todo)[1]] = Head(todo)[2]], todo' = Tail(todo)
    PROVE  /\ todo' \in Seq(S) /\ s \in S
           /\ mem'[w] = s[2] /\ \A u \in DOMAIN mem : u # w => mem'[u] = mem[u]
           /\ \A u \in DOMAIN mem : \A x : Due(u, x) => Due(u, x)'
  <1>1. PICK n \in Nat : n = Len(todo) OBVIOUS
  <1>2. /\ n >= 1 /\ s = todo[1] /\ s \in S /\ todo' \in Seq(S) /\ Len(todo') = n - 1
        /\ \A j \in 1..(n - 1) : todo'[j] = todo[j + 1]
    BY <1>1
  <1>3. mem'[w] = s[2] /\ \A u \in DOMAIN mem : u # w => mem'[u] = mem[u] OBVIOUS
  <1>4. ASSUME NEW j \in 2..n PROVE \E i \in 1..(n - 1) : j = i + 1 /\ todo'[i] = todo[j]
    <2>1. j - 1 \in 1..(n - 1) /\ j = (j - 1) + 1 BY <1>1
    <2> QED BY <1>2, <2>1
  <1>5. ASSUME NEW u \in DOMAIN mem, NEW x, Due(u, x) PROVE Due(u, x)'
    <2>1. CASE Leaves(todo, u, x)
      <3>1. PICK j \in 1..n : todo[j] = <<u, x>> /\ \A k \in (j + 1)..n : todo[k][1] # u
        BY <1>1, <2>1 DEF Leaves
      <3>2. CASE j = 1
        <4>1. w = u /\ mem'[u] = x BY <1>2, <1>3, <3>1, <3>2
        <4>2. ASSUME Touches(todo', u) PROVE FALSE
          <5>1. PICK i \in 1..(n - 1) : todo'[i][1] = u BY <1>2, <4>2 DEF Touches
          <5>2. i + 1 \in (j + 1)..n /\ todo'[i] = todo[i + 1] BY <1>1, <1>2, <3>2
          <5> QED BY <3>1, <5>1, <5>2
        <4> QED BY <4>1, <4>2 DEF Due, Touches
      <3>3. CASE j # 1
        <4>1. PICK i \in 1..(n - 1) : j = i + 1 /\ todo'[i] = todo[j]
          <5>1. j \in 2..n BY <3>3
          <5> QED BY <1>4, <5>1
        <4>2. ASSUME NEW k \in (i + 1)..(n - 1) PROVE todo'[k][1] # u
          <5>1. k + 1 \in (j + 1)..n /\ todo'[k] = todo[k + 1] BY <1>1, <1>2, <4>1
          <5> QED BY <3>1, <5>1
        <4>3. Leaves(todo', u, x) BY <1>2, <3>1, <4>1, <4>2 DEF Leaves
        <4> QED BY <4>3 DEF Due, Leaves
      <3> QED BY <3>2, <3>3
    <2>2. CASE ~Touches(todo, u) /\ mem[u] = x
      <3>1. \A j \in 1..n : todo[j][1] # u BY <1>1, <2>2 DEF Touches
      <3>2. mem'[u] = x
        <4>1. w # u BY <1>1, <1>2, <3>1
        <4> QED BY <1>3, <2>2, <4>1
      <3>3. ASSUME Touches(todo', u) PROVE FALSE
        <4>1. PICK i \in 1..(n - 1) : todo'[i][1] = u BY <1>2, <3>3 DEF Touches
        <4>2. i + 1 \in 1..n /\ todo'[i] = todo[i + 1] BY <1>1, <1>2
        <4> QED BY <3>1, <4>1, <4>2
      <3> QED BY <3>2, <3>3 DEF Due, Touches
    <2> QED BY <1>5, <2>1, <2>2 DEF Due
  <1> QED BY <1>2, <1>3, <1>5

----------------------------------------------------------------------------
(* The inductive invariant, for programs of any size.                      *)

TodoInv ==
    /\ pc = "kernel" => todo \in Seq(Good(KernelMap, K0, KernelEnd))
    /\ pc = "user" => todo \in Seq(UserGood)
    /\ pc \in {"start", "ring3"} => todo = <<>>

Cr3Inv ==
    /\ cr3 \in {-1, UserPml4}
    /\ pc \in {"start", "kernel"} => cr3 = -1
    /\ pc = "ring3" => cr3 = UserPml4

\* The kernel's tables are built, or the stores that build them are to come.
KernelInv ==
    pc # "start" =>
        \A w \in Words : K0 <= w /\ w < KernelEnd => Due(w, KernelMap[w])

\* The first entry of the top table is the kernel's, from the moment the
\* table is in use.
RootInv ==
    /\ pc \in {"user", "ring3"} => Due(U3, Entry(KPdpe, FALSE))
    /\ cr3 # -1 => mem[U3] = Entry(KPdpe, FALSE)

TableInv ==
    /\ LaidOut
    /\ mem \in [Words -> EntryType]
    /\ pc \in {"start", "kernel", "user", "ring3"}
    /\ redef \in BOOLEAN
    /\ faults \in 0..MaxFaults
    /\ TodoInv
    /\ Cr3Inv
    /\ KernelInv
    /\ RootInv

LEMMA InWords ==
    ASSUME LaidOut, NEW w \in Int, K0 <= w, w < U4
    PROVE  w \in Words
  <1>1. PICK n \in Int : n = PhysicalPages * Radix BY TableWords
  <1>2. U4 <= n BY <1>1, UserTables
  <1>3. K0 \in Nat /\ U4 \in Nat BY Words0, UserWords
  <1>4. 0 <= w /\ w < n BY <1>2, <1>3
  <1> QED BY <1>1, <1>4 DEF Words

LEMMA Apart ==
    ASSUME LaidOut
    PROVE  /\ K0 \in Int /\ U3 \in Int /\ K3 \in Int /\ U0 \in Int /\ U4 \in Int
           /\ KernelEnd \in Int /\ KernelEnd <= U0 /\ KernelEnd <= U4 /\ K0 <= U0
           /\ K0 <= U3 /\ U0 <= U3 /\ U3 < U4 /\ K0 <= K3 /\ K3 < KernelEnd
           /\ K0 \in Words /\ U3 \in Words /\ K3 \in Words
  <1>1. /\ K0 \in Int /\ U3 \in Int /\ K3 \in Int /\ U0 \in Int /\ U4 \in Int
        /\ KernelEnd \in Int /\ KernelEnd <= U0 /\ KernelEnd <= U4 /\ K0 <= U0
        /\ K0 <= U3 /\ U0 <= U3 /\ U3 < U4 /\ K0 <= K3 /\ K3 < KernelEnd
        /\ K0 < U4 /\ K3 < U4
    BY Words0, UserWords DEF KernelEnd
  <1>2. K0 \in Words /\ U3 \in Words /\ K3 \in Words BY <1>1, InWords
  <1> QED BY <1>1, <1>2

LEMMA KernelTypes ==
    ASSUME LaidOut, NEW w \in Int, K0 <= w
    PROVE  KernelMap[w] \in EntryType
  <1>1. CASE w < K1
    <2>1. PICK p \in Int : p = w - K0 BY Words0
    <2>2. -2 <= p /\ p < PhysicalPages BY <1>1, <2>1, Words0
    <2> QED BY <1>1, <2>1, <2>2, EntryIs, KernelMapAt
  <1>2. CASE K1 <= w /\ w < K2
    <2>1. PICK p \in Int : p = KPte + (w - K1) BY Words0, KernelPages
    <2>2. -2 <= p /\ p < PhysicalPages BY <1>2, <2>1, Words0, KernelPages
    <2> QED BY <1>2, <2>1, <2>2, EntryIs, KernelMapAt
  <1>3. CASE K2 <= w /\ w < K2 + Giga
    <2>1. PICK p \in Int : p = KPde + (w - K2) BY Words0, KernelPages
    <2>2. -2 <= p /\ p < PhysicalPages BY <1>3, <2>1, Words0, KernelPages
    <2> QED BY <1>3, <2>1, <2>2, EntryIs, KernelMapAt
  <1>4. CASE w = K3
    <2>1. KPdpe \in Int /\ -2 <= KPdpe BY PageFacts
    <2>2. Entry(KPdpe, FALSE) \in EntryType BY <2>1, PageFacts, EntryIs
    <2> QED BY <1>4, <2>2, KernelMapAt
  <1>5. CASE K2 + Giga <= w /\ w # K3
    <2>1. -1 \in Int /\ -2 <= -1 /\ -1 < PhysicalPages BY PageFacts
    <2>2. Empty \in EntryType BY <2>1, EntryIs DEF Empty
    <2> QED BY <1>5, <2>2, KernelMapAt
  <1> QED BY <1>1, <1>2, <1>3, <1>4, <1>5, Words0

\* What the buffers fix does not change with the stores.
LEMMA SameInfo ==
    ASSUME info' = info
    PROVE  /\ LaidOut' = LaidOut /\ K0' = K0 /\ K3' = K3 /\ KernelEnd' = KernelEnd
           /\ U0' = U0 /\ U3' = U3 /\ U4' = U4
           /\ KPdpe' = KPdpe /\ UserPml4' = UserPml4
           /\ KernelMap' = KernelMap /\ UserGood' = UserGood
  <1>1. /\ KPte' = KPte /\ KPde' = KPde /\ KPdpe' = KPdpe /\ UserPte' = UserPte
        /\ UserPml4' = UserPml4
    BY DEF KPte, KPde, KPdpe, UserPte, UserPde, UserPdpe, UserPml4
  <1>2. K0' = K0 /\ K1' = K1 /\ K2' = K2 /\ K3' = K3 BY <1>1 DEF K0, K1, K2, K3
  <1>3. U0' = U0 /\ U3' = U3 /\ U4' = U4 BY <1>1 DEF U0, U1, U2, U3, U4
  <1>4. KernelMap' = KernelMap BY <1>1, <1>2 DEF KernelMap
  <1>5. UserGood' = UserGood BY <1>1, <1>3 DEF UserGood
  <1> QED BY <1>1, <1>2, <1>3, <1>4, <1>5 DEF LaidOut, KernelEnd

LEMMA TableInit == Init => TableInv
  <1> SUFFICES ASSUME Init PROVE TableInv OBVIOUS
  <1>1. PICK binary \in BinaryPages :
            /\ info = Layout(binary)
            /\ mem = [w \in 0..(PhysicalPages * Radix - 1) |-> Junk]
            /\ cr3 = -1 /\ pc = "start" /\ todo = <<>> /\ redef = FALSE
            /\ faults = 0
    BY DEF Init
  <1>2. Junk \in EntryType
    <2>1. -2 \in Int /\ -2 <= -2 /\ -2 < PhysicalPages BY Constants
    <2> QED BY <2>1, EntryIs DEF Junk
  <1>3. LaidOut BY <1>1 DEF LaidOut
  <1>4. mem \in [Words -> EntryType] BY <1>1, <1>2 DEF Words
  <1>5. faults \in 0..MaxFaults BY <1>1, Constants
  <1> QED BY <1>1, <1>3, <1>4, <1>5 DEF TableInv, TodoInv, Cr3Inv, KernelInv, RootInv

LEMMA TableStore ==
    ASSUME TableInv, Store
    PROVE  TableInv'
  <1> USE DEF TableInv
  <1>1. /\ info' = info /\ pc' = pc /\ cr3' = cr3 /\ redef' = redef /\ faults' = faults
        /\ todo # <<>> /\ pc \in {"kernel", "user"}
        /\ mem' = [mem EXCEPT ![Head(todo)[1]] = Head(todo)[2]] /\ todo' = Tail(todo)
    BY DEF Store
  <1>2. PICK S, s : /\ S = (IF pc = "kernel" THEN Good(KernelMap, K0, KernelEnd) ELSE UserGood)
                    /\ s = Head(todo)
    OBVIOUS
  <1>3. todo \in Seq(S) /\ s \in S
    <2>1. todo \in Seq(S) BY <1>1, <1>2 DEF TodoInv
    <2> QED BY <1>1, <1>2, <2>1
  <1>4. /\ s = <<s[1], s[2]>> /\ s[1] \in Words /\ s[2] \in EntryType
        /\ K0 <= s[1]
        /\ pc = "kernel" => s[1] < KernelEnd
        /\ pc = "user" => U0 <= s[1] /\ (s[1] = U3 => s[2] = Entry(KPdpe, FALSE))
    <2>1. CASE pc = "kernel"
      <3>1. PICK w \in Int : K0 <= w /\ w < KernelEnd /\ s = <<w, KernelMap[w]>>
        BY <1>2, <1>3, <2>1 DEF Good
      <3>2. w < U4 BY <3>1, Apart
      <3> QED BY <2>1, <3>1, <3>2, InWords, KernelTypes
    <2>2. CASE pc = "user"
      <3>1. /\ s \in Int \X EntryType /\ U0 <= s[1] /\ s[1] < U4
            /\ (s[1] = U3 => s[2] = Entry(KPdpe, FALSE))
        BY <1>2, <1>3, <2>2 DEF UserGood
      <3>2. PICK w \in Int : w = s[1] BY <3>1
      <3>3. K0 <= w BY <3>1, <3>2, Apart
      <3>4. w \in Words BY <3>1, <3>2, <3>3, InWords
      <3>5. s = <<s[1], s[2]>> /\ s[2] \in EntryType BY <3>1
      <3> QED BY <2>2, <3>1, <3>2, <3>3, <3>4, <3>5
    <2> QED BY <1>1, <2>1, <2>2
  <1>5. PICK w : w = s[1] OBVIOUS
  <1>6. /\ todo' \in Seq(S) /\ mem'[w] = s[2]
        /\ \A u \in Words : u # w => mem'[u] = mem[u]
        /\ \A u \in Words : \A x : Due(u, x) => Due(u, x)'
    <2>1. DOMAIN mem = Words OBVIOUS
    <2> QED BY <1>1, <1>2, <1>3, <1>4, <1>5, <2>1, StoreStep
  <1>7. mem' \in [Words -> EntryType] BY <1>1, <1>2, <1>4
  <1>8. TodoInv'
    BY <1>1, <1>2, <1>6, SameInfo DEF TodoInv, Good
  <1>9. Cr3Inv' BY <1>1, SameInfo DEF Cr3Inv
  <1>10. KernelInv'
    <2>1. ASSUME NEW u \in Words, K0 <= u, u < KernelEnd PROVE Due(u, KernelMap[u])'
      <3>1. Due(u, KernelMap[u]) BY <1>1, <2>1 DEF KernelInv
      <3>2. PICK x : x = KernelMap[u] OBVIOUS
      <3>3. Due(u, x)' BY <1>6, <3>1, <3>2
      <3> QED BY <1>1, <3>2, <3>3, SameInfo DEF Due
    <2> QED BY <1>1, <2>1, SameInfo DEF KernelInv, Words
  <1>11. RootInv'
    <2>1. ASSUME pc = "user" PROVE Due(U3, Entry(KPdpe, FALSE))'
      <3>1. Due(U3, Entry(KPdpe, FALSE)) BY <2>1 DEF RootInv
      <3>2. PICK u \in Words : u = U3 BY Apart
      <3>3. PICK x : x = Entry(KPdpe, FALSE) OBVIOUS
      <3>4. Due(u, x)' BY <1>6, <3>1, <3>2, <3>3
      <3> QED BY <1>1, <3>2, <3>3, <3>4, SameInfo DEF Due, Entry
    <2>2. ASSUME cr3 # -1 PROVE mem'[U3] = Entry(KPdpe, FALSE)
      <3>1. pc = "user" BY <1>1, <2>2 DEF Cr3Inv
      <3>2. mem[U3] = Entry(KPdpe, FALSE) BY <2>2 DEF RootInv
      <3>3. CASE w = U3 BY <1>4, <1>5, <1>6, <3>1, <3>3
      <3>4. CASE w # U3 BY <1>6, <3>2, <3>4, Apart
      <3> QED BY <3>3, <3>4
    <2> QED BY <1>1, <2>1, <2>2, SameInfo DEF RootInv, Entry
  <1> QED BY <1>1, <1>7, <1>8, <1>9, <1>10, <1>11, SameInfo DEF Words, EntryType

LEMMA NothingPending ==
    ASSUME todo = <<>>, NEW w, NEW x, Due(w, x)
    PROVE  mem[w] = x
  BY DEF Due, Leaves


\* The builder of the user tables starts with the kernel's tables in place.
LEMMA UserStart ==
    ASSUME TableInv, NEW extra \in BOOLEAN, todo = <<>>, pc # "start",
           PageTableInitUser(extra), faults' \in 0..MaxFaults
    PROVE  TableInv'
  <1> USE DEF TableInv
  <1>1. /\ info' = info /\ pc' = "user" /\ cr3' = cr3 /\ redef' = extra /\ mem' = mem
        /\ todo' = UserStores(extra)
    BY DEF PageTableInitUser
  <1>2. \A w \in Words : K0 <= w /\ w < KernelEnd => mem[w] = KernelMap[w]
    BY NothingPending DEF KernelInv
  <1>3. mem[K3] = Entry(KPdpe, FALSE)
    <2>1. mem[K3] = KernelMap[K3] BY <1>2, Apart
    <2> QED BY <2>1, Apart, KernelMapAt
  <1>4. /\ UserStores(extra) \in Seq(UserGood)
        /\ Leaves(UserStores(extra), U3, Entry(KPdpe, FALSE))
    BY <1>3, UserTyped
  <1>5. TodoInv' BY <1>1, <1>4, SameInfo DEF TodoInv
  <1>6. Cr3Inv' BY <1>1, SameInfo DEF Cr3Inv
  <1>7. KernelInv'
    <2>1. ASSUME NEW w \in Words, K0 <= w, w < KernelEnd PROVE Due(w, KernelMap[w])'
      <3>1. PICK s : s = UserStores(extra) OBVIOUS
      <3>2. \A j \in 1..Len(s) : s[j] \in UserGood BY <1>4, <3>1
      <3>3. \A j \in 1..Len(s) : s[j][1] \in Int /\ U0 <= s[j][1] BY <3>2 DEF UserGood
      <3>4. w \in Int /\ w < U0
        <4>1. w \in Int BY DEF Words
        <4> QED BY <2>1, <4>1, Apart
      <3>5. ~Touches(s, w) BY <3>3, <3>4, Apart DEF Touches
      <3>6. mem[w] = KernelMap[w] BY <1>2, <2>1
      <3> QED BY <1>1, <3>1, <3>5, <3>6, SameInfo DEF Due
    <2> QED BY <1>1, <2>1, SameInfo DEF KernelInv, Words
  <1>8. RootInv'
    <2>1. Due(U3, Entry(KPdpe, FALSE))' BY <1>1, <1>4, SameInfo DEF Due, Entry
    <2>2. cr3 # -1 => mem[U3] = Entry(KPdpe, FALSE) BY DEF RootInv
    <2> QED BY <1>1, <2>1, <2>2, SameInfo DEF RootInv, Entry
  <1> QED BY <1>1, <1>5, <1>6, <1>7, <1>8, SameInfo DEF Words, EntryType

LEMMA TableNext == TableInv /\ [Next]_vars => TableInv'
  <1> SUFFICES ASSUME TableInv, [Next]_vars PROVE TableInv' OBVIOUS
  <1>1. CASE Store BY <1>1, TableStore
  <1>2. CASE PageTableInitKernel
    <2>1. /\ info' = info /\ pc = "start" /\ pc' = "kernel" /\ cr3' = cr3 /\ redef' = redef
          /\ mem' = mem /\ faults' = faults /\ todo' = KernelStores
      BY <1>2 DEF PageTableInitKernel
    <2>2. LaidOut BY DEF TableInv
    <2>3. /\ KernelStores \in Seq(Good(KernelMap, K0, KernelEnd))
          /\ \A w \in Int : K0 <= w /\ w < KernelEnd => Leaves(KernelStores, w, KernelMap[w])
      BY <2>2, KernelBuilds DEF Builds, Fills
    <2>4. TodoInv' BY <2>1, <2>3, SameInfo DEF TodoInv, Good
    <2>5. Cr3Inv' BY <2>1, SameInfo DEF Cr3Inv, TableInv
    <2>6. KernelInv'
      <3>1. ASSUME NEW w \in Words, K0 <= w, w < KernelEnd PROVE Due(w, KernelMap[w])'
        <4>1. w \in Int BY DEF Words
        <4>2. Leaves(KernelStores, w, KernelMap[w]) BY <2>3, <3>1, <4>1
        <4> QED BY <2>1, <4>2, SameInfo DEF Due
      <3> QED BY <2>1, <3>1, SameInfo DEF KernelInv, Words
    <2>7. RootInv' BY <2>1 DEF RootInv, TableInv, Cr3Inv
    <2> QED BY <2>1, <2>4, <2>5, <2>6, <2>7, SameInfo DEF TableInv, Words, EntryType
  <1>3. CASE FirstPageTableInitUser
    BY <1>3, UserStart DEF FirstPageTableInitUser, TableInv
  <1>4. CASE WriteCr3
    <2>1. /\ info' = info /\ pc = "user" /\ pc' = "ring3" /\ cr3' = UserPml4 /\ redef' = redef
          /\ mem' = mem /\ faults' = faults /\ todo = <<>> /\ todo' = todo
      BY <1>4 DEF WriteCr3
    <2>2. mem[U3] = Entry(KPdpe, FALSE) BY <2>1, NothingPending DEF TableInv, RootInv
    <2>3. TodoInv' /\ Cr3Inv' BY <2>1, SameInfo DEF TodoInv, Cr3Inv
    <2>4. KernelInv'
      <3>1. ASSUME NEW w \in Words, K0 <= w, w < KernelEnd PROVE Due(w, KernelMap[w])'
        <4>1. Due(w, KernelMap[w]) BY <2>1, <3>1 DEF TableInv, KernelInv
        <4> QED BY <2>1, <4>1, SameInfo DEF Due
      <3> QED BY <2>1, <3>1, SameInfo DEF KernelInv, Words
    <2>5. RootInv'
      <3>1. Due(U3, Entry(KPdpe, FALSE)) BY <2>1 DEF TableInv, RootInv
      <3> QED BY <2>1, <2>2, <3>1, SameInfo DEF RootInv, Due, Entry
    <2> QED BY <2>1, <2>3, <2>4, <2>5, SameInfo DEF TableInv, Words, EntryType
  <1>5. CASE PageFaultHandler
    <2>1. todo = <<>> /\ pc # "start" BY <1>5 DEF PageFaultHandler, TableInv, TodoInv
    <2>2. faults' \in 0..MaxFaults
      BY <1>5, Constants DEF PageFaultHandler, TableInv
    <2> QED BY <1>5, <2>1, <2>2, UserStart DEF PageFaultHandler
  <1>6. CASE UNCHANGED vars
    <2>1. /\ info' = info /\ pc' = pc /\ cr3' = cr3 /\ redef' = redef
          /\ mem' = mem /\ faults' = faults /\ todo' = todo
      BY <1>6 DEF vars
    <2>2. TodoInv' BY <2>1, SameInfo DEF TableInv, TodoInv, Good
    <2>3. Cr3Inv' BY <2>1, SameInfo DEF TableInv, Cr3Inv
    <2>4. KernelInv'
      <3>1. ASSUME NEW w \in Words, pc # "start", K0 <= w, w < KernelEnd PROVE Due(w, KernelMap[w])'
        <4>1. Due(w, KernelMap[w]) BY <3>1 DEF TableInv, KernelInv
        <4> QED BY <2>1, <4>1, SameInfo DEF Due
      <3> QED BY <2>1, <3>1, SameInfo DEF KernelInv, Words
    <2>5. RootInv' BY <2>1, SameInfo DEF TableInv, RootInv, Due, Entry
    <2> QED BY <2>1, <2>2, <2>3, <2>4, <2>5, SameInfo DEF TableInv, Words, EntryType
  <1>7. CASE Ring3 BY <1>6, <1>7 DEF Ring3
  <1> QED BY <1>1, <1>2, <1>3, <1>4, <1>5, <1>6, <1>7 DEF Next

\* The inductive invariant of the page tables, for programs of any size.
THEOREM TableInvariance == Spec => []TableInv
  BY TableInit, TableNext, PTL DEF Spec

\* Memory, registers and pending stores keep their types.
THEOREM Typed == Spec => []TypeOK
  <1>1. TableInv => TypeOK
    <2> SUFFICES ASSUME TableInv PROVE TypeOK OBVIOUS
    <2>1. \A j \in DOMAIN todo : todo[j] \in Words \X EntryType
      <3>1. CASE pc = "kernel"
        <4>1. todo \in Seq(Good(KernelMap, K0, KernelEnd)) BY <3>1 DEF TableInv, TodoInv
        <4>2. ASSUME NEW j \in DOMAIN todo PROVE todo[j] \in Words \X EntryType
          <5>1. PICK w \in Int : K0 <= w /\ w < KernelEnd /\ todo[j] = <<w, KernelMap[w]>>
            BY <4>1, <4>2 DEF Good
          <5>2. LaidOut BY DEF TableInv
          <5>3. w < U4 BY <5>1, <5>2, Apart
          <5> QED BY <5>1, <5>2, <5>3, InWords, KernelTypes
        <4> QED BY <4>2
      <3>2. CASE pc = "user"
        <4>1. todo \in Seq(UserGood) BY <3>2 DEF TableInv, TodoInv
        <4>2. ASSUME NEW j \in DOMAIN todo PROVE todo[j] \in Words \X EntryType
          <5>1. todo[j] \in UserGood BY <4>1, <4>2
          <5>2. todo[j] \in Int \X EntryType /\ U0 <= todo[j][1] /\ todo[j][1] < U4
            BY <5>1 DEF UserGood
          <5>3. LaidOut BY DEF TableInv
          <5>4. PICK w \in Int : w = todo[j][1] BY <5>2
          <5>5. K0 <= w BY <5>2, <5>3, <5>4, Apart
          <5>6. w \in Words BY <5>2, <5>3, <5>4, <5>5, InWords
          <5> QED BY <5>2, <5>4, <5>6
        <4> QED BY <4>2
      <3>3. CASE pc \in {"start", "ring3"}
        BY <3>3 DEF TableInv, TodoInv
      <3> QED BY <3>1, <3>2, <3>3 DEF TableInv
    <2> QED BY <2>1 DEF TableInv, TypeOK, Cr3Inv
  <1> QED BY <1>1, TableInvariance, PTL

----------------------------------------------------------------------------
(* The builders keep to their tables.                                      *)

LEMMA Quotient ==
    ASSUME NEW a \in Nat, NEW b \in Nat, NEW r \in Nat \ {0}, NEW w \in Nat,
           a * r <= w, w < b * r
    PROVE  w \div r \in Nat /\ a <= w \div r /\ w \div r < b
  <1>1. PICK q \in Nat : q = w \div r OBVIOUS
  <1>2. q * r <= w /\ w < q * r + r BY <1>1
  <1>3. PICK x \in Int, y \in Int, z \in Int : x = a * r /\ y = b * r /\ z = q * r
    OBVIOUS
  <1>4. CASE q < a
    <2>1. z + r <= x BY <1>3, <1>4, Products
    <2> QED BY <1>2, <1>3, <2>1
  <1>5. CASE b <= q
    <2>1. CASE b = q BY <1>2, <1>3, <2>1
    <2>2. CASE b < q
      <3>1. y + r <= z BY <1>3, <2>2, Products
      <3> QED BY <1>2, <1>3, <3>1
    <2> QED BY <1>5, <2>1, <2>2
  <1> QED BY <1>1, <1>4, <1>5

\* No store of a builder is outside the pages allocated for the tables.
THEOREM StoresInside == Spec => []StoresInsideTables
  <1>1. TableInv => StoresInsideTables
    <2> SUFFICES ASSUME TableInv, NEW j \in DOMAIN todo
                 PROVE  \/ todo[j][1] \div Radix \in
                               info.kernelPt..(info.kernelPt + KernelTablePages - 1)
                        \/ todo[j][1] \div Radix \in
                               info.userPt..(info.userPt + UserTablePages(info.n) - 1)
      BY DEF StoresInsideTables
    <2>1. LaidOut BY DEF TableInv
    <2>2. PICK w : w = todo[j][1] OBVIOUS
    <2>3. CASE pc = "kernel"
      <3>1. todo \in Seq(Good(KernelMap, K0, KernelEnd)) BY <2>3 DEF TableInv, TodoInv
      <3>2. w \in Int /\ K0 <= w /\ w < KernelEnd BY <2>2, <3>1 DEF Good
      <3>3. w \in Nat /\ K0 <= w /\ w < U0 BY <2>1, <3>2, Apart, Words0
      <3>4. KPte * Radix <= w /\ w < UserPte * Radix BY <3>3 DEF K0, U0
      <3>5. PICK q \in Nat : q = w \div Radix /\ KPte <= q /\ q < UserPte
        <4>1. KPte \in Nat /\ UserPte \in Nat /\ Radix \in Nat \ {0} /\ w \in Nat
          BY <2>1, <3>3, KernelPages, Constants
        <4> QED BY <3>4, <4>1, Quotient
      <3>6. UserPte = info.kernelPt + KernelTablePages
        BY <2>1, KernelPages, Constants DEF KernelTablePages, KPte, Span
      <3>7. info.kernelPt \in Int /\ KernelTablePages \in Int
        BY <2>1, KernelPages, Constants DEF KernelTablePages, KPte, Span
      <3>8. PICK b \in Int : b = info.kernelPt + KernelTablePages - 1 /\ b = UserPte - 1
        <4>1. UserPte - 1 \in Int BY <2>1, KernelPages
        <4>2. PICK a \in Int, n \in Int : a = info.kernelPt /\ n = KernelTablePages BY <3>7
        <4>3. a + n - 1 = UserPte - 1 BY <3>6, <4>2
        <4> QED BY <4>1, <4>2, <4>3, Zenon
      <3>9. info.kernelPt = KPte /\ KPte \in Int /\ UserPte \in Int
        BY <2>1, KernelPages DEF KPte
      <3>10. q \in KPte..b BY <3>5, <3>8, <3>9
      <3> QED BY <2>2, <3>5, <3>8, <3>9, <3>10
    <2>4. CASE pc = "user"
      <3>1. todo \in Seq(UserGood) BY <2>4 DEF TableInv, TodoInv
      <3>2. w \in Int /\ U0 <= w /\ w < U4
        <4>1. todo[j] \in UserGood BY <3>1
        <4> QED BY <2>2, <4>1 DEF UserGood
      <3>3. w \in Nat BY <2>1, <3>2, Words0
      <3>4. PICK top \in Nat : top = UserPml4 + 1 BY <2>1, KernelPages
      <3>5. top * Radix = U4 BY <2>1, <3>4, UserTables, UserWords, KernelPages, Product
      <3>6. UserPte * Radix <= w /\ w < top * Radix BY <3>2, <3>5 DEF U0
      <3>7. PICK q \in Nat : q = w \div Radix /\ UserPte <= q /\ q < top
        <4>1. UserPte \in Nat /\ Radix \in Nat \ {0} BY <2>1, KernelPages, Constants
        <4> QED BY <3>3, <3>4, <3>6, <4>1, Quotient
      <3>8. top = UserPte + 4 BY <2>1, <3>4, KernelPages
      <3>9. UserTablePages(info.n) \in Nat /\ UserTablePages(info.n) >= 4
        BY <2>1, LayoutFacts
      <3>10. info.userPt \in Nat /\ info.userPt = UserPte BY <2>1, KernelPages DEF UserPte
      <3> QED BY <2>2, <3>7, <3>8, <3>9, <3>10
    <2>5. CASE pc \in {"start", "ring3"} BY <2>5 DEF TableInv, TodoInv
    <2> QED BY <2>3, <2>4, <2>5 DEF TableInv
  <1> QED BY <1>1, TableInvariance, PTL

----------------------------------------------------------------------------
(* What the processor makes of the tables.                                 *)

LEMMA FollowPresent ==
    ASSUME NEW p \in Nat, NEW n, NEW b
    PROVE  Follow(Entry(p, b), n) = Entry(mem[p * Radix + n].page,
                                          Entry(p, b).user /\ mem[p * Radix + n].user)
  <1>1. Entry(p, b).page = p BY DEF Entry
  <1>2. ~(Entry(p, b).page < 0) BY <1>1
  <1> QED BY <1>1, <1>2, Zenon DEF Follow

LEMMA FollowFalse ==
    ASSUME NEW p \in Nat, NEW n, NEW q, mem[p * Radix + n] = Entry(q, FALSE)
    PROVE  /\ Follow(Entry(p, FALSE), n) = Entry(q, FALSE)
           /\ Follow(Entry(p, TRUE), n) = Entry(q, FALSE)
  <1>1. mem[p * Radix + n].page = q /\ mem[p * Radix + n].user = FALSE BY DEF Entry
  <1> QED BY <1>1, FollowPresent, Zenon

LEMMA FollowTrue ==
    ASSUME NEW p \in Nat, NEW n, NEW q, mem[p * Radix + n] = Entry(q, TRUE)
    PROVE  Follow(Entry(p, TRUE), n) = Entry(q, TRUE)
  <1>1. mem[p * Radix + n].page = q /\ mem[p * Radix + n].user = TRUE BY DEF Entry
  <1>2. Entry(p, TRUE).user = TRUE BY DEF Entry
  <1> QED BY <1>1, <1>2, FollowPresent, Zenon

\* From the kernel's third-level table on, the walk is the kernel's.
LEMMA KernelWalk ==
    ASSUME LaidOut,
           \A w \in Words : K0 <= w /\ w < KernelEnd => mem[w] = KernelMap[w],
           NEW i \in Index, i < Giga, NEW j \in Index, NEW k \in Index
    PROVE  Follow(Follow(Follow(Entry(KPdpe, FALSE), i), j), k) =
               Entry((i * Radix + j) * Radix + k, FALSE)
  <1>1. i \in Nat /\ j \in Nat /\ k \in Nat /\ j < Radix /\ k < Radix /\ i < Giga
    BY Constants DEF Index
  <1>2. ASSUME NEW w \in Int, K0 <= w, w < KernelEnd PROVE mem[w] = KernelMap[w]
    <2>1. w < U4 BY <1>2, Apart
    <2> QED BY <1>2, <2>1, InWords
  <1>3. Follow(Entry(KPdpe, FALSE), i) = Entry(KPde + i, FALSE)
    <2>1. PICK w \in Int : w = K2 + i BY <1>1, Words0
    <2>2. K2 <= w /\ w < K2 + Giga /\ w - K2 = i /\ K0 <= w /\ w < KernelEnd
      BY <1>1, <2>1, Words0 DEF KernelEnd
    <2>3. mem[w] = Entry(KPde + i, FALSE) BY <1>2, <2>2, KernelMapAt
    <2>4. PICK q \in Nat : q = KPde + i BY <1>1, KernelPages
    <2>5. K2 = KPdpe * Radix /\ K2 \in Int BY TableWords, Words0
    <2>6. KPdpe \in Nat BY KernelPages
    <2>7. mem[KPdpe * Radix + i] = Entry(q, FALSE) BY <2>1, <2>3, <2>4, <2>5, Zenon
    <2>10. Follow(Entry(KPdpe, FALSE), i) = Entry(q, FALSE) BY <2>6, <2>7, FollowFalse, Zenon
    <2> QED BY <2>4, <2>10
  <1>4. PICK m \in Nat : m = i * Radix + j BY <1>1, Constants, Product
  <1>5. m < Span
    <2>1. i * Radix + Radix <= Giga * Radix BY <1>1, Constants, Products
    <2>2. PICK x \in Int : x = i * Radix BY <1>1, Constants, Product
    <2> QED BY <1>1, <1>4, <2>1, <2>2, Constants
  <1>6. Follow(Entry(KPde + i, FALSE), j) = Entry(KPte + m, FALSE)
    <2>1. PICK p \in Nat : p = KPde + i BY <1>1, KernelPages
    <2>2. p * Radix = KPde * Radix + i * Radix BY <1>1, <2>1, KernelPages, Constants, Distribute
    <2>3. PICK t \in Int : t = p * Radix BY <2>1, Constants, Product
    <2>4. PICK w \in Int : w = K1 + m BY Words0
    <2>5. PICK x \in Int : x = i * Radix BY <1>1, Constants, Product
    <2>6. t = K1 + x BY <2>2, <2>3, <2>5, TableWords
    <2>7. w = t + j BY <1>1, <1>4, <2>4, <2>5, <2>6, Words0
    <2>8. K1 <= w /\ w < K2 /\ w - K1 = m /\ K0 <= w /\ w < KernelEnd
      BY <1>5, <2>4, Words0 DEF KernelEnd
    <2>9. mem[w] = Entry(KPte + m, FALSE) BY <1>2, <2>8, KernelMapAt
    <2>10. PICK q \in Int : q = KPte + m BY KernelPages
    <2>11. Follow(Entry(p, FALSE), j) = Entry(q, FALSE)
      <3>1. mem[p * Radix + j] = Entry(q, FALSE) BY <2>3, <2>7, <2>9, <2>10, Zenon
      <3> QED BY <2>1, <3>1, FollowFalse, Zenon
    <2> QED BY <2>1, <2>10, <2>11
  <1>7. mem[(KPte + m) * Radix + k] = Entry(m * Radix + k, FALSE)
    <2>1. PICK p \in Nat : p = KPte + m BY KernelPages
    <2>2. p * Radix = KPte * Radix + m * Radix BY <2>1, KernelPages, Constants, Distribute
    <2>3. PICK t \in Int : t = p * Radix BY <2>1, Constants, Product
    <2>4. PICK x \in Nat : x = m * Radix BY <1>4, Constants, Product
    <2>5. PICK w \in Int, q \in Nat : w = K0 + q /\ q = x + k
      <3>1. x + k \in Nat /\ K0 + (x + k) \in Int BY <1>1, Words0
      <3> QED BY <3>1, Zenon
    <2>6. t = K0 + x BY <2>2, <2>3, <2>4, TableWords
    <2>7. w = t + k BY <1>1, <2>5, <2>6, Words0
    <2>8. q < PhysicalPages
      <3>1. m * Radix + Radix <= Span * Radix BY <1>5, Constants, Products
      <3>2. x + Radix <= PhysicalPages BY <2>4, <3>1, Constants
      <3> QED BY <1>1, <2>5, <3>2, Constants
    <2>9. K0 <= w /\ w < K1 /\ w - K0 = q /\ w < KernelEnd
      BY <2>5, <2>8, Words0 DEF KernelEnd
    <2>10. mem[w] = Entry(q, FALSE) BY <1>2, <2>9, KernelMapAt
    <2>11. mem[p * Radix + k] = Entry(q, FALSE) BY <2>3, <2>7, <2>10, Zenon
    <2> QED BY <2>1, <2>4, <2>5, <2>11, Zenon
  <1>8. KPte + m \in Nat BY KernelPages
  <1>9. Follow(Entry(KPte + m, FALSE), k) = Entry(m * Radix + k, FALSE)
    BY <1>7, <1>8, FollowFalse, Zenon
  <1> QED BY <1>3, <1>4, <1>6, <1>9, Zenon

\* Once the user tables are being built nothing stores into the kernel's.
LEMMA KernelNow ==
    ASSUME TableInv, pc \in {"user", "ring3"}
    PROVE  \A w \in Words : K0 <= w /\ w < KernelEnd => mem[w] = KernelMap[w]
  <1> SUFFICES ASSUME NEW w \in Words, K0 <= w, w < KernelEnd PROVE mem[w] = KernelMap[w]
    OBVIOUS
  <1>1. Due(w, KernelMap[w]) BY DEF TableInv, KernelInv
  <1>2. CASE pc = "ring3" BY <1>1, <1>2, NothingPending DEF TableInv, TodoInv
  <1>3. CASE pc = "user"
    <2>1. todo \in Seq(UserGood) BY <1>3 DEF TableInv, TodoInv
    <2>2. ASSUME NEW j \in 1..Len(todo) PROVE todo[j][1] # w
      <3>1. todo[j] \in UserGood BY <2>1, <2>2
      <3>2. todo[j][1] \in Int /\ U0 <= todo[j][1] BY <3>1 DEF UserGood
      <3>3. w \in Int BY DEF Words
      <3> QED BY <3>2, <3>3, Apart DEF TableInv
    <2>3. ~Touches(todo, w) BY <2>2 DEF Touches
    <2>4. ~Leaves(todo, w, KernelMap[w])
      <3>1. SUFFICES ASSUME NEW j \in 1..Len(todo), todo[j] = <<w, KernelMap[w]>> PROVE FALSE
        BY DEF Leaves
      <3>2. todo[j][1] = w BY <3>1
      <3> QED BY <2>2, <3>2
    <2> QED BY <1>1, <2>3, <2>4 DEF Due
  <1> QED BY <1>2, <1>3

LEMMA LowWalk ==
    ASSUME LaidOut,
           \A w \in Words : K0 <= w /\ w < KernelEnd => mem[w] = KernelMap[w],
           mem[U3] = Entry(KPdpe, FALSE), NEW v \in VirtualPages, Low(v)
    PROVE  Walk(UserPml4, v) = Identity(v)
  <1>1. v[1] = 0 /\ v[2] \in Index /\ v[3] \in Index /\ v[4] \in Index /\ v[2] < Giga
    BY DEF VirtualPages, Index, Low
  <1>2. Follow(Entry(UserPml4, TRUE), 0) = Entry(KPdpe, FALSE)
    <2>1. UserPml4 * Radix = U3 /\ U3 + 0 = U3 /\ UserPml4 \in Nat
      BY UserTables, PageFacts, Apart
    <2>2. mem[UserPml4 * Radix + 0] = Entry(KPdpe, FALSE) BY <2>1, Zenon
    <2> QED BY <2>1, <2>2, FollowFalse, Zenon
  <1>3. Follow(Follow(Follow(Entry(KPdpe, FALSE), v[2]), v[3]), v[4]) = Identity(v)
    BY <1>1, KernelWalk DEF Identity
  <1> QED BY <1>1, <1>2, <1>3 DEF Walk

\* The kernel's addresses lead where they did, after every store of every
\* rebuild, whatever the size of the program.
THEOREM KernelMapped == Spec => []KernelStaysMapped
  <1>1. TableInv => KernelStaysMapped
    <2> SUFFICES ASSUME TableInv, cr3 >= 0, NEW v \in VirtualPages, Low(v)
                 PROVE  Walk(cr3, v) = Identity(v)
      BY DEF KernelStaysMapped
    <2>1. cr3 = UserPml4 /\ cr3 # -1 /\ pc \in {"user", "ring3"}
      BY DEF TableInv, Cr3Inv
    <2>2. mem[U3] = Entry(KPdpe, FALSE) /\ LaidOut BY <2>1 DEF TableInv, RootInv
    <2> QED BY <2>1, <2>2, KernelNow, LowWalk
  <1> QED BY <1>1, TableInvariance, PTL

----------------------------------------------------------------------------
(* The user tables of a program that leaves the two last entries alone.    *)

Fits == \A binary \in BinaryPages : binary + StackPages <= Radix - 2

Plain ==
    [w \in Int |->
        IF w < U0 + 1 THEN Entry(info.userStack + (w - U0), TRUE)
        ELSE IF w < U0 + info.n.ptes THEN Entry(info.app + ((w - U0) - 1), TRUE)
        ELSE Empty]

UserMap(extra) ==
    [w \in Int |->
        IF w = U1 - 2 THEN Entry(info.tls, TRUE)
        ELSE IF w = U1 - 1 THEN (IF extra THEN Entry(info.extra, TRUE) ELSE Empty)
        ELSE IF w < U1 THEN Plain[w] ELSE UpperMap[w]]

\* While a builder runs, an entry is what it will be after a fault, or absent.
UserKnown ==
    {s \in Int \X EntryType :
        U0 <= s[1] /\ s[1] < U4 /\ s[2] \in {UserMap(TRUE)[s[1]], Empty}}

LEMMA FitFacts ==
    ASSUME Fits, LaidOut
    PROVE  info.n.ptes <= Radix - 2 /\ info.n.pdes = 1
  <1>1. PICK binary \in BinaryPages : info.n.ptes = binary + 1 BY LayoutFacts
  <1>2. binary + 1 <= Radix - 2 BY DEF Fits, StackPages
  <1>3. info.n.ptes <= Radix - 2 BY <1>1, <1>2
  <1>4. info.n.ptes \in Nat /\ (info.n.ptes < Radix => info.n.pdes = 1) BY LayoutFacts
  <1> QED BY <1>3, <1>4, Constants

LEMMA PlainAt ==
    ASSUME LaidOut, NEW w \in Int
    PROVE  /\ U0 <= w /\ w < U0 + 1 => Plain[w] = Entry(info.userStack + (w - U0), TRUE)
           /\ U0 + 1 <= w /\ w < U0 + info.n.ptes =>
                  Plain[w] = Entry(info.app + ((w - U0) - 1), TRUE)
           /\ U0 + info.n.ptes <= w => Plain[w] = Empty
  BY UserWords DEF Plain, Entry, Empty

LEMMA UserMapAt ==
    ASSUME LaidOut, Fits, NEW w \in Int, NEW extra \in BOOLEAN
    PROVE  /\ w = U1 - 2 => UserMap(extra)[w] = Entry(info.tls, TRUE)
           /\ w = U1 - 1 /\ extra => UserMap(extra)[w] = Entry(info.extra, TRUE)
           /\ w = U1 - 1 /\ ~extra => UserMap(extra)[w] = Empty
           /\ w < U1 - 2 => UserMap(extra)[w] = Plain[w]
           /\ U1 <= w => UserMap(extra)[w] = UpperMap[w]
           /\ U1 - 2 <= w => Plain[w] = Empty
  <1>1. U1 \in Int BY UserWords
  <1>2. UserMap(extra)[w] =
            IF w = U1 - 2 THEN Entry(info.tls, TRUE)
            ELSE IF w = U1 - 1 THEN (IF extra THEN Entry(info.extra, TRUE) ELSE Empty)
            ELSE IF w < U1 THEN Plain[w] ELSE UpperMap[w]
    BY DEF UserMap
  <1>3. w = U1 - 2 => UserMap(extra)[w] = Entry(info.tls, TRUE) BY <1>2
  <1>4. ASSUME w = U1 - 1
        PROVE  UserMap(extra)[w] = IF extra THEN Entry(info.extra, TRUE) ELSE Empty
    <2>1. w # U1 - 2 BY <1>1, <1>4
    <2> QED BY <1>2, <1>4, <2>1
  <1>5. ASSUME w < U1 - 2 PROVE UserMap(extra)[w] = Plain[w]
    <2>1. w # U1 - 2 /\ w # U1 - 1 /\ w < U1 BY <1>1, <1>5
    <2> QED BY <1>2, <2>1, Zenon
  <1>6. ASSUME U1 <= w PROVE UserMap(extra)[w] = UpperMap[w]
    <2>1. w # U1 - 2 /\ w # U1 - 1 /\ ~(w < U1) BY <1>1, <1>6
    <2> QED BY <1>2, <2>1, Zenon
  <1>7. ASSUME U1 - 2 <= w PROVE Plain[w] = Empty
    <2>1. U0 + info.n.ptes <= w BY <1>7, FitFacts, UserWords
    <2> QED BY <2>1, PlainAt
  <1> QED BY <1>3, <1>4, <1>5, <1>6, <1>7, Zenon

LEMMA PlainBuilds ==
    ASSUME LaidOut, Fits
    PROVE  Builds((StackLoop \o AppLoop) \o NoLoop, Plain, U0, U1)
  <1>1. PICK b0 \in Int, b1 \in Int, b2 \in Int, b3 \in Int :
           b0 = U0 /\ b1 = U0 + 1 /\ b2 = U0 + info.n.ptes /\ b3 = U1
    <2>1. U0 \in Int /\ U0 + 1 \in Int /\ U0 + info.n.ptes \in Int /\ U1 \in Int
      BY UserWords
    <2> QED BY <2>1, Zenon
  <1>2. b0 <= b1 /\ b1 <= b2 /\ b2 <= b3 /\ b0 <= b2 BY <1>1, UserWords, FitFacts
  <1>3. Builds(StackLoop, Plain, b0, b1)
    <2>1. PICK t \in Int, from \in Int, to \in Int : t = U0 /\ from = 0 /\ to = 1 BY UserWords
    <2>2. b0 = t + from /\ b1 = t + to /\ from <= to BY <1>1, <2>1, UserWords, FitFacts
    <2>3. ASSUME NEW i \in Int, from <= i /\ i < to PROVE Plain[t + i] = StackValue[i]
      <3>1. PICK w \in Int : w = t + i OBVIOUS
      <3>2. w - U0 = i /\ U0 <= w /\ w < U0 + 1 BY <2>1, <2>3, <3>1, UserWords
      <3>3. Plain[w] = StackValue[i] BY <3>2, PlainAt, Values
      <3> QED BY <3>1, <3>3
    <2>4. StackLoop = Looped(t, from, to, StackValue) BY <2>1 DEF StackLoop
    <2> QED BY <2>2, <2>3, <2>4, LoopedBuilds
  <1>4. Builds(AppLoop, Plain, b1, b2)
    <2>1. PICK t \in Int, from \in Int, to \in Int : t = U0 /\ from = 1 /\ to = info.n.ptes BY UserWords
    <2>2. b1 = t + from /\ b2 = t + to /\ from <= to BY <1>1, <2>1, UserWords, FitFacts
    <2>3. ASSUME NEW i \in Int, from <= i /\ i < to PROVE Plain[t + i] = AppValue[i]
      <3>1. PICK w \in Int : w = t + i OBVIOUS
      <3>2. w - U0 = i /\ U0 + 1 <= w /\ w < U0 + info.n.ptes BY <2>1, <2>3, <3>1, UserWords
      <3>3. Plain[w] = AppValue[i] BY <3>2, PlainAt, Values
      <3> QED BY <3>1, <3>3
    <2>4. AppLoop = Looped(t, from, to, AppValue) BY <2>1 DEF AppLoop
    <2> QED BY <2>2, <2>3, <2>4, LoopedBuilds
  <1>5. Builds(NoLoop, Plain, b2, b3)
    <2>1. PICK t \in Int, from \in Int, to \in Int : t = U0 /\ from = info.n.ptes /\ to = Radix BY UserWords
    <2>2. b2 = t + from /\ b3 = t + to /\ from <= to BY <1>1, <2>1, UserWords, FitFacts
    <2>3. ASSUME NEW i \in Int, from <= i /\ i < to PROVE Plain[t + i] = NoValue[i]
      <3>1. PICK w \in Int : w = t + i OBVIOUS
      <3>2. U0 + info.n.ptes <= w BY <2>1, <2>3, <3>1, UserWords
      <3>3. Plain[w] = NoValue[i] BY <3>2, PlainAt, Values
      <3> QED BY <3>1, <3>3
    <2>4. NoLoop = Looped(t, from, to, NoValue) BY <2>1 DEF NoLoop
    <2> QED BY <2>2, <2>3, <2>4, LoopedBuilds
  <1> DEFINE c2 == StackLoop \o AppLoop
             c3 == c2 \o NoLoop
  <1>6. Builds(c2, Plain, b0, b2) BY <1>2, <1>3, <1>4, CatBuilds
  <1> HIDE DEF c2
  <1>7. Builds(c3, Plain, b0, b3) BY <1>2, <1>5, <1>6, CatBuilds
  <1> QED BY <1>1, <1>7 DEF c3, c2

LEMMA FixedBuilds ==
    ASSUME LaidOut, Fits, NEW extra \in BOOLEAN
    PROVE  /\ Builds(TlsLoop, UserMap(extra), U1 - 2, U1 - 1)
           /\ extra => Builds(ExtraLoop(extra), UserMap(extra), U1 - 1, U1)
  <1>1. PICK f : f = UserMap(extra) OBVIOUS
  <1>2. PICK b0 \in Int, b1 \in Int, b2 \in Int : b0 = U1 - 2 /\ b1 = U1 - 1 /\ b2 = U1
    <2>1. U1 - 2 \in Int /\ U1 - 1 \in Int /\ U1 \in Int BY UserWords
    <2> QED BY <2>1, Zenon
  <1>3. PICK t \in Int, r0 \in Int, r1 \in Int, r2 \in Int :
            t = U0 /\ r0 = Radix - 2 /\ r1 = Radix - 1 /\ r2 = Radix
    <2>1. U0 \in Int /\ Radix - 2 \in Int /\ Radix - 1 \in Int /\ Radix \in Int BY UserWords
    <2> QED BY <2>1, Zenon
  <1>4. b0 = t + r0 /\ b1 = t + r1 /\ b2 = t + r2 /\ r0 <= r1 /\ r1 <= r2
    BY <1>2, <1>3, UserWords
  <1>5. Builds(TlsLoop, f, b0, b1)
    <2>1. ASSUME NEW i \in Int, r0 <= i /\ i < r1 PROVE f[t + i] = TlsValue[i]
      <3>1. PICK w \in Int : w = t + i OBVIOUS
      <3>2. w = U1 - 2 BY <1>2, <1>3, <1>4, <2>1, <3>1
      <3>3. f[w] = Entry(info.tls, TRUE) BY <1>1, <3>2, UserMapAt
      <3> QED BY <3>1, <3>3, Values
    <2>2. TlsLoop = Looped(t, r0, r1, TlsValue) BY <1>3 DEF TlsLoop
    <2> QED BY <1>4, <2>1, <2>2, LoopedBuilds
  <1>6. ASSUME extra PROVE Builds(ExtraLoop(extra), f, b1, b2)
    <2>1. ASSUME NEW i \in Int, r1 <= i /\ i < r2 PROVE f[t + i] = ExtraValue[i]
      <3>1. PICK w \in Int : w = t + i OBVIOUS
      <3>2. w = U1 - 1 BY <1>2, <1>3, <1>4, <2>1, <3>1
      <3>3. f[w] = Entry(info.extra, TRUE) BY <1>1, <1>6, <3>2, UserMapAt
      <3> QED BY <3>1, <3>3, Values
    <2>2. ExtraLoop(extra) = Looped(t, r1, r2, ExtraValue) BY <1>3, <1>6 DEF ExtraLoop
    <2> QED BY <1>4, <2>1, <2>2, LoopedBuilds
  <1> QED BY <1>1, <1>2, <1>5, <1>6


LEMMA MapTypes ==
    ASSUME LaidOut, Fits, NEW w \in Int, U0 <= w, w < U4
    PROVE  UserMap(TRUE)[w] \in EntryType /\ Empty \in EntryType
  <1>1. Empty \in EntryType
    <2>1. -1 \in Int /\ -2 <= -1 /\ -1 < PhysicalPages BY PageFacts
    <2> QED BY <2>1, EntryIs DEF Empty
  <1>2. CASE w = U1 - 2
    <2>1. PICK p \in Int : p = info.tls /\ -2 <= p /\ p < PhysicalPages BY PageFacts
    <2>2. Entry(p, TRUE) \in EntryType BY <2>1, EntryIs
    <2>3. UserMap(TRUE)[w] = Entry(p, TRUE) BY <1>2, <2>1, UserMapAt
    <2> QED BY <1>1, <2>2, <2>3, Zenon
  <1>3. CASE w = U1 - 1
    <2>1. PICK p \in Int : p = info.extra /\ -2 <= p /\ p < PhysicalPages BY PageFacts
    <2>2. Entry(p, TRUE) \in EntryType BY <2>1, EntryIs
    <2>3. UserMap(TRUE)[w] = Entry(p, TRUE) BY <1>3, <2>1, UserMapAt
    <2> QED BY <1>1, <2>2, <2>3, Zenon
  <1>4. CASE w < U1 - 2
    <2>1. UserMap(TRUE)[w] = Plain[w] BY <1>4, UserMapAt
    <2>2. CASE w < U0 + 1
      <3>1. PICK p \in Int : p = info.userStack + (w - U0) /\ -2 <= p /\ p < PhysicalPages
        <4>1. w = U0 /\ U0 \in Int BY <2>2, UserWords
        <4>2. info.userStack + (w - U0) = info.userStack BY <4>1, PageFacts
        <4> QED BY <4>2, PageFacts
      <3>2. Entry(p, TRUE) \in EntryType BY <3>1, EntryIs
      <3>3. Plain[w] = Entry(p, TRUE) BY <2>2, <3>1, PlainAt
      <3> QED BY <1>1, <2>1, <3>2, <3>3, Zenon
    <2>3. CASE U0 + 1 <= w /\ w < U0 + info.n.ptes
      <3>1. PICK p \in Int : p = info.app + ((w - U0) - 1) BY PageFacts, UserWords
      <3>2. -2 <= p /\ p < PhysicalPages BY <2>3, <3>1, PageFacts, UserWords
      <3> QED BY <1>1, <2>1, <2>3, <3>1, <3>2, EntryIs, PlainAt
    <2>4. CASE U0 + info.n.ptes <= w BY <1>1, <2>1, <2>4, PlainAt
    <2>5. w < U0 + 1 \/ (U0 + 1 <= w /\ w < U0 + info.n.ptes) \/ U0 + info.n.ptes <= w
      BY UserWords
    <2> QED BY <2>2, <2>3, <2>4, <2>5, Zenon
  <1>5. CASE U1 <= w
    <2>1. UserMap(TRUE)[w] = UpperMap[w] BY <1>5, UserMapAt
    <2>2. <<w, UpperMap[w]>> \in UserGood
      <3>1. CASE w < U3 BY <1>5, <3>1, UpperGood DEF Good
      <3>2. CASE U3 <= w BY <3>2, UpperGood DEF Good
      <3> QED BY <3>1, <3>2, UserWords
    <2>3. UpperMap[w] \in EntryType BY <2>2 DEF UserGood
    <2> QED BY <1>1, <2>1, <2>3
  <1>6. w < U1 - 2 \/ w = U1 - 2 \/ w = U1 - 1 \/ U1 <= w BY UserWords
  <1> QED BY <1>2, <1>3, <1>4, <1>5, <1>6, Zenon

LEMMA Known ==
    ASSUME LaidOut, Fits, NEW extra \in BOOLEAN
    PROVE  /\ Good(Plain, U0, U1) \subseteq UserKnown
           /\ Good(UserMap(extra), U1 - 2, U1 - 1) \subseteq UserKnown
           /\ extra => Good(UserMap(extra), U1 - 1, U1) \subseteq UserKnown
           /\ Good(UpperMap, U1, U3) \subseteq UserKnown
           /\ Good(UpperMap, U3, U4) \subseteq UserKnown
  <1>1. ASSUME NEW w \in Int, U0 <= w, w < U4, NEW x, x = UserMap(TRUE)[w] \/ x = Empty
        PROVE  <<w, x>> \in UserKnown
    <2>1. x \in EntryType BY <1>1, MapTypes
    <2> QED BY <1>1, <2>1 DEF UserKnown
  <1>2. ASSUME NEW w \in Int, U0 <= w, w < U1 PROVE <<w, Plain[w]>> \in UserKnown
    <2>1. w < U4 BY <1>2, UserWords
    <2>2. Plain[w] = UserMap(TRUE)[w] \/ Plain[w] = Empty
      <3>1. w < U1 - 2 \/ U1 - 2 <= w BY UserWords
      <3> QED BY <3>1, UserMapAt
    <2> QED BY <1>1, <1>2, <2>1, <2>2
  <1>3. ASSUME NEW w \in Int, U1 - 2 <= w, w < U1 - 1
        PROVE  <<w, UserMap(extra)[w]>> \in UserKnown
    <2>1. U0 <= w /\ w < U4 /\ w = U1 - 2 BY <1>3, UserWords
    <2>2. UserMap(extra)[w] = UserMap(TRUE)[w] BY <2>1, UserMapAt
    <2> QED BY <1>1, <2>1, <2>2
  <1>4. ASSUME extra, NEW w \in Int, U1 - 1 <= w, w < U1
        PROVE  <<w, UserMap(extra)[w]>> \in UserKnown
    <2>1. U0 <= w /\ w < U4 /\ w = U1 - 1 BY <1>4, UserWords
    <2>2. UserMap(extra)[w] = UserMap(TRUE)[w] BY <1>4, <2>1, UserMapAt
    <2> QED BY <1>1, <2>1, <2>2
  <1>5. ASSUME NEW w \in Int, U1 <= w, w < U4 PROVE <<w, UpperMap[w]>> \in UserKnown
    <2>1. U0 <= w BY <1>5, UserWords
    <2>2. UpperMap[w] = UserMap(TRUE)[w] BY <1>5, UserMapAt
    <2> QED BY <1>1, <1>5, <2>1, <2>2
  <1>6. ASSUME NEW w \in Int, U1 <= w, w < U3 PROVE w < U4 BY <1>6, UserWords
  <1>7. ASSUME NEW w \in Int, U3 <= w, w < U4 PROVE U1 <= w BY <1>7, UserWords
  <1> QED BY <1>2, <1>3, <1>4, <1>5, <1>6, <1>7 DEF Good

\* What the builder leaves behind in each word of the user tables.
LEMMA UserBuilds ==
    ASSUME LaidOut, Fits, mem[K3] = Entry(KPdpe, FALSE), NEW extra \in BOOLEAN
    PROVE  /\ UserStores(extra) \in Seq(UserKnown)
           /\ \A w \in Int : U0 <= w /\ w < U4 =>
                  Leaves(UserStores(extra), w, UserMap(extra)[w])
  <1>1. PICK c : c = (StackLoop \o AppLoop) \o NoLoop OBVIOUS
  <1>2. c \in Seq(UserKnown) /\ Fills(c, Plain, U0, U1)
    BY <1>1, PlainBuilds, Known, WiderSeq DEF Builds
  <1>3. TlsLoop \in Seq(UserKnown) /\ Fills(TlsLoop, UserMap(extra), U1 - 2, U1 - 1)
    BY FixedBuilds, Known, WiderSeq DEF Builds
  <1>4. /\ ExtraLoop(extra) \in Seq(UserKnown)
        /\ extra => Fills(ExtraLoop(extra), UserMap(extra), U1 - 1, U1)
        /\ ~extra => \A w : ~Touches(ExtraLoop(extra), w)
    <2>1. CASE extra BY <2>1, FixedBuilds, Known, WiderSeq DEF Builds
    <2>2. CASE ~extra
      <3>1. ExtraLoop(extra) = <<>> BY <2>2 DEF ExtraLoop
      <3> QED BY <2>2, <3>1 DEF Touches
    <2> QED BY <2>1, <2>2
  <1>5. PdStores \in Seq(UserKnown) /\ Fills(PdStores, UpperMap, U1, U3)
    BY PdBuilds, Known, WiderSeq DEF Builds
  <1>6. Pml4Stores \in Seq(UserKnown) /\ Fills(Pml4Stores, UpperMap, U3, U4)
    BY Pml4Builds, Known, WiderSeq DEF Builds
  <1>7. PICK d : d = c \o TlsLoop OBVIOUS
  <1>8. PICK e : e = d \o ExtraLoop(extra) OBVIOUS
  <1>9. PICK g : g = e \o PdStores OBVIOUS
  <1>10. PICK h : h = g \o Pml4Stores OBVIOUS
  <1>11. d \in Seq(UserKnown) BY <1>2, <1>3, <1>7, CatSeq
  <1>12. e \in Seq(UserKnown) BY <1>4, <1>8, <1>11, CatSeq
  <1>13. g \in Seq(UserKnown) BY <1>5, <1>9, <1>12, CatSeq
  <1>14. h \in Seq(UserKnown) BY <1>6, <1>10, <1>13, CatSeq
  <1>15. h = UserStores(extra)
    BY <1>1, <1>7, <1>8, <1>9, <1>10, PteRuns DEF UserStores
  <1>16. ASSUME NEW w \in Int, U0 <= w, w < U1 PROVE Leaves(e, w, UserMap(extra)[w])
    <2>1. Leaves(c, w, Plain[w]) BY <1>2, <1>16 DEF Fills
    <2>2. U1 \in Int /\ (w = U1 - 2 \/ w = U1 - 1 \/ w < U1 - 2) BY <1>16, UserWords
    <2>3. CASE w = U1 - 2
      <3>1. U1 - 2 <= w /\ w < U1 - 1 /\ ~(U1 - 1 <= w) BY <2>2, <2>3
      <3>2. Leaves(TlsLoop, w, UserMap(extra)[w]) BY <1>3, <3>1 DEF Fills
      <3>3. Leaves(d, w, UserMap(extra)[w]) BY <1>2, <1>3, <1>7, <3>2, CatLeaves
      <3>4. ~Touches(ExtraLoop(extra), w) BY <1>4, <3>1 DEF Fills
      <3> QED BY <1>4, <1>8, <1>11, <3>3, <3>4, CatLeaves
    <2>4. CASE w = U1 - 1
      <3>1. ~(w < U1 - 1) /\ U1 - 1 <= w /\ w < U1 BY <2>2, <2>4
      <3>2. CASE extra
        <4>1. Leaves(ExtraLoop(extra), w, UserMap(extra)[w]) BY <1>4, <3>1, <3>2 DEF Fills
        <4> QED BY <1>4, <1>8, <1>11, <4>1, CatLeaves
      <3>3. CASE ~extra
        <4>1. U1 - 2 <= w BY <2>2, <2>4
        <4>2. Plain[w] = UserMap(extra)[w] BY <2>4, <3>3, <4>1, UserMapAt
        <4>3. ~Touches(TlsLoop, w) BY <1>3, <3>1 DEF Fills
        <4>4. Leaves(d, w, UserMap(extra)[w]) BY <1>2, <1>3, <1>7, <2>1, <4>2, <4>3, CatLeaves
        <4> QED BY <1>4, <1>8, <1>11, <3>3, <4>4, CatLeaves
      <3> QED BY <3>2, <3>3
    <2>5. CASE w < U1 - 2
      <3>1. ~(U1 - 2 <= w) /\ ~(U1 - 1 <= w) BY <2>2, <2>5
      <3>2. Plain[w] = UserMap(extra)[w] BY <2>5, UserMapAt
      <3>3. ~Touches(TlsLoop, w) BY <1>3, <3>1 DEF Fills
      <3>4. Leaves(d, w, UserMap(extra)[w]) BY <1>2, <1>3, <1>7, <2>1, <3>2, <3>3, CatLeaves
      <3>5. ~Touches(ExtraLoop(extra), w) BY <1>4, <3>1 DEF Fills
      <3> QED BY <1>4, <1>8, <1>11, <3>4, <3>5, CatLeaves
    <2> QED BY <2>2, <2>3, <2>4, <2>5
  <1>17. ASSUME NEW w \in Int, U0 <= w, w < U4 PROVE Leaves(h, w, UserMap(extra)[w])
    <2>1. CASE w < U1
      <3>1. ~(U1 <= w) /\ ~(U3 <= w) BY <2>1, UserWords
      <3>2. ~Touches(PdStores, w) /\ ~Touches(Pml4Stores, w) BY <1>5, <1>6, <3>1 DEF Fills
      <3>3. Leaves(g, w, UserMap(extra)[w])
        BY <1>5, <1>9, <1>12, <1>16, <1>17, <2>1, <3>2, CatLeaves
      <3> QED BY <1>6, <1>10, <1>13, <3>2, <3>3, CatLeaves
    <2>2. CASE U1 <= w /\ w < U3
      <3>1. ~(U3 <= w) BY <2>2, UserWords
      <3>2. UpperMap[w] = UserMap(extra)[w] BY <2>2, UserMapAt
      <3>3. Leaves(PdStores, w, UserMap(extra)[w]) /\ ~Touches(Pml4Stores, w)
        BY <1>5, <1>6, <2>2, <3>1, <3>2 DEF Fills
      <3>4. Leaves(g, w, UserMap(extra)[w]) BY <1>5, <1>9, <1>12, <3>3, CatLeaves
      <3> QED BY <1>6, <1>10, <1>13, <3>3, <3>4, CatLeaves
    <2>3. CASE U3 <= w
      <3>1. U1 <= w BY <2>3, UserWords
      <3>2. UpperMap[w] = UserMap(extra)[w] BY <3>1, UserMapAt
      <3>3. Leaves(Pml4Stores, w, UserMap(extra)[w]) BY <1>6, <1>17, <2>3, <3>2 DEF Fills
      <3> QED BY <1>6, <1>10, <1>13, <3>3, CatLeaves
    <2> QED BY <2>1, <2>2, <2>3, UserWords
  <1> QED BY <1>14, <1>15, <1>17

----------------------------------------------------------------------------
(* The inductive invariant of the user tables.                             *)

\* While the builder runs its stores are the ones of a whole rebuild, and an
\* entry that the processor may already use is the one meant after a fault, or
\* absent.
MapInv ==
    /\ Fits
    /\ pc \in {"start", "kernel"} => faults = 0
    /\ pc \in {"user", "ring3"} => (redef <=> faults > 0)
    /\ pc = "user" => todo \in Seq(UserKnown)
    /\ pc \in {"user", "ring3"} =>
           \A w \in Words : U0 <= w /\ w < U4 => Due(w, UserMap(redef)[w])
    /\ cr3 # -1 =>
           \A w \in Words :
               U0 <= w /\ w < U4 => mem[w] = UserMap(TRUE)[w] \/ mem[w] = Empty

LEMMA SameMap ==
    ASSUME info' = info
    PROVE  /\ U0' = U0 /\ U4' = U4 /\ UserKnown' = UserKnown
           /\ \A extra : UserMap(extra)' = UserMap(extra)
  <1>1. UserPte' = UserPte /\ UserPde' = UserPde /\ UserPdpe' = UserPdpe /\ KPdpe' = KPdpe
    BY DEF UserPte, UserPde, UserPdpe, KPdpe, KPde, KPte
  <1>2. U0' = U0 /\ U1' = U1 /\ U2' = U2 /\ U3' = U3 /\ U4' = U4
    BY <1>1 DEF U0, U1, U2, U3, U4
  <1>3. UpperMap' = UpperMap BY <1>1, <1>2 DEF UpperMap, Entry, Empty
  <1>4. Plain' = Plain BY <1>2 DEF Plain, Entry, Empty
  <1>5. \A extra : UserMap(extra)' = UserMap(extra)
    BY <1>2, <1>3, <1>4 DEF UserMap, Entry, Empty
  <1>6. UserMap(TRUE)' = UserMap(TRUE) BY <1>2, <1>3, <1>4 DEF UserMap, Entry, Empty
  <1>7. UserKnown' = UserKnown BY <1>2, <1>6 DEF UserKnown, EntryType, Empty, Entry
  <1> QED BY <1>2, <1>5, <1>7

LEMMA FewerEntries ==
    ASSUME LaidOut, Fits, NEW extra \in BOOLEAN, NEW w \in Int
    PROVE  UserMap(extra)[w] = UserMap(TRUE)[w] \/ UserMap(extra)[w] = Empty
  <1>1. w = U1 - 2 \/ w = U1 - 1 \/ w < U1 - 2 \/ U1 <= w BY UserWords
  <1> QED BY <1>1, UserMapAt

LEMMA MapInit == Fits /\ Init => MapInv
  BY DEF Init, MapInv

LEMMA MapStore ==
    ASSUME TableInv, MapInv, Store
    PROVE  MapInv'
  <1>1. /\ info' = info /\ pc' = pc /\ cr3' = cr3 /\ redef' = redef /\ faults' = faults
        /\ todo # <<>> /\ pc \in {"kernel", "user"}
        /\ mem' = [mem EXCEPT ![Head(todo)[1]] = Head(todo)[2]] /\ todo' = Tail(todo)
    BY DEF Store
  <1>2. Fits' /\ Fits BY DEF MapInv, Fits
  <1>3. CASE pc = "kernel"
    <2>1. cr3 = -1 BY <1>3 DEF TableInv, Cr3Inv
    <2> QED BY <1>1, <1>2, <1>3, <2>1 DEF MapInv
  <1>4. CASE pc = "user"
    <2>1. todo \in Seq(UserKnown) BY <1>4 DEF MapInv
    <2>2. PICK s : s = Head(todo) OBVIOUS
    <2>3. s \in UserKnown BY <1>1, <2>1, <2>2
    <2>4. PICK w \in Int : /\ s = <<w, s[2]>> /\ s[1] = w /\ U0 <= w /\ w < U4
                           /\ (s[2] = UserMap(TRUE)[w] \/ s[2] = Empty)
      <3>1. /\ s \in Int \X EntryType /\ U0 <= s[1] /\ s[1] < U4
            /\ s[2] \in {UserMap(TRUE)[s[1]], Empty}
        BY <2>3 DEF UserKnown
      <3>2. PICK w \in Int : w = s[1] BY <3>1
      <3>3. s = <<w, s[2]>> BY <3>1, <3>2
      <3> QED BY <3>1, <3>2, <3>3
    <2>5. w \in Words
      <3>1. LaidOut BY DEF TableInv
      <3>2. K0 <= w BY <2>4, <3>1, Apart
      <3> QED BY <2>4, <3>1, <3>2, InWords
    <2>6. /\ todo' \in Seq(UserKnown) /\ mem'[w] = s[2]
          /\ \A u \in Words : u # w => mem'[u] = mem[u]
          /\ \A u \in Words : \A x : Due(u, x) => Due(u, x)'
      <3>1. DOMAIN mem = Words BY DEF TableInv
      <3>2. s = <<s[1], s[2]>> BY <2>4
      <3> QED BY <1>1, <2>1, <2>2, <2>4, <2>5, <3>1, <3>2, StoreStep
    <2>7. todo' \in Seq(UserKnown') BY <1>1, <2>6, SameMap
    <2>8. ASSUME NEW u \in Words, U0' <= u, u < U4' PROVE Due(u, UserMap(redef)[u])'
      <3>1. Due(u, UserMap(redef)[u]) BY <1>1, <1>4, <2>8, SameMap DEF MapInv
      <3>2. PICK x : x = UserMap(redef)[u] OBVIOUS
      <3>3. Due(u, x)' BY <2>6, <3>1, <3>2
      <3>4. UserMap(redef)'[u] = x
        <4>1. redef \in BOOLEAN BY DEF TableInv
        <4>2. UserMap(TRUE)' = UserMap(TRUE) /\ UserMap(FALSE)' = UserMap(FALSE) BY <1>1, SameMap
        <4> QED BY <1>1, <3>2, <4>1, <4>2
      <3> QED BY <3>3, <3>4 DEF Due
    <2>9. ASSUME cr3' # -1, NEW u \in Words, U0' <= u, u < U4'
          PROVE  mem'[u] = UserMap(TRUE)'[u] \/ mem'[u] = Empty
      <3>1. UserMap(TRUE)' = UserMap(TRUE) BY <1>1, SameMap
      <3>2. CASE u = w BY <2>4, <2>6, <3>1, <3>2
      <3>3. CASE u # w
        <4>1. mem[u] = UserMap(TRUE)[u] \/ mem[u] = Empty BY <1>1, <2>9, SameMap DEF MapInv
        <4> QED BY <2>6, <3>1, <3>3, <4>1
      <3> QED BY <3>2, <3>3
    <2>10. redef' <=> faults' > 0 BY <1>1, <1>4 DEF MapInv
    <2> QED BY <1>1, <1>2, <1>4, <2>7, <2>8, <2>9, <2>10 DEF MapInv, Words, Empty, Entry
  <1> QED BY <1>1, <1>3, <1>4

\* A builder of the user tables starts.
LEMMA MapStart ==
    ASSUME TableInv, MapInv, NEW extra \in BOOLEAN, todo = <<>>, pc # "start",
           PageTableInitUser(extra), extra <=> faults' > 0
    PROVE  MapInv'
  <1>1. /\ info' = info /\ pc' = "user" /\ cr3' = cr3 /\ redef' = extra /\ mem' = mem
        /\ todo' = UserStores(extra)
    BY DEF PageTableInitUser
  <1>2. Fits' /\ Fits /\ LaidOut BY DEF MapInv, Fits, TableInv
  <1>3. mem[K3] = Entry(KPdpe, FALSE)
    <2>1. Due(K3, KernelMap[K3]) BY <1>2, Apart DEF TableInv, KernelInv
    <2>2. mem[K3] = KernelMap[K3] BY <2>1, NothingPending
    <2> QED BY <1>2, <2>2, Apart, KernelMapAt
  <1>4. /\ UserStores(extra) \in Seq(UserKnown)
        /\ \A w \in Int : U0 <= w /\ w < U4 => Leaves(UserStores(extra), w, UserMap(extra)[w])
    BY <1>2, <1>3, UserBuilds
  <1>5. todo' \in Seq(UserKnown') BY <1>1, <1>4, SameMap
  <1>6. ASSUME NEW w \in Words, U0' <= w, w < U4' PROVE Due(w, UserMap(redef)[w])'
    <2>1. w \in Int BY DEF Words
    <2>2. PICK x : x = UserMap(extra)[w] OBVIOUS
    <2>3. Leaves(todo', w, x) BY <1>1, <1>4, <1>6, <2>1, <2>2, SameMap
    <2>4. UserMap(redef)'[w] = x
      <3>1. UserMap(TRUE)' = UserMap(TRUE) /\ UserMap(FALSE)' = UserMap(FALSE) BY <1>1, SameMap
      <3> QED BY <1>1, <2>2, <3>1
    <2> QED BY <2>3, <2>4 DEF Due
  <1>7. ASSUME cr3' # -1, NEW w \in Words, U0' <= w, w < U4'
        PROVE  mem'[w] = UserMap(TRUE)'[w] \/ mem'[w] = Empty
    BY <1>1, <1>7, SameMap DEF MapInv
  <1> QED BY <1>1, <1>2, <1>5, <1>6, <1>7 DEF MapInv, Words, Empty, Entry

LEMMA MapNext == TableInv /\ MapInv /\ [Next]_vars => MapInv'
  <1> SUFFICES ASSUME TableInv, MapInv, [Next]_vars PROVE MapInv' OBVIOUS
  <1>1. Fits' /\ Fits /\ LaidOut BY DEF MapInv, Fits, TableInv
  <1>2. CASE Store BY <1>2, MapStore
  <1>3. CASE PageTableInitKernel
    <2>1. cr3' = -1 /\ pc' = "kernel" /\ faults' = 0
      BY <1>3 DEF PageTableInitKernel, TableInv, Cr3Inv, MapInv
    <2> QED BY <1>1, <2>1 DEF MapInv
  <1>4. CASE FirstPageTableInitUser
    <2>1. faults' = 0 /\ todo = <<>> /\ pc # "start" /\ PageTableInitUser(FALSE)
      BY <1>4 DEF FirstPageTableInitUser, MapInv
    <2>2. PICK extra \in BOOLEAN : extra = FALSE OBVIOUS
    <2>3. extra <=> faults' > 0 BY <2>1, <2>2
    <2>4. PageTableInitUser(extra) BY <2>1, <2>2
    <2> QED BY <2>1, <2>3, <2>4, MapStart
  <1>5. CASE PageFaultHandler
    <2>1. todo = <<>> /\ pc # "start" /\ PageTableInitUser(TRUE) /\ faults' = faults + 1
      BY <1>5 DEF PageFaultHandler, TableInv, TodoInv
    <2>2. PICK extra \in BOOLEAN : extra = TRUE OBVIOUS
    <2>3. faults' > 0
      <3>1. faults \in 0..MaxFaults /\ MaxFaults \in Nat BY Constants DEF TableInv
      <3> QED BY <2>1, <3>1
    <2>4. PageTableInitUser(extra) BY <2>1, <2>2
    <2> QED BY <2>1, <2>2, <2>3, <2>4, MapStart
  <1>6. CASE WriteCr3
    <2>1. /\ info' = info /\ pc = "user" /\ pc' = "ring3" /\ redef' = redef
          /\ mem' = mem /\ faults' = faults /\ todo = <<>> /\ todo' = todo
      BY <1>6 DEF WriteCr3
    <2>2. redef \in BOOLEAN BY DEF TableInv
    <2>3. UserMap(TRUE)' = UserMap(TRUE) /\ UserMap(FALSE)' = UserMap(FALSE) BY <2>1, SameMap
    <2>4. ASSUME NEW w \in Words, U0' <= w, w < U4'
          PROVE  /\ Due(w, UserMap(redef)[w])'
                 /\ mem'[w] = UserMap(TRUE)'[w] \/ mem'[w] = Empty
      <3>1. Due(w, UserMap(redef)[w]) BY <2>1, <2>4, SameMap DEF MapInv
      <3>2. PICK x : x = UserMap(redef)[w] OBVIOUS
      <3>3. UserMap(redef)'[w] = x BY <2>1, <2>2, <2>3, <3>2
      <3>4. Due(w, x)' BY <2>1, <3>1, <3>2 DEF Due
      <3>5. mem[w] = x BY <2>1, <3>1, <3>2, NothingPending
      <3>6. w \in Int BY DEF Words
      <3>7. x = UserMap(TRUE)[w] \/ x = Empty BY <1>1, <2>2, <3>2, <3>6, FewerEntries
      <3>8. Due(w, UserMap(redef)[w])' BY <3>3, <3>4 DEF Due
      <3> QED BY <2>1, <2>3, <3>5, <3>7, <3>8
    <2>5. redef' <=> faults' > 0 BY <2>1 DEF MapInv
    <2> QED BY <1>1, <2>1, <2>4, <2>5 DEF MapInv, Words, Empty, Entry
  <1>7. CASE UNCHANGED vars
    <2>1. /\ info' = info /\ pc' = pc /\ cr3' = cr3 /\ redef' = redef
          /\ mem' = mem /\ faults' = faults /\ todo' = todo
      BY <1>7 DEF vars
    <2>2. UserMap(TRUE)' = UserMap(TRUE) /\ UserMap(FALSE)' = UserMap(FALSE) BY <2>1, SameMap
    <2>3. redef \in BOOLEAN BY DEF TableInv
    <2>4. pc = "user" => todo' \in Seq(UserKnown') BY <2>1, SameMap DEF MapInv
    <2>5. ASSUME pc \in {"user", "ring3"}, NEW w \in Words, U0' <= w, w < U4'
          PROVE  Due(w, UserMap(redef)[w])'
      <3>1. Due(w, UserMap(redef)[w]) BY <2>1, <2>5, SameMap DEF MapInv
      <3>2. PICK x : x = UserMap(redef)[w] OBVIOUS
      <3>3. UserMap(redef)'[w] = x BY <2>1, <2>2, <2>3, <3>2
      <3>4. Due(w, x)' BY <2>1, <3>1, <3>2 DEF Due
      <3> QED BY <3>3, <3>4 DEF Due
    <2>6. ASSUME cr3' # -1, NEW w \in Words, U0' <= w, w < U4'
          PROVE  mem'[w] = UserMap(TRUE)'[w] \/ mem'[w] = Empty
      BY <2>1, <2>2, <2>6, SameMap DEF MapInv
    <2>7. /\ pc \in {"start", "kernel"} => faults' = 0
          /\ pc \in {"user", "ring3"} => (redef' <=> faults' > 0)
      BY <2>1 DEF MapInv
    <2> QED BY <1>1, <2>1, <2>4, <2>5, <2>6, <2>7 DEF MapInv, Words, Empty, Entry
  <1>8. CASE Ring3 BY <1>7, <1>8 DEF Ring3
  <1> QED BY <1>2, <1>3, <1>4, <1>5, <1>6, <1>7, <1>8 DEF Next

\* The user tables, at every step, for a program of any size that fits.
THEOREM MapInvariance == Fits /\ Spec => [](TableInv /\ MapInv)
  <1>1. Fits /\ Init => TableInv /\ MapInv BY TableInit, MapInit
  <1>2. TableInv /\ MapInv /\ [Next]_vars => (TableInv /\ MapInv)' BY TableNext, MapNext
  <1> QED BY <1>1, <1>2, PTL DEF Spec

----------------------------------------------------------------------------
(* The walks of the user program's addresses.                              *)

\* The user tables are the ones meant, but for entries still absent if lax.
Holds(extra, lax) ==
    \A w \in Int : U0 <= w /\ w < U4 =>
        mem[w] = UserMap(extra)[w] \/ (lax /\ mem[w] = Empty)

LEMMA FollowEmpty == ASSUME NEW k PROVE Follow(Empty, k) = Empty
  <1>1. Empty.page < 0 BY DEF Empty, Entry
  <1> QED BY <1>1 DEF Follow

LEMMA FollowAbsent ==
    ASSUME NEW p \in Nat, NEW k, mem[p * Radix + k] = Empty
    PROVE  Follow(Entry(p, TRUE), k) = Empty /\ Follow(Entry(p, FALSE), k) = Empty
  <1>1. PICK q \in Int : q = -1 OBVIOUS
  <1>2. mem[p * Radix + k] = Entry(q, FALSE) BY <1>1 DEF Empty
  <1>3. /\ Follow(Entry(p, FALSE), k) = Entry(q, FALSE)
        /\ Follow(Entry(p, TRUE), k) = Entry(q, FALSE)
    BY <1>2, FollowFalse, Zenon
  <1> QED BY <1>1, <1>3 DEF Empty

\* Entries of the three directories.
LEMMA TopEntry ==
    ASSUME LaidOut, Fits, NEW extra \in BOOLEAN, NEW lax \in BOOLEAN, Holds(extra, lax),
           NEW k \in Index, k # 0
    PROVE  Follow(Entry(UserPml4, TRUE), k) \in
               IF k = Radix - 1
               THEN IF lax THEN {Entry(UserPdpe, TRUE), Empty} ELSE {Entry(UserPdpe, TRUE)}
               ELSE {Empty}
  <1>1. PICK w \in Int : w = U3 + k /\ U3 < w /\ w < U4 /\ U1 <= w /\ U0 <= w
        /\ U1 + info.n.pdes <= w /\ w # U3 - 1 /\ w # U3 /\ (w = U4 - 1 <=> k = Radix - 1)
    BY UserWords DEF Index
  <1>2. mem[w] = UpperMap[w] \/ (lax /\ mem[w] = Empty)
    BY <1>1, UserMapAt DEF Holds
  <1>3. UserPml4 \in Nat /\ UserPml4 * Radix + k = w BY <1>1, UserTables, PageFacts
  <1>4. CASE k = Radix - 1
    <2>1. UpperMap[w] = Entry(UserPdpe, TRUE) BY <1>1, <1>4, UpperMapAt
    <2>2. CASE mem[w] = UpperMap[w]
      <3>1. mem[UserPml4 * Radix + k] = Entry(UserPdpe, TRUE) BY <1>3, <2>1, <2>2
      <3>2. Follow(Entry(UserPml4, TRUE), k) = Entry(UserPdpe, TRUE)
        BY <1>3, <3>1, FollowTrue, Zenon
      <3> QED BY <1>4, <3>2
    <2>3. CASE lax /\ mem[w] = Empty
      <3>1. mem[UserPml4 * Radix + k] = Empty BY <1>3, <2>3
      <3>2. Follow(Entry(UserPml4, TRUE), k) = Empty BY <1>3, <3>1, FollowAbsent, Zenon
      <3> QED BY <1>4, <2>3, <3>2
    <2> QED BY <1>2, <2>2, <2>3
  <1>5. CASE k # Radix - 1
    <2>1. UpperMap[w] = Empty BY <1>1, <1>5, UpperMapAt
    <2>2. mem[UserPml4 * Radix + k] = Empty BY <1>2, <1>3, <2>1
    <2>3. Follow(Entry(UserPml4, TRUE), k) = Empty BY <1>3, <2>2, FollowAbsent, Zenon
    <2> QED BY <1>5, <2>3
  <1> QED BY <1>4, <1>5

LEMMA ThirdEntry ==
    ASSUME LaidOut, Fits, NEW extra \in BOOLEAN, NEW lax \in BOOLEAN, Holds(extra, lax),
           NEW k \in Index
    PROVE  Follow(Entry(UserPdpe, TRUE), k) \in
               IF k = Radix - 1
               THEN IF lax THEN {Entry(UserPde, TRUE), Empty} ELSE {Entry(UserPde, TRUE)}
               ELSE {Empty}
  <1>1. PICK w \in Int : w = U2 + k /\ U2 <= w /\ w < U3 /\ w < U4 /\ U1 <= w /\ U0 <= w
        /\ U1 + info.n.pdes <= w /\ w # U3 /\ w # U4 - 1 /\ (w = U3 - 1 <=> k = Radix - 1)
    BY UserWords DEF Index
  <1>2. mem[w] = UpperMap[w] \/ (lax /\ mem[w] = Empty)
    BY <1>1, UserMapAt DEF Holds
  <1>3. UserPdpe \in Nat /\ UserPdpe * Radix + k = w BY <1>1, UserTables, PageFacts
  <1>4. CASE k = Radix - 1
    <2>1. UpperMap[w] = Entry(UserPde, TRUE) BY <1>1, <1>4, UpperMapAt
    <2>2. CASE mem[w] = UpperMap[w]
      <3>1. mem[UserPdpe * Radix + k] = Entry(UserPde, TRUE) BY <1>3, <2>1, <2>2
      <3>2. Follow(Entry(UserPdpe, TRUE), k) = Entry(UserPde, TRUE)
        BY <1>3, <3>1, FollowTrue, Zenon
      <3> QED BY <1>4, <3>2
    <2>3. CASE lax /\ mem[w] = Empty
      <3>1. mem[UserPdpe * Radix + k] = Empty BY <1>3, <2>3
      <3>2. Follow(Entry(UserPdpe, TRUE), k) = Empty BY <1>3, <3>1, FollowAbsent, Zenon
      <3> QED BY <1>4, <2>3, <3>2
    <2> QED BY <1>2, <2>2, <2>3
  <1>5. CASE k # Radix - 1
    <2>1. UpperMap[w] = Empty BY <1>1, <1>5, UpperMapAt
    <2>2. mem[UserPdpe * Radix + k] = Empty BY <1>2, <1>3, <2>1
    <2>3. Follow(Entry(UserPdpe, TRUE), k) = Empty BY <1>3, <2>2, FollowAbsent, Zenon
    <2> QED BY <1>5, <2>3
  <1> QED BY <1>4, <1>5

LEMMA SecondEntry ==
    ASSUME LaidOut, Fits, NEW extra \in BOOLEAN, NEW lax \in BOOLEAN, Holds(extra, lax),
           NEW k \in Index
    PROVE  Follow(Entry(UserPde, TRUE), k) \in
               IF k = 0
               THEN IF lax THEN {Entry(UserPte, TRUE), Empty} ELSE {Entry(UserPte, TRUE)}
               ELSE {Empty}
  <1>1. PICK w \in Int : w = U1 + k /\ w < U2 /\ w < U4 /\ U1 <= w /\ U0 <= w
        /\ (w < U1 + info.n.pdes <=> k = 0) /\ w # U3 /\ w # U4 - 1 /\ w # U3 - 1
    BY UserWords, FitFacts DEF Index
  <1>2. mem[w] = UpperMap[w] \/ (lax /\ mem[w] = Empty)
    BY <1>1, UserMapAt DEF Holds
  <1>3. UserPde \in Nat /\ UserPde * Radix + k = w BY <1>1, UserTables, PageFacts
  <1>4. CASE k = 0
    <2>1. UpperMap[w] = Entry(UserPte, TRUE)
      <3>1. PICK p \in Int : p = UserPte + (w - U1) /\ p = UserPte
        <4>1. w - U1 = 0 /\ UserPte \in Int BY <1>1, <1>4, UserWords
        <4>2. UserPte + (w - U1) = UserPte BY <4>1
        <4> QED BY <4>1, <4>2, Zenon
      <3>2. UpperMap[w] = Entry(p, TRUE) BY <1>1, <1>4, <3>1, UpperMapAt
      <3> QED BY <3>1, <3>2
    <2>2. CASE mem[w] = UpperMap[w]
      <3>1. mem[UserPde * Radix + k] = Entry(UserPte, TRUE) BY <1>3, <2>1, <2>2
      <3>2. Follow(Entry(UserPde, TRUE), k) = Entry(UserPte, TRUE)
        BY <1>3, <3>1, FollowTrue, Zenon
      <3> QED BY <1>4, <3>2
    <2>3. CASE lax /\ mem[w] = Empty
      <3>1. mem[UserPde * Radix + k] = Empty BY <1>3, <2>3
      <3>2. Follow(Entry(UserPde, TRUE), k) = Empty BY <1>3, <3>1, FollowAbsent, Zenon
      <3> QED BY <1>4, <2>3, <3>2
    <2> QED BY <1>2, <2>2, <2>3
  <1>5. CASE k # 0
    <2>0. U1 + info.n.pdes <= w BY <1>1, <1>5, UserWords
    <2>1. UpperMap[w] = Empty BY <1>1, <2>0, UpperMapAt
    <2>2. mem[UserPde * Radix + k] = Empty BY <1>2, <1>3, <2>1
    <2>3. Follow(Entry(UserPde, TRUE), k) = Empty BY <1>3, <2>2, FollowAbsent, Zenon
    <2> QED BY <1>5, <2>3
  <1> QED BY <1>4, <1>5

LEMMA Present ==
    ASSUME NEW p \in Int
    PROVE  /\ p >= 0 => Entry(p, p >= 0) = Entry(p, TRUE)
           /\ p < 0 => Entry(p, p >= 0) = Entry(p, FALSE)
  <1>1. ASSUME p >= 0 PROVE Entry(p, p >= 0) = Entry(p, TRUE)
    <2>1. (p >= 0) = TRUE BY <1>1, SMT
    <2> QED BY <2>1, Zenon DEF Entry
  <1>2. ASSUME p < 0 PROVE Entry(p, p >= 0) = Entry(p, FALSE)
    <2>1. ~(p >= 0) BY <1>2
    <2>2. (p >= 0) = FALSE BY <2>1, SMT
    <2> QED BY <2>2, Zenon DEF Entry
  <1> QED BY <1>1, <1>2, Zenon

\* The last level is what AddressSpaceExact means by it.
LEMMA LeafMap ==
    ASSUME LaidOut, Fits, NEW extra \in BOOLEAN, NEW k \in Index
    PROVE  /\ HighPage(k, extra) \in Int
           /\ UserMap(extra)[U0 + k] = Entry(HighPage(k, extra), HighPage(k, extra) >= 0)
           /\ HighPage(k, extra) < 0 => HighPage(k, extra) = -1
  <1>1. PICK w \in Int : w = U0 + k /\ U0 <= w BY UserWords DEF Index
  <1>2. k \in Int /\ 0 <= k /\ k < Radix /\ w - U0 = k /\ w < U1 BY <1>1, UserWords DEF Index
  <1>3. info.n.ptes <= Radix - 2 /\ info.n.ptes \in Int /\ info.n.ptes >= 2 /\ Radix \in Int
    BY FitFacts, UserWords
  <1>4. /\ info.userStack \in Nat /\ info.app = 1 /\ info.tls \in Nat /\ info.extra \in Nat
    BY PageFacts
  <1>5. CASE k < 1
    <2>1. PICK p \in Nat : p = info.userStack + k BY <1>2, <1>4
    <2>2. HighPage(k, extra) = p BY <1>2, <1>3, <1>4, <1>5, <2>1 DEF HighPage, StackPages
    <2>3. UserMap(extra)[w] = Plain[w]
      <3>1. w < U1 - 2 BY <1>1, <1>2, <1>3, <1>5, UserWords
      <3> QED BY <3>1, UserMapAt
    <2>4. w < U0 + 1 BY <1>1, <1>2, <1>5, UserWords
    <2>5. Plain[w] = Entry(p, TRUE) BY <1>1, <1>2, <2>1, <2>4, PlainAt
    <2>6. p \in Int /\ p >= 0 /\ ~(p < 0) BY <2>1
    <2>7. Entry(p, p >= 0) = Entry(p, TRUE) BY <2>6, Present, Zenon
    <2> QED BY <1>1, <2>2, <2>3, <2>5, <2>6, <2>7, Zenon
  <1>6. CASE 1 <= k /\ k < info.n.ptes
    <2>1. PICK p \in Nat : p = info.app + (k - 1) /\ p = info.app + k - 1 BY <1>2, <1>4, <1>6
    <2>2. HighPage(k, extra) = p BY <1>2, <1>3, <1>4, <1>6, <2>1 DEF HighPage, StackPages
    <2>3. UserMap(extra)[w] = Plain[w]
      <3>1. w < U1 - 2 BY <1>1, <1>2, <1>3, <1>6, UserWords
      <3> QED BY <3>1, UserMapAt
    <2>4. U0 + 1 <= w /\ w < U0 + info.n.ptes BY <1>1, <1>2, <1>6, UserWords
    <2>5. Plain[w] = Entry(p, TRUE) BY <1>2, <2>1, <2>4, PlainAt
    <2>6. p \in Int /\ p >= 0 /\ ~(p < 0) BY <2>1
    <2>7. Entry(p, p >= 0) = Entry(p, TRUE) BY <2>6, Present, Zenon
    <2> QED BY <1>1, <2>2, <2>3, <2>5, <2>6, <2>7, Zenon
  <1>7. CASE info.n.ptes <= k /\ k = Radix - 2
    <2>1. HighPage(k, extra) = info.tls BY <1>2, <1>3, <1>7 DEF HighPage, StackPages
    <2>2. w = U1 - 2 BY <1>1, <1>7, UserWords
    <2>3. UserMap(extra)[w] = Entry(info.tls, TRUE) BY <2>2, UserMapAt
    <2>4. PICK p \in Int : p = info.tls /\ p >= 0 /\ ~(p < 0) BY <1>4
    <2>5. Entry(p, p >= 0) = Entry(p, TRUE) BY <2>4, Present, Zenon
    <2> QED BY <1>1, <2>1, <2>3, <2>4, <2>5, Zenon
  <1>8. CASE k = Radix - 1 /\ extra
    <2>1. HighPage(k, extra) = info.extra BY <1>2, <1>3, <1>8 DEF HighPage, StackPages
    <2>2. w = U1 - 1 BY <1>1, <1>8, UserWords
    <2>3. UserMap(extra)[w] = Entry(info.extra, TRUE) BY <1>8, <2>2, UserMapAt
    <2>4. PICK p \in Int : p = info.extra /\ p >= 0 /\ ~(p < 0) BY <1>4
    <2>5. Entry(p, p >= 0) = Entry(p, TRUE) BY <2>4, Present, Zenon
    <2> QED BY <1>1, <2>1, <2>3, <2>4, <2>5, Zenon
  <1>9. CASE info.n.ptes <= k /\ k # Radix - 2 /\ ~(k = Radix - 1 /\ extra)
    <2>1. PICK p \in Int : p = -1 /\ p < 0 OBVIOUS
    <2>2. HighPage(k, extra) = p BY <1>2, <1>3, <1>9, <2>1 DEF HighPage, StackPages
    <2>3. UserMap(extra)[w] = Empty
      <3>1. CASE k = Radix - 1
        <4>1. w = U1 - 1 /\ ~extra BY <1>1, <1>9, <3>1, UserWords
        <4> QED BY <4>1, UserMapAt
      <3>2. CASE k # Radix - 1
        <4>1. w < U1 - 2 /\ U0 + info.n.ptes <= w BY <1>1, <1>2, <1>3, <1>9, <3>2, UserWords
        <4> QED BY <4>1, UserMapAt, PlainAt
      <3> QED BY <3>1, <3>2
    <2>4. Empty = Entry(p, FALSE) BY <2>1 DEF Empty
    <2>5. Entry(p, p >= 0) = Entry(p, FALSE) BY <2>1, Present
    <2> QED BY <1>1, <2>1, <2>2, <2>3, <2>4, <2>5, Zenon
  <1>10. \/ k < 1 \/ (1 <= k /\ k < info.n.ptes) \/ (info.n.ptes <= k /\ k = Radix - 2)
         \/ (k = Radix - 1 /\ extra)
         \/ (info.n.ptes <= k /\ k # Radix - 2 /\ ~(k = Radix - 1 /\ extra))
    BY <1>2, <1>3
  <1> QED BY <1>5, <1>6, <1>7, <1>8, <1>9, <1>10, Zenon

LEMMA LastEntry ==
    ASSUME LaidOut, Fits, NEW extra \in BOOLEAN, NEW lax \in BOOLEAN, Holds(extra, lax),
           NEW k \in Index
    PROVE  \/ Follow(Entry(UserPte, TRUE), k) =
                  Entry(HighPage(k, extra), HighPage(k, extra) >= 0)
           \/ lax /\ Follow(Entry(UserPte, TRUE), k) = Empty
  <1>1. PICK w \in Int : w = U0 + k /\ U0 <= w /\ w < U4 BY UserWords DEF Index
  <1>2. UserPte \in Nat /\ UserPte * Radix + k = w BY <1>1, UserTables, PageFacts
  <1>3. PICK p \in Int : p = HighPage(k, extra) /\ (p < 0 => p = -1) BY LeafMap
  <1>4. UserMap(extra)[w] = Entry(p, p >= 0) BY <1>1, <1>3, LeafMap
  <1>5. CASE mem[w] = UserMap(extra)[w]
    <2>1. mem[UserPte * Radix + k] = Entry(p, p >= 0) BY <1>2, <1>4, <1>5
    <2>2. CASE p >= 0
      <3>1. mem[UserPte * Radix + k] = Entry(p, TRUE) BY <2>1, <2>2, Present, Zenon
      <3>2. Follow(Entry(UserPte, TRUE), k) = Entry(p, TRUE) BY <1>2, <3>1, FollowTrue, Zenon
      <3>3. Follow(Entry(UserPte, TRUE), k) = Entry(p, p >= 0) BY <2>2, <3>2, Present, Zenon
      <3> QED BY <1>3, <3>3, Zenon
    <2>3. CASE p < 0
      <3>1. mem[UserPte * Radix + k] = Entry(p, FALSE) BY <2>1, <2>3, Present, Zenon
      <3>2. Follow(Entry(UserPte, TRUE), k) = Entry(p, FALSE) BY <1>2, <3>1, FollowFalse, Zenon
      <3>3. Follow(Entry(UserPte, TRUE), k) = Entry(p, p >= 0) BY <2>3, <3>2, Present, Zenon
      <3> QED BY <1>3, <3>3, Zenon
    <2>4. p >= 0 \/ p < 0 OBVIOUS
    <2> QED BY <2>2, <2>3, <2>4, Zenon
  <1>6. CASE lax /\ mem[w] = Empty
    <2>1. mem[UserPte * Radix + k] = Empty BY <1>2, <1>6
    <2> QED BY <1>2, <1>6, <2>1, FollowAbsent, Zenon
  <1> QED BY <1>1, <1>5, <1>6 DEF Holds

\* Every virtual page, not only the ones the program uses.
LEMMA UserWalk ==
    ASSUME LaidOut, Fits, NEW extra \in BOOLEAN, NEW lax \in BOOLEAN, Holds(extra, lax),
           \A w \in Words : K0 <= w /\ w < KernelEnd => mem[w] = KernelMap[w],
           mem[U3] = Entry(KPdpe, FALSE), NEW v \in VirtualPages
    PROVE  \/ Walk(UserPml4, v) = Intended(v, extra)
           \/ lax /\ Walk(UserPml4, v) = Empty
  <1>1. v[1] \in Index /\ v[2] \in Index /\ v[3] \in Index /\ v[4] \in Index
    BY DEF VirtualPages, Index
  <1>2. PICK a, b, c, d : /\ a = Follow(Entry(UserPml4, TRUE), v[1]) /\ b = Follow(a, v[2])
                          /\ c = Follow(b, v[3]) /\ d = Follow(c, v[4])
    OBVIOUS
  <1>3. Walk(UserPml4, v) = d BY <1>2 DEF Walk
  <1>4. a = Empty => b = Empty BY <1>2, FollowEmpty
  <1>5. b = Empty => c = Empty BY <1>2, FollowEmpty
  <1>6. c = Empty => d = Empty BY <1>2, FollowEmpty
  <1>7. Radix \in Nat /\ Radix > 3 /\ Giga \in Nat /\ Giga >= 1 /\ Giga <= Radix BY Constants
  <1>8. ASSUME ~Low(v), ~High(v) PROVE Intended(v, extra) = Empty BY <1>8 DEF Intended
  <1>9. CASE v[1] = 0
    <2>1. CASE v[2] < Giga
      <3>1. Low(v) BY <1>9, <2>1 DEF Low
      <3>2. Walk(UserPml4, v) = Identity(v) BY <3>1, LowWalk
      <3>3. Intended(v, extra) = Identity(v)
        <4>1. ~High(v) BY <1>7, <1>9 DEF High
        <4> QED BY <3>1, <4>1 DEF Intended
      <3> QED BY <3>2, <3>3
    <2>2. CASE ~(v[2] < Giga)
      <3>1. ~Low(v) /\ ~High(v) BY <1>7, <1>9, <2>2 DEF Low, High
      <3>2. a = Entry(KPdpe, FALSE)
        <4>1. UserPml4 * Radix = U3 /\ U3 + 0 = U3 /\ UserPml4 \in Nat
          BY UserTables, PageFacts, Apart
        <4>2. mem[UserPml4 * Radix + 0] = Entry(KPdpe, FALSE) BY <4>1, Zenon
        <4>3. Follow(Entry(UserPml4, TRUE), 0) = Entry(KPdpe, FALSE)
          BY <4>1, <4>2, FollowFalse, Zenon
        <4> QED BY <1>2, <1>9, <4>3
      <3>3. PICK w \in Int : /\ w = K2 + v[2] /\ K2 + Giga <= w /\ w # K3
                             /\ K0 <= w /\ w < KernelEnd
        BY <1>1, <1>7, <2>2, Words0 DEF Index, KernelEnd
      <3>4. w \in Words
        <4>1. w < U4 BY <3>3, Apart
        <4> QED BY <3>3, <4>1, InWords
      <3>5. mem[w] = Empty BY <3>3, <3>4, KernelMapAt
      <3>6. K2 = KPdpe * Radix /\ KPdpe \in Nat BY TableWords, KernelPages
      <3>7. mem[KPdpe * Radix + v[2]] = Empty BY <3>3, <3>5, <3>6
      <3>8. b = Empty BY <1>2, <3>2, <3>6, <3>7, FollowAbsent, Zenon
      <3> QED BY <1>3, <1>5, <1>6, <1>8, <3>1, <3>8, Zenon
    <2> QED BY <2>1, <2>2
  <1>10. CASE v[1] # 0
    <2>1. ~Low(v) BY <1>10 DEF Low
    <2>2. CASE ~High(v)
      <3>1. d = Empty
        <4>1. a \in IF v[1] = Radix - 1
                    THEN IF lax THEN {Entry(UserPdpe, TRUE), Empty} ELSE {Entry(UserPdpe, TRUE)}
                    ELSE {Empty}
          BY <1>1, <1>2, <1>10, TopEntry
        <4>2. a = Empty \/ (v[1] = Radix - 1 /\ a = Entry(UserPdpe, TRUE)) BY <4>1
        <4>3. ASSUME a = Entry(UserPdpe, TRUE)
              PROVE  b = Empty \/ (v[2] = Radix - 1 /\ b = Entry(UserPde, TRUE))
          BY <1>1, <1>2, <4>3, ThirdEntry
        <4>4. ASSUME b = Entry(UserPde, TRUE)
              PROVE  c = Empty \/ (v[3] = 0 /\ c = Entry(UserPte, TRUE))
          BY <1>1, <1>2, <4>4, SecondEntry
        <4> QED BY <1>4, <1>5, <1>6, <2>2, <4>2, <4>3, <4>4, Zenon DEF High
      <3> QED BY <1>3, <1>8, <2>1, <2>2, <3>1
    <2>3. CASE High(v)
      <3>1. v[1] = Radix - 1 /\ v[2] = Radix - 1 /\ v[3] = 0 BY <2>3 DEF High
      <3>2. a = Entry(UserPdpe, TRUE) \/ (lax /\ a = Empty)
        BY <1>1, <1>2, <1>10, <3>1, TopEntry
      <3>3. ASSUME a = Entry(UserPdpe, TRUE)
            PROVE  b = Entry(UserPde, TRUE) \/ (lax /\ b = Empty)
        BY <1>1, <1>2, <3>1, <3>3, ThirdEntry
      <3>4. ASSUME b = Entry(UserPde, TRUE)
            PROVE  c = Entry(UserPte, TRUE) \/ (lax /\ c = Empty)
        BY <1>1, <1>2, <3>1, <3>4, SecondEntry
      <3>5. ASSUME c = Entry(UserPte, TRUE)
            PROVE  \/ d = Entry(HighPage(v[4], extra), HighPage(v[4], extra) >= 0)
                   \/ lax /\ d = Empty
        BY <1>1, <1>2, <3>5, LastEntry
      <3>6. Intended(v, extra) = Entry(HighPage(v[4], extra), HighPage(v[4], extra) >= 0)
        BY <2>1, <2>3 DEF Intended
      <3> QED BY <1>3, <1>4, <1>5, <1>6, <3>2, <3>3, <3>4, <3>5, <3>6, Zenon
    <2> QED BY <2>2, <2>3
  <1> QED BY <1>9, <1>10

LEMMA UserWordsIn == ASSUME LaidOut, NEW w \in Int, U0 <= w, w < U4 PROVE w \in Words
  <1>1. K0 <= w BY Apart
  <1> QED BY <1>1, InWords

\* At every store of a rebuild an address leads where it should or nowhere,
\* if the program fits: whatever its size, the number of its faults and the
\* sizes of the tables.
THEOREM NoStray == Fits /\ Spec => []NoStrayTranslation
  <1>1. TableInv /\ MapInv => NoStrayTranslation
    <2> SUFFICES ASSUME TableInv, MapInv, cr3 >= 0, NEW v \in VirtualPages
                 PROVE  Walk(cr3, v) = Intended(v, TRUE) \/ Walk(cr3, v).page = -1
      BY DEF NoStrayTranslation
    <2>1. cr3 = UserPml4 /\ cr3 # -1 /\ pc \in {"user", "ring3"} BY DEF TableInv, Cr3Inv
    <2>2. LaidOut /\ Fits /\ mem[U3] = Entry(KPdpe, FALSE)
      BY <2>1 DEF TableInv, RootInv, MapInv
    <2>3. PICK t \in BOOLEAN : t = TRUE OBVIOUS
    <2>4. Holds(t, t)
      <3>1. ASSUME NEW w \in Int, U0 <= w, w < U4
            PROVE  mem[w] = UserMap(t)[w] \/ (t /\ mem[w] = Empty)
        BY <2>1, <2>2, <2>3, <3>1, UserWordsIn DEF MapInv
      <3> QED BY <3>1 DEF Holds
    <2>5. Walk(UserPml4, v) = Intended(v, t) \/ Walk(UserPml4, v) = Empty
      BY <2>1, <2>2, <2>4, KernelNow, UserWalk
    <2>6. Empty.page = -1 BY DEF Empty, Entry
    <2> QED BY <2>1, <2>3, <2>5, <2>6
  <1> QED BY <1>1, MapInvariance, PTL

\* When the program runs, the whole address space is the one meant, if the
\* program fits.
THEOREM WholeSpace == Fits /\ Spec => []AddressSpaceExact
  <1>1. TableInv /\ MapInv => AddressSpaceExact
    <2> SUFFICES ASSUME TableInv, MapInv, pc = "ring3", NEW v \in VirtualPages
                 PROVE  Walk(cr3, v) = Intended(v, faults > 0)
      BY DEF AddressSpaceExact
    <2>1. cr3 = UserPml4 /\ cr3 # -1 /\ todo = <<>>
      <3>1. cr3 = UserPml4 /\ todo = <<>> BY DEF TableInv, Cr3Inv, TodoInv
      <3>2. UserPml4 \in Nat BY PageFacts DEF TableInv
      <3> QED BY <3>1, <3>2
    <2>2. LaidOut /\ Fits /\ mem[U3] = Entry(KPdpe, FALSE)
      BY <2>1 DEF TableInv, RootInv, MapInv
    <2>3. PICK x \in BOOLEAN, f \in BOOLEAN : x = redef /\ f = FALSE BY DEF TableInv
    <2>4. Holds(x, f)
      <3>1. ASSUME NEW w \in Int, U0 <= w, w < U4 PROVE mem[w] = UserMap(x)[w]
        <4>1. Due(w, UserMap(redef)[w]) BY <2>2, <3>1, UserWordsIn DEF MapInv
        <4> QED BY <2>1, <2>3, <4>1, NothingPending
      <3> QED BY <3>1 DEF Holds
    <2>5. Walk(UserPml4, v) = Intended(v, x)
      BY <2>2, <2>3, <2>4, KernelNow, UserWalk
    <2>6. x = (faults > 0)
      <3>1. x <=> faults > 0 BY <2>3 DEF MapInv
      <3>2. faults \in Int
        <4>1. faults \in 0..MaxFaults BY DEF TableInv
        <4> QED BY <4>1
      <3> QED BY <3>1, <3>2, SMT
    <2> QED BY <2>1, <2>5, <2>6, Zenon
  <1> QED BY <1>1, MapInvariance, PTL

=============================================================================
