----------------------------- MODULE HeapProofs -----------------------------
(***************************************************************************)
(* Proofs about Heap, for every heap, alignment, size of the header and    *)
(* number of clients.  First arithmetic; then what splitting, merging,     *)
(* allocating and freeing do to a list of blocks that tiles the heap and   *)
(* to the set of the blocks in use; then what the clients hold, for which  *)
(* only the set of the blocks in use matters; then the invariant of the    *)
(* whole, what it says, and the refinement.                                *)
(***************************************************************************)
EXTENDS Heap, ListLemmas, FiniteSetTheorems

(* Quotient and remainder make up the number. *)
LEMMA DivMod ==
    ASSUME NEW a \in Nat \ {0}, NEW x \in Int
    PROVE  /\ x \div a \in Int
           /\ x % a \in 0..(a - 1)
           /\ x = a * (x \div a) + (x % a)
OBVIOUS

(* A multiple has no remainder. *)
LEMMA MultipleAligned ==
    ASSUME NEW a \in Nat \ {0}, NEW q \in Int
    PROVE  (a * q) % a = 0
<1> DEFINE p == (a * q) \div a
           r == (a * q) % a
           d == q - p
<1>1. a * q \in Int
    OBVIOUS
<1>2. p \in Int /\ r \in 0..(a - 1) /\ a * q = a * p + r
    BY <1>1, DivMod
<1> HIDE DEF p, r
<1>3. d \in Int /\ a * d = r
    BY <1>2
<1> HIDE DEF d
<1>4. ~(d >= 1)
    <2> SUFFICES ASSUME d >= 1 PROVE FALSE
        OBVIOUS
    <2>1. a * d >= a
        BY <1>3
    <2> QED BY <2>1, <1>2, <1>3
<1>5. ~(d <= -1)
    <2> SUFFICES ASSUME d <= -1 PROVE FALSE
        OBVIOUS
    <2>1. a * d <= -a
        BY <1>3
    <2> QED BY <2>1, <1>2, <1>3
<1>6. d = 0
    BY <1>3, <1>4, <1>5
<1>7. r = 0
    BY <1>3, <1>6
<1> QED BY <1>7 DEF r

(* Aligned numbers are closed under sum and difference, and two of them    *)
(* are at least the alignment apart.                                       *)
LEMMA AlignedSums ==
    ASSUME NEW a \in Nat \ {0}, NEW x \in Int, NEW y \in Int, x % a = 0, y % a = 0
    PROVE  /\ (x + y) % a = 0
           /\ (x - y) % a = 0
           /\ x < y => x + a <= y
<1> DEFINE p == x \div a
           q == y \div a
<1>1. p \in Int /\ q \in Int /\ x = a * p /\ y = a * q
    BY DivMod
<1> HIDE DEF p, q
<1>2. x + y = a * (p + q) /\ x - y = a * (p - q) /\ p + q \in Int /\ p - q \in Int
    BY <1>1
<1>3. (x + y) % a = 0 /\ (x - y) % a = 0
    BY <1>2, MultipleAligned
<1>4. ASSUME x < y PROVE x + a <= y
    <2>0. q > p
        <3> SUFFICES ASSUME q <= p PROVE FALSE
            BY <1>1
        <3>1. a * q <= a * p
            BY <1>1
        <3> QED BY <3>1, <1>1, <1>4
    <2>1. q - p >= 1 /\ q - p \in Int
        BY <2>0, <1>1
    <2>2. a * (q - p) >= a
        BY <2>1
    <2>3. a * (q - p) = y - x
        BY <1>1
    <2> QED BY <2>2, <2>3
<1> QED BY <1>3, <1>4

(* align_down gives the multiple of HEAP_ALIGN below. *)
LEMMA AlignDown ==
    ASSUME NEW x \in Nat
    PROVE  /\ align_down(x) \in Nat
           /\ align_down(x) % HEAP_ALIGN = 0
           /\ align_down(x) <= x
           /\ x < align_down(x) + HEAP_ALIGN
<1>1. HEAP_ALIGN \in Nat \ {0}
    BY HeapAssumption
<1> DEFINE q == x \div HEAP_ALIGN
<1>2. q \in Int /\ x % HEAP_ALIGN \in 0..(HEAP_ALIGN - 1) /\ x = HEAP_ALIGN * q + (x % HEAP_ALIGN)
    BY <1>1, DivMod
<1>3. align_down(x) = HEAP_ALIGN * q
    BY <1>1, <1>2 DEF align_down
<1>4. align_down(x) % HEAP_ALIGN = 0
    BY <1>1, <1>2, <1>3, MultipleAligned
<1>5. q >= 0
    <2> SUFFICES ASSUME q <= -1 PROVE FALSE
        BY <1>2
    <2>1. HEAP_ALIGN * q <= -HEAP_ALIGN
        BY <1>1, <1>2
    <2> QED BY <2>1, <1>1, <1>2
<1>6. HEAP_ALIGN * q \in Nat
    BY <1>1, <1>2, <1>5
<1> QED BY <1>1, <1>2, <1>3, <1>4, <1>6

(* What align_size returns: aligned, below the last size, and not less     *)
(* than asked for unless it wraps; an aligned size stays as it is.         *)
LEMMA AlignSize ==
    ASSUME NEW size \in 0..SizeMax
    PROVE  /\ align_size(size) \in 0..SizeMax
           /\ align_size(size) % HEAP_ALIGN = 0
           /\ ~Wraps(size) => align_size(size) >= size
           /\ align_size(align_size(size)) = align_size(size)
<1> DEFINE H == HEAP_ALIGN
           M == SizeMax + 1
           z == align_size(size)
           u == (size + H - 1) % M
<1>1. H \in Nat \ {0} /\ M \in Nat \ {0} /\ M % H = 0 /\ SizeMax \in Nat
    BY HeapAssumption
<1> HIDE DEF H, M
<1>2. u \in 0..(M - 1)
    BY <1>1, DivMod
<1>2a. M = SizeMax + 1
    BY DEF M
<1>3. u \in Nat /\ u <= SizeMax
    BY <1>1, <1>2, <1>2a
<1>4. z = align_down(u)
    BY DEF align_size, H, M
<1>5. z \in Nat /\ z % H = 0 /\ z <= u
    BY <1>3, <1>4, AlignDown DEF H
<1>6. z \in 0..SizeMax
    BY <1>5, <1>3, <1>1
<1>7. ~Wraps(size) => z >= size
    BY <1>6 DEF Wraps
<1> HIDE DEF z, u
<1>8. z + H <= M
    <2>1. z < M /\ z \in Int /\ M \in Int
        BY <1>1, <1>2a, <1>6
    <2> QED BY <1>1, <1>5, <2>1, AlignedSums
<1>9. z + H - 1 \in 0..SizeMax /\ (z + H - 1) % M = z + H - 1
    <2>1. z + H - 1 \in 0..SizeMax
        BY <1>8, <1>1, <1>2a, <1>6
    <2> QED BY <2>1, <1>1, <1>2a
<1> DEFINE w == align_down(z + H - 1)
<1>10. align_size(z) = w
    BY <1>9 DEF align_size, H, M
<1>11. w \in Nat /\ w % H = 0 /\ w <= z + H - 1 /\ z + H - 1 < w + H
    BY <1>9, AlignDown DEF H
<1> HIDE DEF w
<1>12. w >= z
    BY <1>1, <1>5, <1>11
<1>13. ~(z < w)
    <2> SUFFICES ASSUME z < w PROVE FALSE
        OBVIOUS
    <2>1. z + H <= w
        BY <1>1, <1>5, <1>11, AlignedSums
    <2> QED BY <2>1, <1>1, <1>5, <1>11
<1>14. w = z
    BY <1>12, <1>13, <1>5, <1>11
<1> QED BY <1>5, <1>6, <1>7, <1>10, <1>14 DEF z, H

(* The bounds of the heap. *)
LEMMA Bounds ==
    /\ heap_start_addr \in Nat /\ heap_start_addr % HEAP_ALIGN = 0
    /\ heap_end_addr \in Nat /\ heap_end_addr % HEAP_ALIGN = 0
<1>1. heap_end \in Nat /\ heap_start + HEAP_ALIGN - 1 \in Nat
    BY HeapAssumption
<1> QED BY <1>1, AlignDown DEF heap_start_addr, heap_end_addr, align_up

(* The blocks of a heap: each starts where the one before ends, from the   *)
(* first address to the last.  That later blocks lie behind earlier ones   *)
(* is stated as well: it follows only by induction.                        *)
Ordered(bs) == \A i, j \in DOMAIN bs : i < j => End(bs[i]) <= bs[j].addr

Chain(bs) ==
    /\ bs # <<>> => bs[1].addr = heap_start_addr /\ End(bs[Len(bs)]) = heap_end_addr
    /\ \A i \in 1..(Len(bs) - 1) : End(bs[i]) = bs[i + 1].addr

Aligned(b) == b.addr % HEAP_ALIGN = 0 /\ b.size % HEAP_ALIGN = 0

Tiles(bs) ==
    /\ bs \in Seq(Block)
    /\ Chain(bs)
    /\ Ordered(bs)
    /\ \A i \in DOMAIN bs : Aligned(bs[i])

(* The blocks in use. *)
Used(bs) == {b \in ToSet(bs) : ~b.free}

(* No two free blocks side by side. *)
Merged(bs) == \A i \in 1..(Len(bs) - 1) : ~(bs[i].free /\ bs[i + 1].free)

(* r is bs with block i replaced by x, by x and y, and with blocks i and   *)
(* i + 1 replaced by x.                                                    *)
Put(bs, r, i, x) ==
    /\ Len(r) = Len(bs)
    /\ \A j \in 1..Len(bs) : /\ j # i => r[j] = bs[j]
                             /\ j = i => r[j] = x

Cut(bs, r, i, x, y) ==
    /\ Len(r) = Len(bs) + 1
    /\ \A j \in 1..(Len(bs) + 1) : /\ j < i => r[j] = bs[j]
                                   /\ j = i => r[j] = x
                                   /\ j = i + 1 => r[j] = y
                                   /\ j > i + 1 => r[j] = bs[j - 1]

Join(bs, r, i, x) ==
    /\ Len(r) = Len(bs) - 1
    /\ \A j \in 1..(Len(bs) - 1) : /\ j < i => r[j] = bs[j]
                                   /\ j = i => r[j] = x
                                   /\ j > i => r[j] = bs[j + 1]

(* What is in use afterwards when block i became x. *)
UsedPut(bs, r, i, x) == Used(r) = (Used(bs) \ {bs[i]}) \cup {b \in {x} : ~b.free}

-----------------------------------------------------------------------------
(* The fields of a block are numbers. *)
LEMMA BlockFacts ==
    ASSUME NEW b \in Block
    PROVE  /\ b.addr \in Nat /\ b.size \in Nat /\ b.free \in BOOLEAN
           /\ Data(b) \in Nat /\ End(b) \in Nat
           /\ End(b) = b.addr + Header + b.size
           /\ Data(b) = b.addr + Header
           /\ b.addr < End(b)
           /\ Header \in Nat /\ Header > 0
BY HeapAssumption DEF Block, Data, End

(* Elements of the list. *)
LEMMA TileFacts ==
    ASSUME NEW bs, Tiles(bs)
    PROVE  /\ bs \in Seq(Block)
           /\ Len(bs) \in Nat
           /\ DOMAIN bs = 1..Len(bs)
           /\ \A i \in 1..Len(bs) : bs[i] \in Block
BY DEF Tiles

(* Two blocks of the list have different addresses. *)
LEMMA AddressesDiffer ==
    ASSUME NEW bs, Tiles(bs), NEW i \in 1..Len(bs), NEW j \in 1..Len(bs),
           bs[i].addr = bs[j].addr
    PROVE  i = j
<1>1. bs[i] \in Block /\ bs[j] \in Block /\ Len(bs) \in Nat
    BY TileFacts
<1>2. /\ bs[i].addr \in Nat /\ bs[j].addr \in Nat
      /\ End(bs[i]) > bs[i].addr /\ End(bs[j]) > bs[j].addr
      /\ End(bs[i]) \in Nat /\ End(bs[j]) \in Nat
    <2>1. ASSUME NEW b \in Block PROVE b.addr \in Nat /\ End(b) > b.addr /\ End(b) \in Nat
        BY BlockFacts
    <2> QED BY <2>1, <1>1
<1>3. ASSUME i < j PROVE FALSE
    <2>1. End(bs[i]) <= bs[j].addr
        BY <1>3, TileFacts DEF Tiles, Ordered
    <2> QED BY <2>1, <1>2
<1>4. ASSUME j < i PROVE FALSE
    <2>1. End(bs[j]) <= bs[i].addr
        BY <1>4, TileFacts DEF Tiles, Ordered
    <2> QED BY <2>1, <1>2
<1> QED BY <1>1, <1>3, <1>4

(* Membership in the list and among the blocks in use. *)
LEMMA UsedFacts ==
    ASSUME NEW bs, bs \in Seq(Block), NEW b
    PROVE  b \in Used(bs) <=> ~b.free /\ \E j \in 1..Len(bs) : bs[j] = b
<1>1. DOMAIN bs = 1..Len(bs)
    OBVIOUS
<1> QED BY <1>1, Zenon DEF Used, ToSet

(* A sequence of blocks that starts with the first address, ends with the  *)
(* last and has no gap or overlap tiles the heap.                          *)
LEMMA MakeTiles ==
    ASSUME NEW r \in Seq(Block), r # <<>>,
           r[1].addr = heap_start_addr, End(r[Len(r)]) = heap_end_addr,
           \A i \in 1..(Len(r) - 1) : End(r[i]) = r[i + 1].addr,
           \A i, j \in 1..Len(r) : i < j => End(r[i]) <= r[j].addr,
           \A i \in 1..Len(r) : Aligned(r[i])
    PROVE  Tiles(r)
<1>1. DOMAIN r = 1..Len(r)
    OBVIOUS
<1>2. Chain(r)
    BY DEF Chain
<1>3. Ordered(r)
    BY <1>1, Zenon DEF Ordered
<1> QED BY <1>1, <1>2, <1>3, Zenon DEF Tiles

(* What the tiling says about the blocks of bs, with their ends named. *)
LEMMA ChainFacts ==
    ASSUME NEW bs, Tiles(bs), Len(bs) > 0
    PROVE  /\ bs # <<>>
           /\ bs[1].addr = heap_start_addr
           /\ End(bs[Len(bs)]) = heap_end_addr
           /\ \A i \in 1..(Len(bs) - 1) : End(bs[i]) = bs[i + 1].addr
           /\ \A i, j \in 1..Len(bs) : i < j => End(bs[i]) <= bs[j].addr
           /\ \A i \in 1..Len(bs) : Aligned(bs[i])
           /\ \A i \in 1..Len(bs) : bs[i].addr \in Nat /\ End(bs[i]) \in Nat
           /\ \A i \in 1..Len(bs) : bs[i].addr < End(bs[i])
<1>1. DOMAIN bs = 1..Len(bs) /\ bs # <<>>
    BY TileFacts
<1>2. \A i \in 1..Len(bs) : bs[i] \in Block
    BY TileFacts
<1>3. ASSUME NEW b \in Block PROVE b.addr \in Nat /\ End(b) \in Nat /\ b.addr < End(b)
    BY BlockFacts
<1>4. Ordered(bs) /\ Chain(bs) /\ \A i \in DOMAIN bs : Aligned(bs[i])
    BY DEF Tiles
<1> QED BY <1>1, <1>2, <1>3, <1>4 DEF Ordered, Chain

(* Replacing a block by one at the same place. *)
LEMMA PutTiles ==
    ASSUME NEW bs, Tiles(bs), NEW i \in 1..Len(bs), NEW x \in Block, NEW r \in Seq(Block),
           Put(bs, r, i, x), x.addr = bs[i].addr, End(x) = End(bs[i]), Aligned(x)
    PROVE  Tiles(r)
<1> DEFINE n == Len(bs)
<1>1. n \in Nat /\ n > 0
    BY TileFacts
<1>2. /\ bs[1].addr = heap_start_addr
      /\ End(bs[n]) = heap_end_addr
      /\ \A j \in 1..(n - 1) : End(bs[j]) = bs[j + 1].addr
      /\ \A j, l \in 1..n : j < l => End(bs[j]) <= bs[l].addr
      /\ \A j \in 1..n : Aligned(bs[j])
    BY <1>1, ChainFacts
<1>3. Len(r) = n /\ r # <<>>
    BY <1>1 DEF Put
<1>4. ASSUME NEW j \in 1..n
      PROVE  r[j].addr = bs[j].addr /\ End(r[j]) = End(bs[j]) /\ Aligned(r[j])
    BY <1>2 DEF Put
<1> HIDE DEF n
<1>5. \A j \in 1..(n - 1) : j \in 1..n /\ j + 1 \in 1..n
    BY <1>1
<1>6. \A j \in 1..(n - 1) : End(r[j]) = r[j + 1].addr
    BY <1>2, <1>4, <1>5
<1>7. \A j, l \in 1..n : j < l => End(r[j]) <= r[l].addr
    BY <1>2, <1>4
<1>8. r[1].addr = heap_start_addr /\ End(r[n]) = heap_end_addr
    BY <1>1, <1>2, <1>4
<1> QED BY <1>3, <1>4, <1>6, <1>7, <1>8, MakeTiles

(* Cutting a block in two. *)
LEMMA CutTiles ==
    ASSUME NEW bs, Tiles(bs), NEW i \in 1..Len(bs), NEW x \in Block, NEW y \in Block,
           NEW r \in Seq(Block), Cut(bs, r, i, x, y),
           x.addr = bs[i].addr, End(x) = y.addr, End(y) = End(bs[i]),
           Aligned(x), Aligned(y)
    PROVE  Tiles(r)
<1> DEFINE n == Len(bs)
<1>1. n \in Nat /\ n > 0 /\ i \in 1..n
    BY TileFacts
<1>2. /\ bs[1].addr = heap_start_addr
      /\ End(bs[n]) = heap_end_addr
      /\ \A j \in 1..(n - 1) : End(bs[j]) = bs[j + 1].addr
      /\ \A j, l \in 1..n : j < l => End(bs[j]) <= bs[l].addr
      /\ \A j \in 1..n : Aligned(bs[j])
      /\ \A j \in 1..n : bs[j].addr \in Nat /\ End(bs[j]) \in Nat
    BY <1>1, ChainFacts
<1>3. /\ Len(r) = n + 1
      /\ r # <<>>
      /\ \A j \in 1..(n + 1) : /\ j < i => r[j] = bs[j]
                               /\ j = i => r[j] = x
                               /\ j = i + 1 => r[j] = y
                               /\ j > i + 1 => r[j] = bs[j - 1]
    BY <1>1 DEF Cut
<1>4. /\ x.addr \in Nat /\ End(x) \in Nat /\ y.addr \in Nat /\ End(y) \in Nat
      /\ x.addr < End(x) /\ y.addr < End(y)
    <2>1. ASSUME NEW b \in Block PROVE b.addr \in Nat /\ End(b) \in Nat /\ b.addr < End(b)
        BY BlockFacts, Zenon
    <2>2. x.addr \in Nat /\ End(x) \in Nat /\ x.addr < End(x)
        BY <2>1, Zenon
    <2>3. y.addr \in Nat /\ End(y) \in Nat /\ y.addr < End(y)
        BY <2>1, Zenon
    <2> QED BY <2>2, <2>3, Zenon
<1> HIDE DEF n
<1>5. ASSUME NEW j \in 1..n PROVE End(r[j]) = r[j + 1].addr
    <2>1. CASE j < i - 1
        <3>1. r[j] = bs[j] /\ r[j + 1] = bs[j + 1] /\ j \in 1..(n - 1)
            BY <1>1, <1>3, <2>1
        <3> QED BY <1>2, <3>1
    <2>2. CASE j = i - 1
        <3>1. r[j] = bs[j] /\ r[j + 1] = x /\ j \in 1..(n - 1) /\ j + 1 = i
            BY <1>1, <1>3, <2>2
        <3> QED BY <1>2, <3>1
    <2>3. CASE j = i
        <3>1. r[j] = x /\ r[j + 1] = y
            BY <1>1, <1>3, <2>3
        <3> QED BY <3>1
    <2>4. CASE j = i + 1
        <3>1. r[j] = y /\ r[j + 1] = bs[i + 1] /\ i \in 1..(n - 1)
            BY <1>1, <1>3, <2>4
        <3> QED BY <1>2, <3>1
    <2>5. CASE j > i + 1
        <3>1. r[j] = bs[j - 1] /\ r[j + 1] = bs[j] /\ j - 1 \in 1..(n - 1) /\ (j - 1) + 1 = j
            BY <1>1, <1>3, <2>5
        <3>2. End(bs[j - 1]) = bs[(j - 1) + 1].addr
            BY <1>2, <3>1
        <3> QED BY <3>1, <3>2
    <2> QED BY <1>1, <2>1, <2>2, <2>3, <2>4, <2>5
<1>6. ASSUME NEW j \in 1..(n + 1), NEW l \in 1..(n + 1), j < l
      PROVE  End(r[j]) <= r[l].addr
    <2> DEFINE u == IF j <= i THEN j ELSE j - 1
               v == IF l <= i THEN l ELSE l - 1
    <2>1. u \in 1..n /\ v \in 1..n /\ u <= v
        BY <1>1, <1>6
    <2>2. End(r[j]) <= End(bs[u]) /\ End(r[j]) \in Nat
        <3>1. CASE j < i
            <4>1. r[j] = bs[j] /\ u = j
                BY <1>1, <1>3, <3>1
            <4>2. End(bs[j]) \in Nat
                BY <1>2, <2>1, <4>1
            <4> QED BY <4>1, <4>2
        <3>2. CASE j = i
            BY <1>1, <1>2, <1>3, <1>4, <3>2
        <3>3. CASE j = i + 1
            BY <1>1, <1>2, <1>3, <1>4, <3>3
        <3>4. CASE j > i + 1
            <4>1. r[j] = bs[j - 1] /\ u = j - 1
                BY <1>1, <1>3, <3>4
            <4> QED BY <1>2, <2>1, <4>1
        <3> QED BY <1>1, <3>1, <3>2, <3>3, <3>4
    <2>3. r[l].addr >= bs[v].addr /\ r[l].addr \in Nat
        <3>1. CASE l < i
            <4>1. r[l] = bs[l] /\ v = l
                BY <1>1, <1>3, <3>1
            <4>2. bs[l].addr \in Nat
                BY <1>2, <2>1, <4>1
            <4> QED BY <4>1, <4>2
        <3>2. CASE l = i
            BY <1>1, <1>2, <1>3, <1>4, <3>2
        <3>3. CASE l = i + 1
            <4>1. r[l] = y /\ v = i
                BY <1>1, <1>3, <3>3
            <4>2. bs[i].addr \in Nat
                BY <1>1, <1>2
            <4> QED BY <1>4, <4>1, <4>2
        <3>4. CASE l > i + 1
            <4>1. r[l] = bs[l - 1] /\ v = l - 1
                BY <1>1, <1>3, <3>4
            <4> QED BY <1>2, <2>1, <4>1
        <3> QED BY <1>1, <3>1, <3>2, <3>3, <3>4
    <2>4. CASE u < v
        <3>1. End(bs[u]) <= bs[v].addr
            BY <1>2, <2>1, <2>4
        <3>2. End(bs[u]) \in Nat /\ bs[v].addr \in Nat
            BY <1>2, <2>1
        <3> HIDE DEF u, v
        <3> QED BY <2>2, <2>3, <3>1, <3>2
    <2>5. CASE u = v
        <3>1. j = i /\ l = i + 1
            BY <1>1, <1>6, <2>5
        <3>2. r[j] = x /\ r[l] = y
            BY <1>1, <1>3, <3>1
        <3> QED BY <3>2, <1>4
    <2> HIDE DEF u, v
    <2> QED BY <2>1, <2>4, <2>5
<1>7. ASSUME NEW j \in 1..(n + 1) PROVE Aligned(r[j])
    <2>1. CASE j <= i + 1
        <3>1. CASE j < i
            <4>1. r[j] = bs[j] /\ j \in 1..n
                BY <1>1, <1>3, <3>1
            <4> QED BY <1>2, <4>1
        <3>2. r[i] = x /\ r[i + 1] = y
            BY <1>1, <1>3
        <3> QED BY <1>1, <2>1, <3>1, <3>2
    <2>2. CASE j > i + 1
        <3>1. r[j] = bs[j - 1] /\ j - 1 \in 1..n
            BY <1>1, <1>3, <2>2
        <3> QED BY <1>2, <3>1
    <2> QED BY <1>1, <2>1, <2>2
<1>8. r[1].addr = heap_start_addr
    <2>1. CASE i = 1
        <3>1. r[1] = x
            BY <1>1, <1>3, <2>1
        <3> QED BY <1>2, <2>1, <3>1
    <2>2. CASE i > 1
        <3>1. r[1] = bs[1]
            BY <1>1, <1>3, <2>2
        <3> QED BY <1>2, <3>1
    <2> QED BY <1>1, <2>1, <2>2
<1>9. End(r[n + 1]) = heap_end_addr
    <2>1. CASE i = n
        BY <1>1, <1>2, <1>3, <2>1
    <2>2. CASE i < n
        <3>1. r[n + 1] = bs[(n + 1) - 1] /\ (n + 1) - 1 = n
            BY <1>1, <1>3, <2>2
        <3> QED BY <1>2, <3>1
    <2> QED BY <1>1, <2>1, <2>2
<1>10. Len(r) - 1 = n
    BY <1>1, <1>3
<1> QED BY <1>3, <1>5, <1>6, <1>7, <1>8, <1>9, <1>10, MakeTiles

(* Joining two blocks. *)
LEMMA JoinTiles ==
    ASSUME NEW bs, Tiles(bs), NEW i \in 1..(Len(bs) - 1), NEW x \in Block,
           NEW r \in Seq(Block), Join(bs, r, i, x),
           x.addr = bs[i].addr, End(x) = End(bs[i + 1]), Aligned(x)
    PROVE  Tiles(r)
<1> DEFINE n == Len(bs)
<1>1. n \in Nat /\ n > 1 /\ i \in 1..(n - 1)
    BY TileFacts
<1>2. /\ bs[1].addr = heap_start_addr
      /\ End(bs[n]) = heap_end_addr
      /\ \A j \in 1..(n - 1) : End(bs[j]) = bs[j + 1].addr
      /\ \A j, l \in 1..n : j < l => End(bs[j]) <= bs[l].addr
      /\ \A j \in 1..n : Aligned(bs[j])
      /\ \A j \in 1..n : bs[j].addr \in Nat /\ End(bs[j]) \in Nat
    BY <1>1, ChainFacts
<1>3. /\ Len(r) = n - 1
      /\ r # <<>>
      /\ \A j \in 1..(n - 1) : /\ j < i => r[j] = bs[j]
                               /\ j = i => r[j] = x
                               /\ j > i => r[j] = bs[j + 1]
    BY <1>1 DEF Join
<1> HIDE DEF n
<1>5. ASSUME NEW j \in 1..(n - 2) PROVE End(r[j]) = r[j + 1].addr
    <2>1. CASE j < i - 1
        <3>1. r[j] = bs[j] /\ r[j + 1] = bs[j + 1] /\ j \in 1..(n - 1)
            BY <1>1, <1>3, <2>1
        <3> QED BY <1>2, <3>1
    <2>2. CASE j = i - 1
        <3>1. r[j] = bs[j] /\ r[j + 1] = x /\ j \in 1..(n - 1) /\ j + 1 = i
            BY <1>1, <1>3, <2>2
        <3> QED BY <1>2, <3>1
    <2>3. CASE j >= i
        <3>1. r[j + 1] = bs[(j + 1) + 1] /\ j + 1 \in 1..(n - 1) /\ End(r[j]) = End(bs[j + 1])
            BY <1>1, <1>3, <2>3
        <3> QED BY <1>2, <3>1
    <2> QED BY <1>1, <2>1, <2>2, <2>3
<1>6. ASSUME NEW j \in 1..(n - 1), NEW l \in 1..(n - 1), j < l
      PROVE  End(r[j]) <= r[l].addr
    <2> DEFINE u == IF j < i THEN j ELSE j + 1
               v == IF l <= i THEN l ELSE l + 1
    <2>1. u \in 1..n /\ v \in 1..n /\ u < v
        BY <1>1, <1>6
    <2>2. End(r[j]) = End(bs[u])
        BY <1>1, <1>3
    <2>3. r[l].addr = bs[v].addr
        BY <1>1, <1>3
    <2> HIDE DEF u, v
    <2> QED BY <1>2, <2>1, <2>2, <2>3
<1>7. ASSUME NEW j \in 1..(n - 1) PROVE Aligned(r[j])
    <2>1. CASE j <= i
        <3>1. CASE j < i
            <4>1. r[j] = bs[j] /\ j \in 1..n
                BY <1>1, <1>3, <3>1
            <4> QED BY <1>2, <4>1
        <3>2. r[i] = x
            BY <1>1, <1>3
        <3> QED BY <1>1, <2>1, <3>1, <3>2
    <2>2. CASE j > i
        <3>1. r[j] = bs[j + 1] /\ j + 1 \in 1..n
            BY <1>1, <1>3, <2>2
        <3> QED BY <1>2, <3>1
    <2> QED BY <1>1, <2>1, <2>2
<1>8. r[1].addr = heap_start_addr
    <2>1. CASE i = 1
        BY <1>1, <1>2, <1>3, <2>1
    <2>2. CASE i > 1
        <3>1. r[1] = bs[1]
            BY <1>1, <1>3, <2>2
        <3> QED BY <1>2, <3>1
    <2> QED BY <1>1, <2>1, <2>2
<1>9. End(r[n - 1]) = heap_end_addr
    <2>1. CASE i = n - 1
        BY <1>1, <1>2, <1>3, <2>1
    <2>2. CASE i < n - 1
        <3>1. r[n - 1] = bs[(n - 1) + 1] /\ (n - 1) + 1 = n
            BY <1>1, <1>3, <2>2
        <3> QED BY <1>2, <3>1
    <2> QED BY <1>1, <2>1, <2>2
<1>10. Len(r) - 1 = n - 2
    BY <1>1, <1>3
<1> QED BY <1>3, <1>5, <1>6, <1>7, <1>8, <1>9, <1>10, MakeTiles

(* The other blocks in use stay when one block becomes another; the list   *)
(* r holds x, the blocks of bs except the i-th and perhaps free ones.      *)
LEMMA OthersStay ==
    ASSUME NEW bs, Tiles(bs), NEW i \in 1..Len(bs), NEW x, NEW r \in Seq(Block),
           \E j \in 1..Len(r) : r[j] = x,
           \A j \in 1..Len(r) :
              \/ r[j] = x
              \/ r[j].free
              \/ \E l \in 1..Len(bs) : l # i /\ r[j] = bs[l],
           \A l \in 1..Len(bs) :
              l = i \/ bs[l].free \/ \E j \in 1..Len(r) : r[j] = bs[l]
    PROVE  UsedPut(bs, r, i, x)
<1>1. bs \in Seq(Block)
    BY DEF Tiles
<1>2. ASSUME NEW l \in 1..Len(bs), l # i PROVE bs[l] # bs[i]
    BY <1>2, AddressesDiffer
<1>3. ASSUME NEW b PROVE b \in Used(r) <=> b \in (Used(bs) \ {bs[i]}) \cup {c \in {x} : ~c.free}
    <2>1. ASSUME b \in Used(r) PROVE b \in (Used(bs) \ {bs[i]}) \cup {c \in {x} : ~c.free}
        <3>1. ~b.free /\ \E j \in 1..Len(r) : r[j] = b
            BY <2>1, UsedFacts
        <3>2. PICK j \in 1..Len(r) : r[j] = b
            BY <3>1
        <3>3. CASE b = x
            BY <3>1, <3>3
        <3>4. CASE b # x
            <4>1. PICK l \in 1..Len(bs) : l # i /\ b = bs[l]
                BY <3>1, <3>2, <3>4
            <4>2. b \in Used(bs)
                BY <1>1, <3>1, <4>1, UsedFacts
            <4> QED BY <4>1, <4>2, <1>2
        <3> QED BY <3>3, <3>4
    <2>2. ASSUME b \in Used(bs), b # bs[i] PROVE b \in Used(r)
        <3>1. ~b.free /\ \E l \in 1..Len(bs) : bs[l] = b
            BY <1>1, <2>2, UsedFacts
        <3>2. PICK l \in 1..Len(bs) : bs[l] = b
            BY <3>1
        <3>3. \E j \in 1..Len(r) : r[j] = b
            BY <2>2, <3>1, <3>2
        <3> QED BY <3>1, <3>3, UsedFacts
    <2>3. ASSUME b = x, ~b.free PROVE b \in Used(r)
        BY <2>3, UsedFacts
    <2> QED BY <2>1, <2>2, <2>3
<1> QED BY <1>3 DEF UsedPut

(* Replacing a block changes no other. *)
LEMMA PutUsed ==
    ASSUME NEW bs, Tiles(bs), NEW i \in 1..Len(bs), NEW x, NEW r \in Seq(Block),
           Put(bs, r, i, x)
    PROVE  UsedPut(bs, r, i, x)
<1>1. Len(r) = Len(bs) /\ r[i] = x /\ \A j \in 1..Len(bs) : j # i => r[j] = bs[j]
    BY DEF Put
<1>2. \E j \in 1..Len(r) : r[j] = x
    BY <1>1
<1>3. \A j \in 1..Len(r) : r[j] = x \/ r[j].free \/ \E l \in 1..Len(bs) : l # i /\ r[j] = bs[l]
    BY <1>1
<1>4. \A l \in 1..Len(bs) : l = i \/ bs[l].free \/ \E j \in 1..Len(r) : r[j] = bs[l]
    BY <1>1
<1> QED BY <1>2, <1>3, <1>4, OthersStay

(* Cutting off a free block changes no other. *)
LEMMA CutUsed ==
    ASSUME NEW bs, Tiles(bs), NEW i \in 1..Len(bs), NEW x, NEW y, NEW r \in Seq(Block),
           Cut(bs, r, i, x, y), y.free
    PROVE  UsedPut(bs, r, i, x)
<1> DEFINE n == Len(bs)
<1>0. n \in Nat
    BY TileFacts
<1>1. /\ Len(r) = n + 1
      /\ \A j \in 1..(n + 1) : /\ j < i => r[j] = bs[j]
                               /\ j = i => r[j] = x
                               /\ j = i + 1 => r[j] = y
                               /\ j > i + 1 => r[j] = bs[j - 1]
    BY DEF Cut
<1> HIDE DEF n
<1>2. \E j \in 1..(n + 1) : r[j] = x
    BY <1>0, <1>1 DEF n
<1>3. ASSUME NEW j \in 1..(n + 1)
      PROVE  r[j] = x \/ r[j].free \/ \E l \in 1..n : l # i /\ r[j] = bs[l]
    <2>1. CASE j < i
        <3>1. r[j] = bs[j] /\ j \in 1..n /\ j # i
            BY <1>0, <1>1, <2>1 DEF n
        <3> QED BY <3>1
    <2>2. CASE j = i \/ j = i + 1
        BY <1>1, <2>2
    <2>3. CASE j > i + 1
        <3>1. r[j] = bs[j - 1] /\ j - 1 \in 1..n /\ j - 1 # i
            BY <1>0, <1>1, <2>3 DEF n
        <3> QED BY <3>1
    <2> QED BY <2>1, <2>2, <2>3
<1>4. ASSUME NEW l \in 1..n
      PROVE  l = i \/ bs[l].free \/ \E j \in 1..(n + 1) : r[j] = bs[l]
    <2>1. CASE l < i
        <3>1. r[l] = bs[l] /\ l \in 1..(n + 1)
            BY <1>0, <1>1, <2>1 DEF n
        <3> QED BY <3>1
    <2>2. CASE l > i
        <3>1. r[l + 1] = bs[(l + 1) - 1] /\ (l + 1) - 1 = l /\ l + 1 \in 1..(n + 1)
            BY <1>0, <1>1, <2>2 DEF n
        <3> QED BY <3>1
    <2> QED BY <2>1, <2>2
<1> QED BY <1>1, <1>2, <1>3, <1>4, OthersStay DEF n

(* Joining a block with a free one behind it changes no other. *)
LEMMA JoinUsed ==
    ASSUME NEW bs, Tiles(bs), NEW i \in 1..(Len(bs) - 1), NEW x, NEW r \in Seq(Block),
           Join(bs, r, i, x), bs[i + 1].free
    PROVE  UsedPut(bs, r, i, x)
<1> DEFINE n == Len(bs)
<1>0. n \in Nat /\ i \in 1..n
    BY TileFacts
<1>1. /\ Len(r) = n - 1
      /\ \A j \in 1..(n - 1) : /\ j < i => r[j] = bs[j]
                               /\ j = i => r[j] = x
                               /\ j > i => r[j] = bs[j + 1]
    BY DEF Join
<1> HIDE DEF n
<1>2. \E j \in 1..(n - 1) : r[j] = x
    BY <1>0, <1>1 DEF n
<1>3. ASSUME NEW j \in 1..(n - 1)
      PROVE  r[j] = x \/ r[j].free \/ \E l \in 1..n : l # i /\ r[j] = bs[l]
    <2>1. CASE j < i
        <3>1. r[j] = bs[j] /\ j \in 1..n /\ j # i
            BY <1>0, <1>1, <2>1
        <3> QED BY <3>1
    <2>2. CASE j = i
        BY <1>1, <2>2
    <2>3. CASE j > i
        <3>1. r[j] = bs[j + 1] /\ j + 1 \in 1..n /\ j + 1 # i
            BY <1>0, <1>1, <2>3
        <3> QED BY <3>1
    <2> QED BY <1>0, <2>1, <2>2, <2>3
<1>4. ASSUME NEW l \in 1..n
      PROVE  l = i \/ bs[l].free \/ \E j \in 1..(n - 1) : r[j] = bs[l]
    <2>1. CASE l < i
        <3>1. r[l] = bs[l] /\ l \in 1..(n - 1)
            BY <1>0, <1>1, <2>1 DEF n
        <3> QED BY <3>1
    <2>2. CASE l > i + 1
        <3>1. r[l - 1] = bs[(l - 1) + 1] /\ (l - 1) + 1 = l /\ l - 1 \in 1..(n - 1)
            BY <1>0, <1>1, <2>2
        <3> QED BY <3>1
    <2>3. CASE l = i + 1
        BY <2>3
    <2> QED BY <1>0, <2>1, <2>2, <2>3
<1> QED BY <1>0, <1>1, <1>2, <1>3, <1>4, OthersStay DEF n

(* The two blocks that split_block makes of one. *)
FirstPart(b, size) == [b EXCEPT !.size = size]
Rest(b, size) == [addr |-> Data(b) + size, size |-> b.size - size - Header, free |-> TRUE]

(* The fields of the two. *)
LEMMA PartFacts ==
    ASSUME NEW b \in Block, NEW size \in Nat, b.size >= size + Header + HEAP_ALIGN
    PROVE  /\ FirstPart(b, size) \in Block /\ Rest(b, size) \in Block
           /\ FirstPart(b, size).addr = b.addr /\ FirstPart(b, size).size = size
           /\ FirstPart(b, size).free = b.free
           /\ Rest(b, size).addr = Data(b) + size /\ Rest(b, size).free = TRUE
           /\ Rest(b, size).size = b.size - size - Header
           /\ End(FirstPart(b, size)) = Rest(b, size).addr
           /\ End(Rest(b, size)) = End(b)
           /\ End(FirstPart(b, size)) <= End(b)
<1>1. /\ Header \in Nat /\ HEAP_ALIGN \in Nat
    BY HeapAssumption
<1>2. b.addr \in Nat /\ b.size \in Nat /\ b.free \in BOOLEAN
    BY DEF Block
<1>3. b = [addr |-> b.addr, size |-> b.size, free |-> b.free]
    BY DEF Block
<1>4. FirstPart(b, size) = [addr |-> b.addr, size |-> size, free |-> b.free]
    BY <1>3 DEF FirstPart, Block
<1>5. FirstPart(b, size) \in Block
    BY <1>2, <1>4 DEF Block
<1>6. Rest(b, size) \in Block
    BY <1>1, <1>2 DEF Block, Rest, Data
<1>7. /\ FirstPart(b, size).addr = b.addr /\ FirstPart(b, size).size = size
      /\ FirstPart(b, size).free = b.free
    BY <1>4
<1>8. /\ Rest(b, size).addr = Data(b) + size /\ Rest(b, size).free = TRUE
      /\ Rest(b, size).size = b.size - size - Header
    BY DEF Rest
<1>9. /\ End(FirstPart(b, size)) = Rest(b, size).addr
      /\ End(Rest(b, size)) = End(b)
      /\ End(FirstPart(b, size)) <= End(b)
    BY <1>1, <1>2, <1>7, <1>8 DEF End, Data
<1> QED BY <1>5, <1>6, <1>7, <1>8, <1>9

(* Their alignment. *)
LEMMA PartsAligned ==
    ASSUME NEW b \in Block, NEW size \in Nat, b.size >= size + Header + HEAP_ALIGN,
           Aligned(b), size % HEAP_ALIGN = 0
    PROVE  Aligned(FirstPart(b, size)) /\ Aligned(Rest(b, size))
<1>1. Header \in Nat /\ HEAP_ALIGN \in Nat \ {0} /\ Header % HEAP_ALIGN = 0
    BY HeapAssumption
<1>2. b.addr \in Nat /\ b.size \in Nat /\ b.addr % HEAP_ALIGN = 0 /\ b.size % HEAP_ALIGN = 0
    BY DEF Block, Aligned
<1>3. ASSUME NEW x \in Int, NEW y \in Int, x % HEAP_ALIGN = 0, y % HEAP_ALIGN = 0
      PROVE  (x + y) % HEAP_ALIGN = 0
    BY <1>1, <1>3, AlignedSums
<1>3a. ASSUME NEW x \in Int, NEW y \in Int, x % HEAP_ALIGN = 0, y % HEAP_ALIGN = 0,
              NEW z, z = x - y
       PROVE  z % HEAP_ALIGN = 0
    BY <1>1, <1>3a, AlignedSums
<1> DEFINE d == b.addr + Header
           e == b.size - size
<1>4. d \in Int /\ d % HEAP_ALIGN = 0 /\ e \in Int /\ e % HEAP_ALIGN = 0
    <2>1. b.addr \in Int /\ Header \in Int /\ b.size \in Int /\ size \in Int
        BY <1>1, <1>2
    <2>2. d % HEAP_ALIGN = 0
        BY <1>1, <1>2, <1>3, <2>1
    <2>3. e % HEAP_ALIGN = 0
        BY <1>2, <1>3a, <2>1
    <2> QED BY <2>1, <2>2, <2>3
<1>5. (d + size) % HEAP_ALIGN = 0 /\ (e - Header) % HEAP_ALIGN = 0
    <2> HIDE DEF d, e
    <2>1. (d + size) % HEAP_ALIGN = 0
        BY <1>3, <1>4
    <2>2. Header \in Int /\ Header % HEAP_ALIGN = 0
        BY <1>1
    <2>3. (e - Header) % HEAP_ALIGN = 0
        BY <1>3a, <1>4, <2>2
    <2> QED BY <2>1, <2>3
<1> HIDE DEF d, e
<1>6. Rest(b, size).addr = d + size /\ Rest(b, size).size = e - Header
    BY PartFacts DEF d, e, Data
<1>7. FirstPart(b, size).addr = b.addr /\ FirstPart(b, size).size = size
    BY PartFacts
<1> QED BY <1>2, <1>5, <1>6, <1>7 DEF Aligned

(* A block put into the list. *)
LEMMA InsertBlock ==
    ASSUME NEW p \in Seq(Block), NEW m \in 1..(Len(p) + 1), NEW e \in Block
    PROVE  /\ InsertAt(p, m, e) \in Seq(Block)
           /\ Len(InsertAt(p, m, e)) = Len(p) + 1
           /\ \A j \in 1..(Len(p) + 1) :
                 InsertAt(p, m, e)[j] = IF j < m THEN p[j] ELSE IF j = m THEN e ELSE p[j - 1]
<1> DEFINE r == InsertAt(p, m, e)
<1> SUFFICES /\ r \in Seq(Block) /\ Len(r) = Len(p) + 1
             /\ \A j \in 1..(Len(p) + 1) :
                   r[j] = IF j < m THEN p[j] ELSE IF j = m THEN e ELSE p[j - 1]
    OBVIOUS
<1>1. r \in Seq(Block) /\ Len(r) = Len(p) + 1
    BY InsertAtShape
<1>2. ASSUME NEW j \in 1..(Len(p) + 1)
      PROVE  r[j] = IF j < m THEN p[j] ELSE IF j = m THEN e ELSE p[j - 1]
    <2>1. \A S : \A s \in Seq(S) : \A n \in 1..(Len(s) + 1), x \in S : \A i \in 1..(Len(s) + 1) :
              InsertAt(s, n, x)[i] = IF i < n THEN s[i] ELSE IF i = n THEN x ELSE s[i - 1]
        BY InsertAtShape
    <2> QED BY <2>1
<1> HIDE DEF r
<1> QED BY <1>1, <1>2

(* split_block cuts the block, if there is room for another one. *)
LEMMA SplitCuts ==
    ASSUME NEW bs, Tiles(bs), NEW i \in 1..Len(bs), NEW size \in Nat,
           bs[i].size >= size + Header + HEAP_ALIGN
    PROVE  /\ split_block(bs, i, size) \in Seq(Block)
           /\ Cut(bs, split_block(bs, i, size), i, FirstPart(bs[i], size), Rest(bs[i], size))
<1> DEFINE f == FirstPart(bs[i], size)
           e == Rest(bs[i], size)
           p == [bs EXCEPT ![i] = f]
           m == i + 1
           r == InsertAt(p, m, e)
           n == Len(bs)
<1>1. bs \in Seq(Block) /\ n \in Nat /\ bs[i] \in Block /\ DOMAIN bs = 1..n
    BY TileFacts
<1>2. f \in Block /\ e \in Block
    BY <1>1, PartFacts
<1>3. split_block(bs, i, size) = r
    <2>1. Header \in Nat /\ HEAP_ALIGN \in Nat /\ bs[i].size \in Nat
        BY <1>1, HeapAssumption DEF Block
    <2>2. ~(bs[i].size < size + Header + HEAP_ALIGN)
        BY <2>1
    <2>3. [bs EXCEPT ![i].size = size] = p
        BY DEF FirstPart
    <2> QED BY <2>2, <2>3 DEF split_block, Rest
<1> HIDE DEF f, e
<1>4. p \in Seq(Block) /\ Len(p) = n /\ \A j \in 1..n : p[j] = IF j = i THEN f ELSE bs[j]
    BY <1>1, <1>2
<1> HIDE DEF p
<1>5. m \in 1..(Len(p) + 1) /\ m = i + 1
    BY <1>1, <1>4
<1> HIDE DEF m
<1>5a. p \in Seq(Block) /\ e \in Block
    BY <1>2, <1>4
<1>5b. /\ r \in Seq(Block)
       /\ Len(r) = Len(p) + 1
       /\ \A j \in 1..(Len(p) + 1) :
             r[j] = IF j < m THEN p[j] ELSE IF j = m THEN e ELSE p[j - 1]
    BY ONLY <1>5, <1>5a, InsertBlock
<1> HIDE DEF r
<1>6. /\ r \in Seq(Block)
      /\ Len(r) = n + 1
      /\ \A j \in 1..(n + 1) :
            r[j] = IF j < i + 1 THEN p[j] ELSE IF j = i + 1 THEN e ELSE p[j - 1]
    BY <1>4, <1>5, <1>5b
<1>7. ASSUME NEW j \in 1..(n + 1)
      PROVE  /\ j < i => r[j] = bs[j]
             /\ j = i => r[j] = f
             /\ j = i + 1 => r[j] = e
             /\ j > i + 1 => r[j] = bs[j - 1]
    <2>1. ASSUME j < i PROVE r[j] = bs[j]
        <3>1. j \in 1..n /\ j # i /\ j < i + 1
            BY <1>1, <2>1
        <3> QED BY <1>4, <1>6, <3>1
    <2>2. ASSUME j = i PROVE r[j] = f
        BY <1>1, <1>4, <1>6, <2>2
    <2>3. ASSUME j = i + 1 PROVE r[j] = e
        BY <1>1, <1>6, <2>3
    <2>4. ASSUME j > i + 1 PROVE r[j] = bs[j - 1]
        <3>1. j - 1 \in 1..n /\ j - 1 # i /\ ~(j < i + 1) /\ j # i + 1
            BY <1>1, <2>4
        <3>2. r[j] = p[j - 1]
            BY <1>6, <3>1
        <3> QED BY <1>4, <3>1, <3>2
    <2> QED BY <2>1, <2>2, <2>3, <2>4
<1>8. Cut(bs, r, i, f, e)
    BY <1>6, <1>7 DEF Cut
<1> QED BY <1>3, <1>6, <1>8 DEF f, e

(* What split_block leaves: the block keeps its address and has at least   *)
(* the bytes asked for.                                                    *)
SplitOK(bs, r, i, size, x) ==
    /\ Tiles(r)
    /\ i \in 1..Len(r)
    /\ r[i] = x
    /\ x \in Block
    /\ x.addr = bs[i].addr /\ x.free = bs[i].free
    /\ x.size >= size /\ End(x) <= End(bs[i])
    /\ UsedPut(bs, r, i, x)
    /\ r # bs => x.size = size
    /\ Merged(bs) /\ (r = bs \/ (~x.free /\ ~(i < Len(bs) /\ bs[i + 1].free))) => Merged(r)
    /\ Merged(bs) /\ bs[i].free => \A j \in 1..(Len(r) - 1) : j # i => ~(r[j].free /\ r[j + 1].free)

(* split_block keeps the tiling. *)
LEMMA SplitEffect ==
    ASSUME NEW bs, Tiles(bs), NEW i \in 1..Len(bs), NEW size \in Nat,
           size % HEAP_ALIGN = 0, bs[i].size >= size
    PROVE  \E x : SplitOK(bs, split_block(bs, i, size), i, size, x)
<1> DEFINE r == split_block(bs, i, size)
           n == Len(bs)
<1>1. bs \in Seq(Block) /\ n \in Nat /\ bs[i] \in Block /\ DOMAIN bs = 1..n
    BY TileFacts
<1>1a. bs[i].addr \in Nat /\ bs[i].size \in Nat /\ End(bs[i]) \in Nat
    BY <1>1, BlockFacts
<1>2. CASE bs[i].size < size + Header + HEAP_ALIGN
    <2>1. r = bs
        BY <1>2 DEF split_block
    <2>2. Put(bs, bs, i, bs[i])
        BY <1>1 DEF Put
    <2>3. UsedPut(bs, r, i, bs[i])
        BY <1>1, <2>1, <2>2, PutUsed
    <2>4. Merged(bs) => \A j \in 1..(n - 1) : ~(bs[j].free /\ bs[j + 1].free)
        BY DEF Merged
    <2>5. SplitOK(bs, r, i, size, bs[i])
        BY <1>1, <1>1a, <2>1, <2>3, <2>4 DEF SplitOK
    <2> QED BY <2>5
<1>3. CASE ~(bs[i].size < size + Header + HEAP_ALIGN)
    <2> DEFINE x == FirstPart(bs[i], size)
               y == Rest(bs[i], size)
    <2>1. bs[i].size >= size + Header + HEAP_ALIGN
        BY <1>1a, <1>3, HeapAssumption
    <2>2. r \in Seq(Block) /\ Cut(bs, r, i, x, y)
        BY <2>1, SplitCuts
    <2>3. /\ x \in Block /\ y \in Block
          /\ x.addr = bs[i].addr /\ x.size = size /\ x.free = bs[i].free /\ y.free = TRUE
          /\ End(x) = y.addr /\ End(y) = End(bs[i]) /\ End(x) <= End(bs[i])
        BY <1>1, <2>1, PartFacts
    <2>4. Aligned(bs[i])
        BY <1>1 DEF Tiles
    <2>5. Aligned(x) /\ Aligned(y)
        BY <1>1, <2>1, <2>4, PartsAligned
    <2> HIDE DEF x, y, r
    <2>6. Tiles(r)
        BY <2>2, <2>3, <2>5, CutTiles
    <2>7. UsedPut(bs, r, i, x)
        BY <2>2, <2>3, CutUsed
    <2>8. /\ Len(r) = n + 1
          /\ \A j \in 1..(n + 1) : /\ j < i => r[j] = bs[j]
                                   /\ j = i => r[j] = x
                                   /\ j = i + 1 => r[j] = y
                                   /\ j > i + 1 => r[j] = bs[j - 1]
        BY <2>2 DEF Cut
    <2> HIDE DEF n
    <2>9. i \in 1..(n + 1) /\ r[i] = x /\ r # bs /\ i \in 1..n
        BY <1>1, <2>8 DEF n
    <2>10. ASSUME Merged(bs), NEW j \in 1..n, j # i, j # i + 1
           PROVE  ~(r[j].free /\ r[j + 1].free)
        <3>1. \A l \in 1..(n - 1) : ~(bs[l].free /\ bs[l + 1].free)
            BY <2>10 DEF Merged, n
        <3>2. CASE j < i
            <4>1. r[j] = bs[j] /\ r[j + 1].free = bs[j + 1].free /\ j \in 1..(n - 1)
                BY <1>1, <2>3, <2>8, <2>9, <3>2
            <4> QED BY <3>1, <4>1
        <3>3. CASE j > i + 1
            <4>1. r[j] = bs[j - 1] /\ r[j + 1] = bs[j] /\ j - 1 \in 1..(n - 1) /\ (j - 1) + 1 = j
                BY <1>1, <2>8, <2>9, <2>10, <3>3
            <4> QED BY <3>1, <4>1
        <3> QED BY <2>9, <2>10, <3>2, <3>3
    <2>11. ASSUME ~(i < n /\ bs[i + 1].free), i + 1 \in 1..n
           PROVE  ~(r[i + 1].free /\ r[(i + 1) + 1].free)
        <3>1. r[(i + 1) + 1] = bs[((i + 1) + 1) - 1] /\ ((i + 1) + 1) - 1 = i + 1 /\ i < n
            BY <1>1, <2>8, <2>9, <2>11
        <3> QED BY <2>11, <3>1
    <2>12. ASSUME Merged(bs), ~x.free, ~(i < n /\ bs[i + 1].free) PROVE Merged(r)
        <3>1. ASSUME NEW j \in 1..n PROVE ~(r[j].free /\ r[j + 1].free)
            BY <2>9, <2>10, <2>11, <2>12
        <3>2. Len(r) - 1 = n
            BY <1>1, <2>8 DEF n
        <3> QED BY <3>1, <3>2 DEF Merged
    <2>13. ASSUME Merged(bs), bs[i].free, NEW j \in 1..n, j # i
           PROVE  ~(r[j].free /\ r[j + 1].free)
        <3>1. ASSUME i < n PROVE ~bs[i + 1].free
            <4>1. i \in 1..(n - 1)
                BY <1>1, <2>9, <3>1 DEF n
            <4> QED BY <2>13, <4>1 DEF Merged, n
        <3> QED BY <2>9, <2>10, <2>11, <2>13, <3>1
    <2>14. Len(r) - 1 = n
        BY <1>1, <2>8 DEF n
    <2>15. x.size >= size
        BY <2>3
    <2>16. SplitOK(bs, r, i, size, x)
        BY <2>3, <2>6, <2>7, <2>8, <2>9, <2>12, <2>13, <2>14, <2>15, Zenon DEF SplitOK, n
    <2> QED BY <2>16 DEF r
<1> QED BY <1>2, <1>3

(* Setting the free flag of a block. *)
Flagged(b, f) == [b EXCEPT !.free = f]

(* The flag is all that changes. *)
LEMMA FlagFacts ==
    ASSUME NEW b \in Block, NEW f \in BOOLEAN
    PROVE  /\ Flagged(b, f) \in Block
           /\ Flagged(b, f).addr = b.addr /\ Flagged(b, f).size = b.size
           /\ Flagged(b, f).free = f
           /\ End(Flagged(b, f)) = End(b)
           /\ Aligned(b) => Aligned(Flagged(b, f))
<1>1. b = [addr |-> b.addr, size |-> b.size, free |-> b.free]
    BY DEF Block
<1>2. Flagged(b, f) = [addr |-> b.addr, size |-> b.size, free |-> f]
    BY <1>1 DEF Flagged, Block
<1> QED BY <1>2 DEF Block, End, Aligned

(* Setting the flag of a block in the list. *)
LEMMA FlagPut ==
    ASSUME NEW bs, Tiles(bs), NEW i \in 1..Len(bs), NEW f \in BOOLEAN
    PROVE  LET r == [bs EXCEPT ![i].free = f]
           IN /\ r \in Seq(Block)
              /\ Put(bs, r, i, Flagged(bs[i], f))
              /\ Tiles(r)
              /\ UsedPut(bs, r, i, Flagged(bs[i], f))
<1> DEFINE x == Flagged(bs[i], f)
           r == [bs EXCEPT ![i].free = f]
<1>1. bs \in Seq(Block) /\ Len(bs) \in Nat /\ bs[i] \in Block /\ DOMAIN bs = 1..Len(bs)
    BY TileFacts
<1>2. Aligned(bs[i])
    BY <1>1 DEF Tiles
<1>3. x \in Block /\ x.addr = bs[i].addr /\ End(x) = End(bs[i]) /\ Aligned(x)
    BY <1>1, <1>2, FlagFacts
<1>4. r = [bs EXCEPT ![i] = x]
    BY DEF Flagged
<1> HIDE DEF x, r
<1>5. r \in Seq(Block) /\ Put(bs, r, i, x)
    BY <1>1, <1>3, <1>4 DEF Put
<1>6. Tiles(r) /\ UsedPut(bs, r, i, x)
    BY <1>3, <1>5, PutTiles, PutUsed
<1> QED BY <1>5, <1>6 DEF x, r

(* What malloc leaves: one more block in use, at the place of a free one. *)
AllocOK(bs, r, i, size, x) ==
    /\ Tiles(r) /\ r # <<>>
    /\ x \in Block
    /\ x.addr = bs[i].addr /\ ~x.free
    /\ x.size >= size /\ End(x) <= End(bs[i])
    /\ Used(r) = Used(bs) \cup {x}
    /\ Merged(bs) => Merged(r)

(* Allocated takes the block it is given. *)
LEMMA AllocatedEffect ==
    ASSUME NEW bs, Tiles(bs), NEW i \in 1..Len(bs), NEW size \in Nat,
           size % HEAP_ALIGN = 0, bs[i].size >= size, bs[i].free
    PROVE  \E x : AllocOK(bs, Allocated(bs, i, size), i, size, x)
<1> DEFINE s == split_block(bs, i, size)
           r == Allocated(bs, i, size)
<1>1. PICK y : SplitOK(bs, s, i, size, y)
    BY SplitEffect
<1> DEFINE x == Flagged(y, FALSE)
<1> HIDE DEF s
<1>2. /\ Tiles(s) /\ i \in 1..Len(s) /\ s[i] = y /\ y \in Block
      /\ y.addr = bs[i].addr /\ y.free = bs[i].free
      /\ y.size >= size /\ End(y) <= End(bs[i])
      /\ UsedPut(bs, s, i, y)
      /\ Merged(bs) => \A j \in 1..(Len(s) - 1) : j # i => ~(s[j].free /\ s[j + 1].free)
    BY <1>1 DEF SplitOK
<1>3. r = [s EXCEPT ![i].free = FALSE]
    BY DEF Allocated, s
<1> HIDE DEF r
<1>4. Tiles(r) /\ Put(s, r, i, x) /\ UsedPut(s, r, i, x)
    BY <1>2, <1>3, FlagPut
<1>5. /\ x \in Block /\ x.addr = bs[i].addr /\ x.free = FALSE /\ x.size >= size
      /\ End(x) <= End(bs[i])
    BY <1>2, FlagFacts
<1> HIDE DEF x
<1>6. bs \in Seq(Block) /\ bs[i].free \in BOOLEAN
    <2>1. bs \in Seq(Block) /\ bs[i] \in Block
        BY TileFacts
    <2> QED BY <2>1 DEF Block
<1>7. bs[i] \notin Used(bs)
    BY <1>6, UsedFacts
<1>8. Used(s) = Used(bs)
    BY <1>2, <1>7 DEF UsedPut
<1>9. s[i] \notin Used(s)
    BY <1>2 DEF Used
<1>10. Used(r) = Used(bs) \cup {x}
    BY <1>4, <1>5, <1>8, <1>9 DEF UsedPut
<1>11. ASSUME Merged(bs) PROVE Merged(r)
    <2>1. Len(r) = Len(s) /\ Len(s) \in Nat /\ r[i] = x
        BY <1>2, <1>4, TileFacts DEF Put
    <2>2. \A j \in 1..Len(s) : j # i => r[j] = s[j]
        BY <1>4 DEF Put
    <2>3. ASSUME NEW j \in 1..(Len(s) - 1) PROVE ~(r[j].free /\ r[j + 1].free)
        <3>1. CASE j = i
            BY <1>5, <2>1, <3>1
        <3>2. CASE j # i
            <4>1. r[j] = s[j] /\ j + 1 \in 1..Len(s)
                BY <2>1, <2>2, <3>2
            <4>2. ~(s[j].free /\ s[j + 1].free)
                BY <1>2, <1>11, <3>2
            <4>3. CASE j + 1 = i
                BY <1>5, <2>1, <4>3
            <4>4. CASE j + 1 # i
                BY <2>2, <4>1, <4>2, <4>4
            <4> QED BY <4>3, <4>4
        <3> QED BY <3>1, <3>2
    <2> QED BY <2>1, <2>3 DEF Merged
<1>12. r # <<>>
    <2>1. Len(r) = Len(s) /\ Len(s) # 0
        BY <1>2, <1>4, TileFacts DEF Put
    <2> QED BY <2>1
<1> QED BY <1>4, <1>5, <1>10, <1>11, <1>12 DEF AllocOK, r

(* The block that a merge makes. *)
Grown(b, c) == [b EXCEPT !.size = @ + Header + c.size]

(* The merged block ends where the second one did. *)
LEMMA GrownFacts ==
    ASSUME NEW b \in Block, NEW c \in Block, End(b) = c.addr, Aligned(b), Aligned(c)
    PROVE  /\ Grown(b, c) \in Block
           /\ Grown(b, c).addr = b.addr /\ Grown(b, c).free = b.free
           /\ End(Grown(b, c)) = End(c)
           /\ Aligned(Grown(b, c))
<1>1. /\ Header \in Nat /\ HEAP_ALIGN \in Nat \ {0} /\ Header % HEAP_ALIGN = 0
    BY HeapAssumption
<1>2. b.addr \in Nat /\ b.size \in Nat /\ c.addr \in Nat /\ c.size \in Nat /\ b.free \in BOOLEAN
    BY DEF Block
<1>3. b = [addr |-> b.addr, size |-> b.size, free |-> b.free]
    BY DEF Block
<1>4. Grown(b, c) = [addr |-> b.addr, size |-> b.size + Header + c.size, free |-> b.free]
    BY <1>3 DEF Grown, Block
<1>5. b.size + Header + c.size \in Nat
    BY <1>1, <1>2
<1>6. Grown(b, c) \in Block
    BY <1>2, <1>4, <1>5 DEF Block
<1>7. End(Grown(b, c)) = End(c)
    BY <1>1, <1>2, <1>4 DEF End
<1>8. (b.size + Header) % HEAP_ALIGN = 0
    BY <1>1, <1>2, AlignedSums DEF Aligned
<1>9. (b.size + Header + c.size) % HEAP_ALIGN = 0
    <2>1. b.size + Header \in Int /\ c.size \in Int /\ c.size % HEAP_ALIGN = 0
        BY <1>1, <1>2 DEF Aligned
    <2> QED BY <1>1, <1>8, <2>1, AlignedSums
<1> QED BY <1>4, <1>6, <1>7, <1>9 DEF Aligned

(* What merge_with_next leaves. *)
MergeOK(bs, r, i) ==
    \/ r = bs /\ (i = Len(bs) \/ ~bs[i + 1].free)
    \/ \E x \in Block : /\ i \in 1..(Len(bs) - 1) /\ bs[i + 1].free
                        /\ r \in Seq(Block) /\ Join(bs, r, i, x) /\ Tiles(r)
                        /\ UsedPut(bs, r, i, x) /\ x.free = bs[i].free

(* merge_with_next joins a block with the next if that is free. *)
LEMMA MergeEffect ==
    ASSUME NEW bs, Tiles(bs), NEW i \in 1..Len(bs)
    PROVE  MergeOK(bs, merge_with_next(bs, i), i)
<1> DEFINE r == merge_with_next(bs, i)
           n == Len(bs)
<1>1. bs \in Seq(Block) /\ n \in Nat /\ n > 0 /\ \A j \in 1..n : bs[j] \in Block
    BY TileFacts
<1>2. /\ \A j \in 1..(n - 1) : End(bs[j]) = bs[j + 1].addr
      /\ \A j \in 1..n : Aligned(bs[j])
    BY <1>1, ChainFacts
<1>3. CASE i = n \/ ~bs[i + 1].free
    <2>1. r = bs
        BY <1>3 DEF merge_with_next
    <2> QED BY <1>3, <2>1 DEF MergeOK
<1>4. CASE ~(i = n \/ ~bs[i + 1].free)
    <2> DEFINE x == Grown(bs[i], bs[i + 1])
               p == [bs EXCEPT ![i] = x]
    <2>1. i \in 1..(n - 1) /\ i \in 1..n /\ i + 1 \in 1..n /\ bs[i + 1].free
        BY <1>1, <1>4
    <2>2. End(bs[i]) = bs[i + 1].addr
        BY <1>2, <2>1
    <2>3. r = RemoveAt(p, i + 1)
        <3>1. [bs EXCEPT ![i].size = @ + Header + bs[i + 1].size] = p
            BY DEF Grown
        <3> QED BY <1>4, <2>2, <3>1 DEF merge_with_next, blocks_are_adjacent
    <2>4. /\ x \in Block /\ x.addr = bs[i].addr /\ x.free = bs[i].free
          /\ End(x) = End(bs[i + 1]) /\ Aligned(x)
        <3>1. bs[i] \in Block /\ bs[i + 1] \in Block /\ Aligned(bs[i]) /\ Aligned(bs[i + 1])
            BY <1>1, <1>2, <2>1
        <3> QED BY <2>2, <3>1, GrownFacts
    <2> HIDE DEF x
    <2>5. p \in Seq(Block) /\ Len(p) = n /\ \A j \in 1..n : p[j] = IF j = i THEN x ELSE bs[j]
        BY <1>1, <2>4
    <2> HIDE DEF p, r
    <2>6. i + 1 \in 1..Len(p)
        BY <2>1, <2>5
    <2>7. /\ r \in Seq(Block)
          /\ Len(r) = Len(p) - 1
          /\ \A j \in 1..(Len(p) - 1) : r[j] = IF j < i + 1 THEN p[j] ELSE p[j + 1]
        BY <2>3, <2>5, <2>6, RemoveAtShape
    <2>8. ASSUME NEW j \in 1..(n - 1)
          PROVE  /\ j < i => r[j] = bs[j]
                 /\ j = i => r[j] = x
                 /\ j > i => r[j] = bs[j + 1]
        <3>0. j \in 1..n /\ j + 1 \in 1..n
            BY <1>1
        <3>1. ASSUME j < i PROVE r[j] = bs[j]
            BY <2>1, <2>5, <2>7, <3>0, <3>1
        <3>2. ASSUME j = i PROVE r[j] = x
            BY <2>1, <2>5, <2>7, <3>0, <3>2
        <3>3. ASSUME j > i PROVE r[j] = bs[j + 1]
            <4>1. r[j] = p[j + 1]
                BY <2>1, <2>5, <2>7, <3>3
            <4>2. j + 1 # i
                BY <2>1, <3>3
            <4> QED BY <2>5, <3>0, <4>1, <4>2
        <3> QED BY <3>1, <3>2, <3>3
    <2>9. Join(bs, r, i, x)
        BY <2>5, <2>7, <2>8 DEF Join
    <2>10. Tiles(r)
        BY <2>1, <2>4, <2>7, <2>9, JoinTiles
    <2>11. UsedPut(bs, r, i, x)
        BY <2>1, <2>7, <2>9, JoinUsed
    <2> QED BY <2>1, <2>4, <2>7, <2>9, <2>10, <2>11 DEF MergeOK, r
<1> QED BY <1>3, <1>4

(* What the first merge of free leaves: block i is free and only it may    *)
(* have a free block before it.                                            *)
HalfFreed(bs, m, i) ==
    /\ Tiles(m)
    /\ i \in 1..Len(m)
    /\ m[i].free
    /\ \A j \in 1..Len(m) : j < i => m[j] = bs[j]
    /\ Used(m) = Used(bs) \ {bs[i]}
    /\ Merged(bs) => \A j \in 1..(Len(m) - 1) : j + 1 # i => ~(m[j].free /\ m[j + 1].free)

(* The first half of free. *)
LEMMA HalfFreedEffect ==
    ASSUME NEW bs, Tiles(bs), NEW i \in 1..Len(bs)
    PROVE  HalfFreed(bs, merge_with_next([bs EXCEPT ![i].free = TRUE], i), i)
<1> DEFINE x == Flagged(bs[i], TRUE)
           s == [bs EXCEPT ![i].free = TRUE]
           m == merge_with_next(s, i)
           n == Len(bs)
<1> SUFFICES HalfFreed(bs, m, i)
    OBVIOUS
<1>1. bs \in Seq(Block) /\ n \in Nat /\ \A j \in 1..n : bs[j] \in Block
    BY TileFacts
<1>2. x.free = TRUE
    BY <1>1, FlagFacts
<1>3. s \in Seq(Block) /\ Tiles(s) /\ Put(bs, s, i, x) /\ UsedPut(bs, s, i, x)
    BY FlagPut
<1> HIDE DEF x, s
<1>4. Len(s) = n /\ s[i] = x /\ \A j \in 1..n : j # i => s[j] = bs[j]
    BY <1>3 DEF Put
<1>5. Used(s) = Used(bs) \ {bs[i]}
    BY <1>2, <1>3 DEF UsedPut
<1>6. MergeOK(s, m, i)
    BY <1>3, <1>4, MergeEffect
<1> HIDE DEF m
<1>7. CASE m = s /\ (i = Len(s) \/ ~s[i + 1].free)
    <2>1. ASSUME Merged(bs), NEW j \in 1..(n - 1), j + 1 # i PROVE ~(s[j].free /\ s[j + 1].free)
        <3>1. j \in 1..n /\ j + 1 \in 1..n /\ s[j + 1] = bs[j + 1]
            BY <1>1, <1>4, <2>1
        <3>2. CASE j = i
            BY <1>4, <1>7, <3>1, <3>2
        <3>3. CASE j # i
            <4>1. ~(bs[j].free /\ bs[j + 1].free)
                BY <2>1 DEF Merged
            <4>2. s[j] = bs[j]
                BY <1>4, <3>1, <3>3
            <4> QED BY <3>1, <4>1, <4>2
        <3> QED BY <3>2, <3>3
    <2> QED BY <1>2, <1>3, <1>4, <1>5, <1>7, <2>1 DEF HalfFreed
<1>8. CASE \E y \in Block : /\ i \in 1..(Len(s) - 1) /\ s[i + 1].free
                            /\ m \in Seq(Block) /\ Join(s, m, i, y) /\ Tiles(m)
                            /\ UsedPut(s, m, i, y) /\ y.free = s[i].free
    <2>1. PICK y \in Block : /\ i \in 1..(Len(s) - 1) /\ s[i + 1].free
                             /\ m \in Seq(Block) /\ Join(s, m, i, y) /\ Tiles(m)
                             /\ UsedPut(s, m, i, y) /\ y.free = s[i].free
        BY <1>8
    <2>2. y.free = TRUE /\ i \in 1..(n - 1) /\ s[i].free
        BY <1>2, <1>4, <2>1
    <2>3. s[i] \notin Used(s)
        BY <2>2 DEF Used
    <2>4. Used(m) = Used(bs) \ {bs[i]}
        BY <1>5, <2>1, <2>2, <2>3 DEF UsedPut
    <2>5. /\ Len(m) = n - 1
          /\ \A j \in 1..(n - 1) : /\ j < i => m[j] = s[j]
                                   /\ j = i => m[j] = y
                                   /\ j > i => m[j] = s[j + 1]
        BY <1>4, <2>1 DEF Join
    <2>6. i \in 1..Len(m) /\ m[i].free
        BY <2>2, <2>5
    <2>7. ASSUME NEW j \in 1..Len(m), j < i PROVE m[j] = bs[j]
        <3>1. j \in 1..n /\ j \in 1..(n - 1) /\ j # i
            BY <1>1, <2>5, <2>7
        <3> QED BY <1>4, <2>5, <2>7, <3>1
    <2>8. ASSUME Merged(bs), NEW j \in 1..(Len(m) - 1), j + 1 # i
          PROVE  ~(m[j].free /\ m[j + 1].free)
        <3>1. \A l \in 1..(n - 1) : ~(bs[l].free /\ bs[l + 1].free)
            BY <2>8 DEF Merged
        <3>2. CASE j < i
            <4>1. j \in 1..(n - 1) /\ j + 1 \in 1..Len(m) /\ j + 1 < i /\ j \in 1..Len(m)
                BY <1>1, <2>2, <2>5, <2>8, <3>2
            <4>2. m[j] = bs[j]
                BY <2>7, <3>2, <4>1
            <4>3. m[j + 1] = bs[j + 1]
                BY <2>7, <4>1
            <4> QED BY <3>1, <4>1, <4>2, <4>3
        <3>3. CASE j >= i
            <4>1. j + 1 \in 1..(n - 1) /\ j + 1 > i /\ (j + 1) + 1 \in 1..n /\ (j + 1) + 1 # i
                BY <1>1, <2>2, <2>5, <3>3
            <4>2. m[j + 1] = bs[(j + 1) + 1]
                BY <1>4, <2>5, <4>1
            <4>3. bs[i + 1].free
                <5>1. i + 1 \in 1..n /\ i + 1 # i
                    BY <1>1, <2>2
                <5> QED BY <1>4, <2>1, <5>1
            <4>4. CASE j = i
                <5>1. ~(bs[j + 1].free /\ bs[(j + 1) + 1].free)
                    BY <3>1, <4>1
                <5> QED BY <4>2, <4>3, <4>4, <5>1
            <4>5. CASE j > i
                <5>1. m[j] = bs[j + 1]
                    <6>1. j \in 1..(n - 1) /\ j + 1 \in 1..n /\ j + 1 # i
                        BY <1>1, <2>2, <4>1, <4>5
                    <6> QED BY <1>4, <2>5, <4>5, <6>1
                <5> QED BY <3>1, <4>1, <4>2, <5>1
            <4> QED BY <2>2, <3>3, <4>4, <4>5
        <3> QED BY <2>2, <3>2, <3>3
    <2> QED BY <2>1, <2>4, <2>6, <2>7, <2>8 DEF HalfFreed
<1> QED BY <1>6, <1>7, <1>8 DEF MergeOK

(* What free leaves: one block in use less. *)
FreedOK(bs, r, i) ==
    /\ Tiles(r) /\ r # <<>>
    /\ Used(r) = Used(bs) \ {bs[i]}
    /\ Merged(bs) => Merged(r)

(* free gives a block back and leaves the others in use alone. *)
LEMMA FreedEffect ==
    ASSUME NEW bs, Tiles(bs), NEW i \in 1..Len(bs)
    PROVE  FreedOK(bs, Freed(bs, i), i)
<1> DEFINE m == merge_with_next([bs EXCEPT ![i].free = TRUE], i)
           r == Freed(bs, i)
           n == Len(m)
<1>1. HalfFreed(bs, m, i)
    BY HalfFreedEffect
<1>2. r = IF i > 1 /\ m[i - 1].free /\ blocks_are_adjacent(m[i - 1], m[i])
          THEN merge_with_next(m, i - 1) ELSE m
    BY DEF Freed
<1> HIDE DEF m, r
<1>3. /\ Tiles(m) /\ i \in 1..n /\ m[i].free /\ Used(m) = Used(bs) \ {bs[i]}
      /\ Merged(bs) => \A j \in 1..(n - 1) : j + 1 # i => ~(m[j].free /\ m[j + 1].free)
    BY <1>1 DEF HalfFreed
<1>4. n \in Nat /\ n > 0 /\ i \in Nat
    BY <1>3, TileFacts
<1>5. CASE i > 1 /\ m[i - 1].free
    <2> DEFINE h == i - 1
    <2>1. h \in 1..n /\ h \in 1..(n - 1) /\ h + 1 = i
        BY <1>3, <1>4, <1>5
    <2>2. blocks_are_adjacent(m[i - 1], m[i])
        <3>1. End(m[h]) = m[h + 1].addr
            BY <1>3, <1>4, <2>1, ChainFacts
        <3> QED BY <2>1, <3>1 DEF blocks_are_adjacent
    <2>3. r = merge_with_next(m, h) /\ m[h].free
        BY <1>2, <1>5, <2>2
    <2> HIDE DEF h
    <2>4. MergeOK(m, r, h)
        BY <1>3, <2>1, <2>3, MergeEffect
    <2>5. ~(h = n \/ ~m[h + 1].free)
        BY <1>3, <1>4, <2>1
    <2>6. PICK y \in Block : /\ r \in Seq(Block) /\ Join(m, r, h, y) /\ Tiles(r)
                             /\ UsedPut(m, r, h, y) /\ y.free = m[h].free
        BY <2>4, <2>5 DEF MergeOK
    <2>7. m[h] \notin Used(m) /\ y.free
        BY <2>3, <2>6 DEF Used
    <2>8. Used(r) = Used(m)
        BY <2>6, <2>7 DEF UsedPut
    <2>9. /\ Len(r) = n - 1
          /\ \A j \in 1..(n - 1) : /\ j < h => r[j] = m[j]
                                   /\ j = h => r[j] = y
                                   /\ j > h => r[j] = m[j + 1]
        BY <2>6 DEF Join
    <2> HIDE DEF n
    <2>10. ASSUME Merged(bs), NEW j \in 1..(n - 2) PROVE ~(r[j].free /\ r[j + 1].free)
        <3>1. \A l \in 1..(n - 1) : l + 1 # i => ~(m[l].free /\ m[l + 1].free)
            BY <1>3, <2>10
        <3>2. CASE j < h
            <4>1. j \in 1..(n - 1) /\ j + 1 \in 1..(n - 1) /\ j + 1 # i
                BY <1>4, <2>1, <3>2
            <4>2. r[j] = m[j]
                BY <2>9, <3>2, <4>1
            <4>3. CASE j + 1 = h
                <5>1. m[j + 1].free
                    BY <2>3, <4>3
                <5> QED BY <3>1, <4>1, <4>2, <5>1
            <4>4. CASE j + 1 # h
                <5>1. j + 1 < h
                    BY <2>1, <3>2, <4>4
                <5>2. r[j + 1] = m[j + 1]
                    BY <2>9, <4>1, <5>1
                <5> QED BY <3>1, <4>1, <4>2, <5>2
            <4> QED BY <4>3, <4>4
        <3>3. CASE j >= h
            <4>1. j + 1 \in 1..(n - 1) /\ j + 1 > h /\ (j + 1) + 1 # i
                BY <1>4, <2>1, <3>3
            <4>2. r[j + 1] = m[(j + 1) + 1]
                BY <2>9, <4>1
            <4>3. ~(m[j + 1].free /\ m[(j + 1) + 1].free)
                BY <3>1, <4>1
            <4>4. CASE j = h
                BY <1>3, <2>1, <4>2, <4>3, <4>4
            <4>5. CASE j > h
                <5>1. j \in 1..(n - 1)
                    BY <1>4
                <5>2. r[j] = m[j + 1]
                    BY <2>9, <4>5, <5>1
                <5> QED BY <4>2, <4>3, <5>2
            <4> QED BY <2>1, <3>3, <4>4, <4>5
        <3> QED BY <2>1, <3>2, <3>3
    <2>11. Len(r) - 1 = n - 2
        BY <1>4, <2>9
    <2>12. Merged(bs) => Merged(r)
        BY <2>10, <2>11 DEF Merged
    <2>13. r # <<>>
        <3>1. Len(r) # 0
            BY <1>4, <2>1, <2>9
        <3> QED BY <3>1
    <2> QED BY <1>3, <2>6, <2>8, <2>12, <2>13 DEF FreedOK, r
<1>6. CASE ~(i > 1 /\ m[i - 1].free)
    <2>1. r = m
        BY <1>2, <1>6
    <2>2. ASSUME Merged(bs), NEW j \in 1..(n - 1) PROVE ~(m[j].free /\ m[j + 1].free)
        <3>1. CASE j + 1 = i
            <4>1. i > 1 /\ i - 1 = j
                BY <1>4, <3>1
            <4> QED BY <1>6, <4>1
        <3>2. CASE j + 1 # i
            BY <1>3, <2>2, <3>2
        <3> QED BY <3>1, <3>2
    <2>3. Merged(bs) => Merged(m)
        BY <2>2 DEF Merged
    <2>4. m # <<>>
        BY <1>4
    <2> QED BY <1>3, <2>1, <2>3, <2>4 DEF FreedOK, r
<1> QED BY <1>5, <1>6

(* A block of the set U, in use, at p and with n bytes or more. *)
Good(U, p, n) == \E b \in U : Data(b) = p /\ b.size >= n

(* The bytes a caller may count on. *)
Need(want) == IF Wraps(want) THEN 0 ELSE want

Call == [at : {"none", "check", "shrink", "grow", "copy", "free"},
         ptr : Nat, want : Nat, size : 0..SizeMax, new : Nat]

Busy(O) == {c \in Client : O[c].at # "none"}
Copying(O) == {c \in Client : O[c].at \in {"copy", "free"}}

(* Everything that is held, by callers (L) and by reallocs under way (O),  *)
(* is backed by blocks in use.                                             *)
Backed(U, L, O) ==
    /\ \A a \in L : Good(U, a.ptr, Need(a.want))
    /\ \A c \in Busy(O) : Good(U, O[c].ptr, Need(O[c].want))
    /\ \A c \in Busy(O) : O[c].at = "shrink" => Good(U, O[c].ptr, align_size(O[c].size))
    /\ \A c \in Copying(O) : Good(U, O[c].new, align_size(O[c].size))

(* Nobody holds p. *)
Unclaimed(p, L, O) ==
    /\ \A a \in L : a.ptr # p
    /\ \A c \in Busy(O) : O[c].ptr # p
    /\ \A c \in Copying(O) : O[c].new # p

(* No pointer is held twice. *)
Separate(L, O) ==
    /\ \A a, b \in L : a.ptr = b.ptr => a = b
    /\ \A a \in L, c \in Busy(O) : a.ptr # O[c].ptr
    /\ \A a \in L, c \in Copying(O) : a.ptr # O[c].new
    /\ \A c, d \in Busy(O) : c # d => O[c].ptr # O[d].ptr
    /\ \A c \in Busy(O), d \in Copying(O) : O[c].ptr # O[d].new
    /\ \A c, d \in Copying(O) : c # d => O[c].new # O[d].new

Clients(U, L, O) ==
    /\ L \subseteq Holding
    /\ O \in [Client -> Call]
    /\ Backed(U, L, O)
    /\ Separate(L, O)

-----------------------------------------------------------------------------
(* More blocks back as much. *)
LEMMA MoreBlocks ==
    ASSUME NEW U, NEW L, NEW O, Clients(U, L, O), NEW x
    PROVE  Clients(U \cup {x}, L, O)
<1>1. ASSUME NEW p, NEW n, Good(U, p, n) PROVE Good(U \cup {x}, p, n)
    BY <1>1 DEF Good
<1> QED BY <1>1, Zenon DEF Clients, Backed

(* A block nobody holds can go. *)
LEMMA LessBlocks ==
    ASSUME NEW U, NEW L, NEW O, Clients(U, L, O), NEW x, Unclaimed(Data(x), L, O)
    PROVE  Clients(U \ {x}, L, O)
<1>1. ASSUME NEW p, NEW n, Good(U, p, n), p # Data(x) PROVE Good(U \ {x}, p, n)
    BY <1>1 DEF Good
<1>2. Busy(O) \subseteq Client /\ Copying(O) \subseteq Client
    BY DEF Busy, Copying
<1>3. Backed(U \ {x}, L, O)
    BY <1>1, <1>2, Zenon DEF Clients, Backed, Unclaimed
<1> QED BY <1>3 DEF Clients

(* What is at an address where no block in use is, nobody holds. *)
LEMMA FreshUnclaimed ==
    ASSUME NEW U, NEW L, NEW O, Clients(U, L, O), NEW p, \A b \in U : Data(b) # p
    PROVE  Unclaimed(p, L, O)
<1>1. ASSUME NEW q, NEW n, Good(U, q, n) PROVE q # p
    BY <1>1 DEF Good
<1> QED BY <1>1, Zenon DEF Clients, Backed, Unclaimed

(* A caller gets a pointer. *)
LEMMA GetsPointer ==
    ASSUME NEW U, NEW L, NEW O, Clients(U, L, O), NEW p \in Nat, NEW want \in Nat,
           Unclaimed(p, L, O), Good(U, p, Need(want))
    PROVE  Clients(U, L \cup {[ptr |-> p, want |-> want]}, O)
<1> DEFINE h == [ptr |-> p, want |-> want]
<1>1. h \in Holding /\ h.ptr = p /\ h.want = want
    BY DEF Holding
<1> HIDE DEF h
<1>2. Backed(U, L \cup {h}, O)
    BY <1>1 DEF Clients, Backed
<1>3. Separate(L \cup {h}, O)
    BY <1>1 DEF Clients, Separate, Unclaimed
<1>4. L \cup {h} \subseteq Holding
    BY <1>1 DEF Clients
<1> QED BY <1>2, <1>3, <1>4 DEF Clients, h

(* A caller gives a pointer away. *)
LEMMA GivesPointer ==
    ASSUME NEW U, NEW L, NEW O, Clients(U, L, O), NEW a \in L
    PROVE  /\ Clients(U, L \ {a}, O)
           /\ Unclaimed(a.ptr, L \ {a}, O)
           /\ Good(U, a.ptr, Need(a.want))
           /\ a.ptr \in Nat /\ a.want \in Nat
<1>1. a.ptr \in Nat /\ a.want \in Nat
    BY DEF Clients, Holding
<1>2. Backed(U, L \ {a}, O) /\ Separate(L \ {a}, O)
    BY DEF Clients, Backed, Separate
<1>3. Unclaimed(a.ptr, L \ {a}, O)
    BY DEF Clients, Separate, Unclaimed
<1>4. Good(U, a.ptr, Need(a.want))
    BY DEF Clients, Backed
<1> QED BY <1>1, <1>2, <1>3, <1>4 DEF Clients

(* realloc ends: what it held, nobody holds for now. *)
LEMMA OpEnds ==
    ASSUME NEW U, NEW L, NEW O, Clients(U, L, O), NEW c \in Client, O[c].at # "none"
    PROVE  LET N == [O EXCEPT ![c] = NoOp]
           IN /\ Clients(U, L, N)
              /\ Unclaimed(O[c].ptr, L, N)
              /\ O[c].at \in {"copy", "free"} => Unclaimed(O[c].new, L, N)
              /\ Good(U, O[c].ptr, Need(O[c].want))
              /\ O[c] \in Call
<1> DEFINE N == [O EXCEPT ![c] = NoOp]
<1>1. O \in [Client -> Call] /\ O[c] \in Call /\ c \in Busy(O)
    BY DEF Clients, Busy
<1>2. NoOp \in Call /\ NoOp.at = "none"
    BY HeapAssumption DEF NoOp, Call
<1>3. N \in [Client -> Call] /\ N[c].at = "none" /\ \A d \in Client : d # c => N[d] = O[d]
    BY <1>1, <1>2
<1> HIDE DEF N
<1>4. Busy(N) = Busy(O) \ {c} /\ Copying(N) = Copying(O) \ {c}
    BY <1>3 DEF Busy, Copying
<1>5. /\ \A d \in Busy(N) : d \in Busy(O) /\ d # c /\ N[d] = O[d]
      /\ \A d \in Copying(N) : d \in Copying(O) /\ d # c /\ N[d] = O[d]
    BY <1>3, <1>4 DEF Busy, Copying
<1>6. Backed(U, L, N)
    BY <1>5, Zenon DEF Clients, Backed
<1>7. Separate(L, N)
    BY <1>5 DEF Clients, Separate
<1>8. Unclaimed(O[c].ptr, L, N)
    BY <1>1, <1>5 DEF Clients, Separate, Unclaimed
<1>9. ASSUME O[c].at \in {"copy", "free"} PROVE Unclaimed(O[c].new, L, N)
    <2>1. c \in Copying(O)
        BY <1>9 DEF Copying
    <2> QED BY <2>1, <1>5 DEF Clients, Separate, Unclaimed
<1>10. Good(U, O[c].ptr, Need(O[c].want))
    BY <1>1 DEF Clients, Backed
<1>11. Clients(U, L, N)
    BY <1>3, <1>6, <1>7 DEF Clients
<1> QED BY <1>1, <1>8, <1>9, <1>10, <1>11 DEF N

(* realloc begins with a pointer that its caller has given it. *)
LEMMA OpBegins ==
    ASSUME NEW U, NEW L, NEW O, Clients(U, L, O), NEW c \in Client, O[c].at = "none",
           NEW r \in Call, r.at = "check", Unclaimed(r.ptr, L, O), Good(U, r.ptr, Need(r.want))
    PROVE  Clients(U, L, [O EXCEPT ![c] = r])
<1> DEFINE N == [O EXCEPT ![c] = r]
<1>1. O \in [Client -> Call]
    BY DEF Clients
<1>2. N \in [Client -> Call] /\ N[c] = r /\ \A d \in Client : d # c => N[d] = O[d]
    BY <1>1
<1> HIDE DEF N
<1>3. Busy(N) = Busy(O) \cup {c} /\ Copying(N) = Copying(O) /\ c \notin Busy(O)
      /\ c \notin Copying(O)
    BY <1>2 DEF Busy, Copying
<1>4. /\ \A d \in Busy(O) : d # c /\ N[d] = O[d]
      /\ \A d \in Copying(O) : d # c /\ N[d] = O[d]
    BY <1>2, <1>3 DEF Busy, Copying
<1>5. Backed(U, L, N)
    BY <1>2, <1>3, <1>4 DEF Clients, Backed
<1>6. Separate(L, N)
    <2>1. /\ \A a, b \in L : a.ptr = b.ptr => a = b
          /\ \A a \in L, d \in Busy(N) : a.ptr # N[d].ptr
          /\ \A a \in L, d \in Copying(N) : a.ptr # N[d].new
        BY <1>2, <1>3, <1>4 DEF Clients, Separate, Unclaimed
    <2>2. \A e, d \in Busy(N) : e # d => N[e].ptr # N[d].ptr
        BY <1>2, <1>3, <1>4 DEF Clients, Separate, Unclaimed
    <2>3. /\ \A e \in Busy(N), d \in Copying(N) : N[e].ptr # N[d].new
          /\ \A e, d \in Copying(N) : e # d => N[e].new # N[d].new
        BY <1>2, <1>3, <1>4 DEF Clients, Separate, Unclaimed
    <2> QED BY <2>1, <2>2, <2>3 DEF Separate
<1> QED BY <1>2, <1>5, <1>6 DEF Clients, N

(* A step of realloc that keeps the pointers it holds. *)
LEMMA OpMoves ==
    ASSUME NEW U, NEW L, NEW O, Clients(U, L, O), NEW c \in Client, O[c].at # "none",
           NEW r \in Call, r.at # "none",
           r.ptr = O[c].ptr, r.want = O[c].want, r.size = O[c].size, r.new = O[c].new,
           r.at \in {"copy", "free"} <=> O[c].at \in {"copy", "free"},
           r.at = "shrink" => Good(U, r.ptr, align_size(r.size))
    PROVE  Clients(U, L, [O EXCEPT ![c] = r])
<1> DEFINE N == [O EXCEPT ![c] = r]
<1>1. O \in [Client -> Call]
    BY DEF Clients
<1>2. N \in [Client -> Call] /\ N[c] = r /\ \A d \in Client : d # c => N[d] = O[d]
    BY <1>1
<1> HIDE DEF N
<1>3. Busy(N) = Busy(O) /\ Copying(N) = Copying(O)
    BY <1>2 DEF Busy, Copying
<1>4. \A d \in Client : /\ N[d].ptr = O[d].ptr /\ N[d].want = O[d].want
                        /\ N[d].size = O[d].size /\ N[d].new = O[d].new
    BY <1>2
<1>4a. \A d \in Busy(O) : d \in Client
    BY DEF Busy
<1>4b. \A d \in Copying(O) : d \in Client
    BY DEF Copying
<1>5. Backed(U, L, N)
    <2>1. \A d \in Busy(N) : N[d].at = "shrink" => Good(U, N[d].ptr, align_size(N[d].size))
        BY <1>2, <1>3, <1>4a DEF Clients, Backed
    <2> QED BY <1>3, <1>4, <1>4a, <1>4b, <2>1 DEF Clients, Backed
<1>6. Separate(L, N)
    BY <1>3, <1>4, <1>4a, <1>4b DEF Clients, Separate
<1> QED BY <1>2, <1>5, <1>6 DEF Clients, N

(* realloc gets a second block. *)
LEMMA OpGrows ==
    ASSUME NEW U, NEW L, NEW O, Clients(U, L, O), NEW c \in Client, O[c].at = "grow",
           NEW r \in Call, r.at = "copy",
           r.ptr = O[c].ptr, r.want = O[c].want, r.size = O[c].size,
           Unclaimed(r.new, L, O), Good(U, r.new, align_size(r.size))
    PROVE  Clients(U, L, [O EXCEPT ![c] = r])
<1> DEFINE N == [O EXCEPT ![c] = r]
<1>1. O \in [Client -> Call]
    BY DEF Clients
<1>2. N \in [Client -> Call] /\ N[c] = r /\ \A d \in Client : d # c => N[d] = O[d]
    BY <1>1
<1> HIDE DEF N
<1>3. Busy(N) = Busy(O) /\ c \in Busy(O)
    BY <1>2 DEF Busy
<1>3a. Copying(N) = Copying(O) \cup {c} /\ c \notin Copying(O)
    BY <1>2 DEF Copying
<1>4. /\ \A d \in Busy(O) : N[d].ptr = O[d].ptr /\ N[d].want = O[d].want
      /\ \A d \in Copying(O) : d # c /\ N[d] = O[d]
    BY <1>2, <1>3a DEF Busy, Copying
<1>5. Backed(U, L, N)
    <2>1. \A d \in Busy(N) : N[d].at = "shrink" => Good(U, N[d].ptr, align_size(N[d].size))
        <3>1. \A d \in Busy(O) : d \in Client
            BY DEF Busy
        <3> QED BY <1>2, <1>3, <3>1 DEF Clients, Backed
    <2>2. \A d \in Copying(N) : Good(U, N[d].new, align_size(N[d].size))
        BY <1>2, <1>3a, <1>4 DEF Clients, Backed
    <2> QED BY <1>3, <1>4, <2>1, <2>2 DEF Clients, Backed
<1>6. Separate(L, N)
    <2>1. /\ \A a, b \in L : a.ptr = b.ptr => a = b
          /\ \A a \in L, d \in Busy(N) : a.ptr # N[d].ptr
          /\ \A e, d \in Busy(N) : e # d => N[e].ptr # N[d].ptr
        BY <1>3, <1>4 DEF Clients, Separate
    <2>2. \A a \in L, d \in Copying(N) : a.ptr # N[d].new
        BY <1>2, <1>3a, <1>4 DEF Clients, Separate, Unclaimed
    <2>3. \A e \in Busy(N), d \in Copying(N) : N[e].ptr # N[d].new
        BY <1>2, <1>3, <1>3a, <1>4 DEF Clients, Separate, Unclaimed
    <2>4. \A e, d \in Copying(N) : e # d => N[e].new # N[d].new
        BY <1>2, <1>3a, <1>4 DEF Clients, Separate, Unclaimed
    <2> QED BY <2>1, <2>2, <2>3, <2>4 DEF Separate
<1> QED BY <1>2, <1>5, <1>6 DEF Clients, N

(* The inductive invariant: the blocks tile the heap, the count of what    *)
(* was handed out is right, and everything held is backed by a block of    *)
(* its own.                                                                *)
BlocksInv ==
    /\ heap_initialized \in BOOLEAN
    /\ split_beside_free \in BOOLEAN
    /\ heap_blocks \in Seq(Block)
    /\ ~heap_initialized => heap_blocks = <<>>
    /\ Tiles(heap_init_once)
    /\ heap_init_once = <<>> <=> InitialBlocks = <<>>
    /\ ~split_beside_free => Merged(heap_blocks)

CountInv ==
    /\ given \in Nat
    /\ IsFiniteSet(Used(heap_blocks))
    /\ Cardinality(Used(heap_blocks)) = given

HeapInv == BlocksInv /\ CountInv /\ Clients(Used(heap_blocks), live, op)

-----------------------------------------------------------------------------
(* Nothing is in use in an empty list. *)
LEMMA UsedEmpty == Used(<<>>) = {}
BY DEF Used, ToSet

(* The heap after heap_init_once: one free block, or none if there is no   *)
(* room for a header.                                                      *)
LEMMA InitialTiles ==
    /\ Tiles(InitialBlocks)
    /\ Used(InitialBlocks) = {}
    /\ Merged(InitialBlocks)
<1>0. /\ Header \in Nat /\ HEAP_ALIGN \in Nat \ {0} /\ Header % HEAP_ALIGN = 0
    BY HeapAssumption
<1>1. CASE heap_end_addr <= heap_start_addr + Header
    <2>1. InitialBlocks = <<>>
        BY <1>1 DEF InitialBlocks
    <2>2. Tiles(<<>>) /\ Merged(<<>>)
        BY DEF Tiles, Chain, Ordered, Merged
    <2> QED BY <2>1, <2>2, UsedEmpty
<1>2. CASE ~(heap_end_addr <= heap_start_addr + Header)
    <2> DEFINE b == [addr |-> heap_start_addr,
                     size |-> heap_end_addr - heap_start_addr - Header, free |-> TRUE]
               bs == <<b>>
    <2>1. InitialBlocks = bs
        BY <1>2 DEF InitialBlocks
    <2>2. /\ heap_start_addr \in Nat /\ heap_start_addr % HEAP_ALIGN = 0
          /\ heap_end_addr \in Nat /\ heap_end_addr % HEAP_ALIGN = 0
        BY Bounds
    <2>3. b.size \in Nat
        BY <1>0, <1>2, <2>2
    <2>4. b \in Block /\ b.addr = heap_start_addr /\ End(b) = heap_end_addr /\ b.free
        BY <1>0, <2>2, <2>3 DEF Block, End
    <2>5. b.size % HEAP_ALIGN = 0
        <3>0. ASSUME NEW x \in Int, NEW y \in Int, x % HEAP_ALIGN = 0, y % HEAP_ALIGN = 0
              PROVE  (x - y) % HEAP_ALIGN = 0
            BY <1>0, <3>0, AlignedSums
        <3>1. (heap_end_addr - heap_start_addr) % HEAP_ALIGN = 0
            BY <2>2, <3>0
        <3>2. heap_end_addr - heap_start_addr \in Int
            BY <2>2
        <3>3. ((heap_end_addr - heap_start_addr) - Header) % HEAP_ALIGN = 0
            BY <1>0, <3>0, <3>1, <3>2
        <3>4. b.size = (heap_end_addr - heap_start_addr) - Header
            OBVIOUS
        <3> QED BY <3>3, <3>4, Zenon
    <2>6. Aligned(b)
        BY <2>2, <2>4, <2>5 DEF Aligned
    <2> HIDE DEF b
    <2>7. bs \in Seq(Block) /\ Len(bs) = 1 /\ bs[1] = b /\ bs # <<>>
        BY <2>4
    <2> HIDE DEF bs
    <2>8. Tiles(bs)
        BY <2>4, <2>6, <2>7, MakeTiles
    <2>9. Merged(bs)
        BY <2>7 DEF Merged
    <2>10. Used(bs) = {}
        BY <2>4, <2>7, UsedFacts
    <2> QED BY <2>1, <2>8, <2>9, <2>10
<1> QED BY <1>1, <1>2

(* The list a call works on. *)
LEMMA ListFacts ==
    ASSUME BlocksInv
    PROVE  /\ Tiles(heap_init_once)
           /\ Used(heap_init_once) = Used(heap_blocks)
           /\ heap_initialized => heap_init_once = heap_blocks
           /\ Used(heap_blocks) # {} => heap_initialized
           /\ heap_init_once = <<>> <=> InitialBlocks = <<>>
           /\ ~split_beside_free => Merged(heap_init_once)
<1>1. CASE heap_initialized
    BY <1>1 DEF BlocksInv, heap_init_once
<1>2. CASE ~heap_initialized
    <2>1. heap_init_once = InitialBlocks /\ heap_blocks = <<>>
        BY <1>2 DEF BlocksInv, heap_init_once
    <2> QED BY <1>2, <2>1, UsedEmpty, InitialTiles
<1> QED BY <1>1, <1>2

(* A block in use, its place in the list and its pointer. *)
LEMMA BlockAt ==
    ASSUME NEW bs, Tiles(bs), NEW b \in Used(bs)
    PROVE  /\ BlockOf(bs, Data(b)) \in 1..Len(bs)
           /\ bs[BlockOf(bs, Data(b))] = b
           /\ b \in Block /\ ~b.free
<1>1. bs \in Seq(Block) /\ DOMAIN bs = 1..Len(bs) /\ \A i \in 1..Len(bs) : bs[i] \in Block
    BY TileFacts
<1>2. PICK j \in 1..Len(bs) : bs[j] = b /\ ~b.free
    BY <1>1, UsedFacts
<1> DEFINE i == BlockOf(bs, Data(b))
<1>3. i \in 1..Len(bs) /\ Data(bs[i]) = Data(b)
    BY <1>1, <1>2 DEF BlockOf
<1> HIDE DEF i
<1>4. bs[i] \in Block /\ b \in Block
    BY <1>1, <1>2, <1>3
<1>5. bs[i].addr = bs[j].addr
    <2>1. bs[i].addr \in Nat /\ b.addr \in Nat /\ Header \in Nat
        BY <1>4, HeapAssumption DEF Block
    <2>2. bs[i].addr + Header = b.addr + Header
        BY <1>3 DEF Data
    <2> QED BY <1>2, <2>1, <2>2
<1>6. i = j
    BY <1>3, <1>5, AddressesDiffer
<1> QED BY <1>2, <1>3, <1>4, <1>6 DEF i

(* Blocks with the same pointer are the same. *)
LEMMA PointersDiffer ==
    ASSUME NEW bs, Tiles(bs), NEW i \in 1..Len(bs), NEW j \in 1..Len(bs),
           Data(bs[i]) = Data(bs[j])
    PROVE  i = j
<1>1. bs[i] \in Block /\ bs[j] \in Block
    BY TileFacts
<1>2. bs[i].addr \in Nat /\ bs[j].addr \in Nat /\ Header \in Nat
    BY <1>1, HeapAssumption DEF Block
<1>3. bs[i].addr = bs[j].addr
    BY <1>2 DEF Data
<1> QED BY <1>3, AddressesDiffer

(* The list after a call. *)
LEMMA BlocksAfter ==
    ASSUME heap_initialized' = TRUE, Tiles(heap_blocks'), split_beside_free' \in BOOLEAN,
           ~split_beside_free' => Merged(heap_blocks'),
           heap_blocks' = <<>> <=> InitialBlocks = <<>>
    PROVE  BlocksInv'
<1>1. heap_init_once' = heap_blocks'
    BY DEF heap_init_once
<1>2. heap_blocks' \in Seq(Block)
    BY DEF Tiles
<1>3. Tiles(heap_init_once)'
    BY <1>1 DEF Tiles, Chain, Ordered, Aligned, End
<1>4. (~split_beside_free => Merged(heap_blocks))'
    BY DEF Merged
<1>5. InitialBlocks' = InitialBlocks
    BY DEF InitialBlocks
<1> QED BY <1>1, <1>2, <1>3, <1>4, <1>5 DEF BlocksInv

(* What malloc does to the heap when it finds room. *)
TookOK(i, size, x) ==
    /\ x \in Block /\ ~x.free
    /\ Data(x) = Data(heap_init_once[i])
    /\ x.size >= align_size(size)
    /\ \A b \in Used(heap_blocks) : Data(b) # Data(x)
    /\ Used(heap_blocks)' = Used(heap_blocks) \cup {x}

(* malloc takes the first block that fits. *)
LEMMA MallocEffect ==
    ASSUME HeapInv, NEW size \in 0..SizeMax, NEW i, MallocTakes(i, size),
           UNCHANGED split_beside_free
    PROVE  BlocksInv' /\ CountInv' /\ \E x : TookOK(i, size, x)
<1> DEFINE bs == heap_init_once
           need == align_size(size)
           r == Allocated(bs, i, need)
<1>1. need \in Nat /\ need % HEAP_ALIGN = 0
    BY AlignSize
<1>2. /\ Tiles(bs) /\ Used(bs) = Used(heap_blocks)
      /\ ~split_beside_free => Merged(bs)
    BY ListFacts DEF HeapInv
<1>3. DOMAIN bs = 1..Len(bs) /\ bs \in Seq(Block) /\ Len(bs) \in Nat
    BY <1>2, TileFacts
<1>4. i \in Fitting(bs, need)
    <2>1. Fitting(bs, need) # {} /\ i = Min(Fitting(bs, need))
        BY DEF MallocTakes, FirstFit
    <2>2. Fitting(bs, need) \subseteq Nat
        BY <1>3 DEF Fitting
    <2> QED BY <2>1, <2>2, MinLeast
<1>5. i \in 1..Len(bs) /\ bs[i].free /\ bs[i].size >= need
    BY <1>3, <1>4 DEF Fitting
<1>6. heap_initialized' = TRUE /\ heap_blocks' = r /\ given' = given + 1
    BY DEF MallocTakes
<1> HIDE DEF bs, need
<1>7. PICK x : AllocOK(bs, r, i, need, x)
    BY <1>1, <1>2, <1>5, AllocatedEffect
<1> HIDE DEF r
<1>8. /\ r # <<>>
      /\ Tiles(r) /\ x \in Block /\ x.addr = bs[i].addr /\ ~x.free /\ x.size >= need
      /\ Used(r) = Used(bs) \cup {x}
      /\ Merged(bs) => Merged(r)
    BY <1>7 DEF AllocOK
<1>9. Data(x) = Data(bs[i])
    BY <1>8 DEF Data
<1>10. ASSUME NEW b \in Used(bs) PROVE Data(b) # Data(x)
    <2>1. ~b.free
        BY <1>2, BlockAt
    <2>2. PICK j \in 1..Len(bs) : bs[j] = b
        BY <1>3, UsedFacts
    <2> QED BY <1>2, <1>5, <1>9, <2>1, <2>2, PointersDiffer
<1>11. Used(heap_blocks)' = Used(heap_blocks) \cup {x}
    <2>1. Used(heap_blocks)' = Used(heap_blocks')
        BY DEF Used, ToSet
    <2> QED BY <1>2, <1>6, <1>8, <2>1
<1>12. TookOK(i, size, x)
    BY <1>2, <1>8, <1>9, <1>10, <1>11 DEF TookOK, bs, need
<1>13. BlocksInv'
    <2>1. split_beside_free' \in BOOLEAN /\ (~split_beside_free' => Merged(r))
        BY <1>2, <1>8 DEF HeapInv, BlocksInv
    <2>2. bs # <<>>
        BY <1>3, <1>5
    <2>3. InitialBlocks # <<>>
        BY <2>2, ListFacts DEF HeapInv, bs
    <2> QED BY <1>6, <1>8, <2>1, <2>3, BlocksAfter
<1>14. CountInv'
    <2>1. x \notin Used(heap_blocks)
        BY <1>2, <1>10
    <2>2. /\ given \in Nat /\ IsFiniteSet(Used(heap_blocks))
          /\ Cardinality(Used(heap_blocks)) = given
        BY DEF HeapInv, CountInv
    <2>3. /\ IsFiniteSet(Used(heap_blocks) \cup {x})
          /\ Cardinality(Used(heap_blocks) \cup {x}) = given + 1
        BY <2>1, <2>2, FS_AddElement
    <2> QED BY <1>6, <1>11, <2>2, <2>3 DEF CountInv
<1> QED BY <1>12, <1>13, <1>14

(* What free does to the heap. *)
LEMMA FreeEffect ==
    ASSUME HeapInv, NEW b \in Used(heap_blocks), FreeBlock(Data(b)),
           UNCHANGED split_beside_free
    PROVE  BlocksInv' /\ CountInv' /\ Used(heap_blocks)' = Used(heap_blocks) \ {b}
<1> DEFINE bs == heap_blocks
           i == BlockOf(bs, Data(b))
           r == Freed(bs, i)
<1>1. heap_initialized /\ heap_init_once = bs /\ Tiles(bs)
    BY ListFacts DEF HeapInv
<1>2. i \in 1..Len(bs) /\ bs[i] = b
    BY <1>1, BlockAt
<1>3. heap_initialized' = TRUE /\ heap_blocks' = r /\ given' = given - 1
    BY <1>1 DEF FreeBlock
<1> HIDE DEF i
<1>4. FreedOK(bs, r, i)
    BY <1>1, <1>2, FreedEffect
<1> HIDE DEF r
<1>5. r # <<>> /\ Tiles(r) /\ Used(r) = Used(bs) \ {b} /\ (Merged(bs) => Merged(r))
    BY <1>2, <1>4 DEF FreedOK
<1>6. Used(heap_blocks)' = Used(heap_blocks) \ {b}
    <2>1. Used(heap_blocks)' = Used(heap_blocks')
        BY DEF Used, ToSet
    <2> QED BY <1>3, <1>5, <2>1
<1>7. BlocksInv'
    <2>1. split_beside_free' \in BOOLEAN /\ (~split_beside_free' => Merged(r))
        BY <1>5 DEF HeapInv, BlocksInv
    <2>2. bs # <<>>
        BY <1>1, <1>2, TileFacts
    <2>3. InitialBlocks # <<>>
        BY <1>1, <2>2, ListFacts DEF HeapInv
    <2> QED BY <1>3, <1>5, <2>1, <2>3, BlocksAfter
<1>8. CountInv'
    <2>1. /\ given \in Nat /\ IsFiniteSet(Used(heap_blocks))
          /\ Cardinality(Used(heap_blocks)) = given
        BY DEF HeapInv, CountInv
    <2>2. /\ IsFiniteSet(Used(heap_blocks) \ {b})
          /\ Cardinality(Used(heap_blocks) \ {b}) = given - 1
        BY <2>1, FS_RemoveElement
    <2>3. given - 1 \in Nat
        BY <2>2, FS_CardinalityType
    <2> QED BY <1>3, <1>6, <2>2, <2>3 DEF CountInv
<1> QED BY <1>6, <1>7, <1>8

(* Nothing is allocated at the start. *)
LEMMA InitHeap ==
    ASSUME Init
    PROVE  HeapInv
<1>1. heap_init_once = InitialBlocks /\ heap_blocks = <<>>
    BY DEF Init, heap_init_once
<1>2. BlocksInv
    <2>1. Merged(<<>>)
        BY DEF Merged
    <2>2. <<>> \in Seq(Block)
        OBVIOUS
    <2>3. heap_initialized = FALSE /\ split_beside_free = FALSE
        BY DEF Init
    <2> QED BY <1>1, <2>1, <2>2, <2>3, InitialTiles DEF BlocksInv
<1>3. Used(heap_blocks) = {}
    BY <1>1, UsedEmpty
<1>4. CountInv
    BY <1>3, FS_EmptySet DEF CountInv, Init
<1>5. NoOp \in Call /\ NoOp.at = "none"
    BY HeapAssumption DEF NoOp, Call
<1>6. op \in [Client -> Call] /\ \A c \in Client : op[c].at = "none"
    BY <1>5 DEF Init
<1>7. Busy(op) = {} /\ Copying(op) = {} /\ live = {}
    BY <1>6 DEF Busy, Copying, Init
<1>8. Clients(Used(heap_blocks), live, op)
    BY <1>6, <1>7 DEF Clients, Backed, Separate
<1> QED BY <1>2, <1>4, <1>8 DEF HeapInv

(* Only the flag and the list change, the list to what heap_init_once      *)
(* makes it: failed calls and queries.                                     *)
LEMMA HeapSame ==
    ASSUME HeapInv, heap_initialized' = TRUE, heap_blocks' = heap_init_once,
           UNCHANGED <<given, split_beside_free>>
    PROVE  BlocksInv' /\ CountInv' /\ Used(heap_blocks)' = Used(heap_blocks)
<1>1. /\ Tiles(heap_init_once) /\ Used(heap_init_once) = Used(heap_blocks)
      /\ ~split_beside_free => Merged(heap_init_once)
      /\ heap_init_once = <<>> <=> InitialBlocks = <<>>
    BY ListFacts DEF HeapInv
<1>2. Used(heap_blocks)' = Used(heap_blocks')
    BY DEF Used, ToSet
<1>3. split_beside_free \in BOOLEAN
    BY DEF HeapInv, BlocksInv
<1>4. BlocksInv'
    BY <1>1, <1>3, BlocksAfter
<1>5. CountInv'
    BY <1>1, <1>2 DEF HeapInv, CountInv
<1> QED BY <1>1, <1>2, <1>4, <1>5

(* The steps that do not touch the heap. *)
LEMMA HeapUnchanged ==
    ASSUME HeapInv, UNCHANGED <<heap_initialized, heap_blocks, given, split_beside_free>>
    PROVE  BlocksInv' /\ CountInv' /\ Used(heap_blocks)' = Used(heap_blocks)
<1>1. heap_init_once' = heap_init_once
    BY DEF heap_init_once, InitialBlocks
<1>2. Used(heap_blocks)' = Used(heap_blocks)
    BY DEF Used, ToSet
<1>3. BlocksInv'
    <2>1. Tiles(heap_init_once)' <=> Tiles(heap_init_once')
        BY DEF Tiles, Chain, Ordered, Aligned, End
    <2>2. Merged(heap_blocks)' <=> Merged(heap_blocks')
        BY DEF Merged
    <2>3. InitialBlocks' = InitialBlocks
        BY DEF InitialBlocks
    <2> QED BY <1>1, <2>1, <2>2, <2>3 DEF HeapInv, BlocksInv
<1>4. CountInv'
    BY <1>2 DEF HeapInv, CountInv
<1> QED BY <1>2, <1>3, <1>4

(* The invariant after a step, from its parts. *)
LEMMA HeapAfter ==
    ASSUME BlocksInv', CountInv', NEW U, Used(heap_blocks)' = U, Clients(U, live', op')
    PROVE  HeapInv'
<1>1. Clients(Used(heap_blocks), live, op)' <=> Clients(Used(heap_blocks)', live', op')
    BY DEF Clients, Backed, Separate, Good, Busy, Copying
<1> QED BY <1>1 DEF HeapInv

(* malloc and calloc. *)
LEMMA MallocInv ==
    ASSUME HeapInv, NEW c \in Client, NEW size \in 0..SizeMax, NEW want \in Nat,
           Need(want) <= align_size(size), Malloc(c, size, want)
    PROVE  HeapInv'
<1> DEFINE U == Used(heap_blocks)
<1>0. Clients(U, live, op) /\ align_size(size) \in Nat /\ Need(want) \in Nat
    BY AlignSize DEF HeapInv, Need
<1>1. op' = op /\ split_beside_free' = split_beside_free
    BY DEF Malloc
<1>2. CASE MallocFails(size) /\ UNCHANGED live
    <2>1. BlocksInv' /\ CountInv' /\ Used(heap_blocks)' = U
        BY <1>1, <1>2, HeapSame DEF MallocFails
    <2> HIDE DEF U
    <2> QED BY <1>0, <1>1, <1>2, <2>1, HeapAfter
<1>3. CASE \E i \in DOMAIN heap_init_once :
              /\ MallocTakes(i, size)
              /\ live' = live \cup {[ptr |-> Data(heap_init_once[i]), want |-> want]}
    <2>1. PICK i : /\ MallocTakes(i, size)
                   /\ live' = live \cup {[ptr |-> Data(heap_init_once[i]), want |-> want]}
        BY <1>3
    <2>2. BlocksInv' /\ CountInv'
        BY <1>1, <2>1, MallocEffect
    <2>3. PICK x : TookOK(i, size, x)
        BY <1>1, <2>1, MallocEffect
    <2> DEFINE p == Data(x)
    <2>4. /\ x \in Block /\ p = Data(heap_init_once[i]) /\ x.size >= align_size(size)
          /\ \A b \in U : Data(b) # p
          /\ Used(heap_blocks)' = U \cup {x}
        BY <2>3 DEF TookOK
    <2>5. p \in Nat /\ x.size \in Nat
        BY <2>4, BlockFacts
    <2> HIDE DEF U, p
    <2>6. Good(U \cup {x}, p, Need(want))
        <3>1. x.size >= Need(want)
            BY <1>0, <2>4, <2>5
        <3> QED BY <3>1 DEF Good, p
    <2>7. Unclaimed(p, live, op)
        BY <1>0, <2>4, FreshUnclaimed
    <2>8. Clients(U \cup {x}, live, op)
        BY <1>0, MoreBlocks
    <2>9. Clients(U \cup {x}, live \cup {[ptr |-> p, want |-> want]}, op)
        BY <2>5, <2>6, <2>7, <2>8, GetsPointer
    <2> QED BY <1>1, <2>1, <2>2, <2>4, <2>9, HeapAfter
<1> QED BY <1>2, <1>3 DEF Malloc

(* A size that is asked for as it is, is served or wraps. *)
LEMMA NeedMet ==
    ASSUME NEW size \in 0..SizeMax
    PROVE  Need(size) <= align_size(size) /\ size \in Nat
<1>1. align_size(size) \in 0..SizeMax /\ (~Wraps(size) => align_size(size) >= size)
    BY AlignSize
<1> QED BY <1>1, HeapAssumption DEF Need

(* The product of calloc is the size that is allocated. *)
LEMMA ProductFits ==
    ASSUME NEW count \in 0..SizeMax, NEW size \in 0..SizeMax,
           ~(count # 0 /\ size > SizeMax \div count)
    PROVE  /\ count * size \in 0..SizeMax
           /\ (count * size) % (SizeMax + 1) = count * size
<1>0. SizeMax \in Nat /\ count \in Nat /\ size \in Nat
    BY HeapAssumption
<1>1. count * size \in Nat
    BY <1>0
<1>2. count * size <= SizeMax
    <2>1. CASE count = 0
        BY <1>0, <2>1
    <2>2. CASE count # 0
        <3> DEFINE q == SizeMax \div count
        <3>1. count \in Nat \ {0} /\ SizeMax \in Int
            BY <1>0, <2>2
        <3>2. q \in Int /\ SizeMax = count * q + (SizeMax % count) /\ SizeMax % count >= 0
              /\ SizeMax % count \in Int
            BY <3>1, DivMod
        <3>3. size <= q
            BY <1>0, <2>2, <3>2
        <3> HIDE DEF q
        <3>4. count * size <= count * q
            BY <1>0, <3>2, <3>3
        <3>5. count * q \in Int
            BY <1>0, <3>2
        <3> QED BY <1>0, <1>1, <3>2, <3>4, <3>5
    <2> QED BY <2>1, <2>2
<1> DEFINE m == count * size
<1>3. m \in 0..SizeMax
    BY <1>0, <1>1, <1>2
<1> HIDE DEF m
<1>4. m % (SizeMax + 1) = m
    BY <1>0, <1>3
<1> QED BY <1>3, <1>4 DEF m

(* free. *)
LEMMA FreeInv ==
    ASSUME HeapInv, NEW c \in Client, NEW a \in live, free(c, a)
    PROVE  HeapInv'
<1> DEFINE U == Used(heap_blocks)
<1>1. /\ FreeBlock(a.ptr) /\ live' = live \ {a} /\ op' = op
      /\ split_beside_free' = split_beside_free
    BY DEF free
<1>2. Clients(U, live \ {a}, op) /\ Unclaimed(a.ptr, live \ {a}, op)
      /\ Good(U, a.ptr, Need(a.want))
    BY GivesPointer DEF HeapInv
<1>3. PICK b \in U : Data(b) = a.ptr
    BY <1>2 DEF Good
<1>4. BlocksInv' /\ CountInv' /\ Used(heap_blocks)' = U \ {b}
    BY <1>1, <1>3, FreeEffect
<1> HIDE DEF U
<1>5. Clients(U \ {b}, live \ {a}, op)
    BY <1>2, <1>3, LessBlocks
<1> QED BY <1>1, <1>4, <1>5, HeapAfter

(* The call of a client. *)
LEMMA CallFacts ==
    ASSUME HeapInv, NEW c \in Client
    PROVE  /\ op \in [Client -> Call]
           /\ op[c] \in Call
           /\ op[c].ptr \in Nat /\ op[c].want \in Nat /\ op[c].new \in Nat
           /\ op[c].size \in 0..SizeMax
           /\ op[c].at \in {"none", "check", "shrink", "grow", "copy", "free"}
           /\ align_size(op[c].size) \in 0..SizeMax
           /\ align_size(op[c].size) % HEAP_ALIGN = 0
<1>1. op \in [Client -> Call] /\ op[c] \in Call
    BY DEF HeapInv, Clients
<1>2. op[c].size \in 0..SizeMax
    BY <1>1 DEF Call
<1> QED BY <1>1, <1>2, AlignSize DEF Call

(* realloc begins. *)
LEMMA ReallocInv ==
    ASSUME HeapInv, NEW c \in Client, NEW a \in live, NEW size \in Sizes, realloc(c, a, size)
    PROVE  HeapInv'
<1> DEFINE U == Used(heap_blocks)
           L == live \ {a}
           r == [at |-> "check", ptr |-> a.ptr, want |-> a.want, size |-> size, new |-> 0]
<1>1. op[c].at = "none" /\ live' = L /\ op' = [op EXCEPT ![c] = r]
    BY DEF realloc, At, SetOp
<1>2. BlocksInv' /\ CountInv' /\ Used(heap_blocks)' = U
    BY HeapUnchanged DEF realloc
<1>3. /\ Clients(U, L, op) /\ Unclaimed(a.ptr, L, op) /\ Good(U, a.ptr, Need(a.want))
      /\ a.ptr \in Nat /\ a.want \in Nat
    BY GivesPointer DEF HeapInv
<1>4. r \in Call /\ r.at = "check" /\ r.ptr = a.ptr /\ r.want = a.want
    BY <1>3, HeapAssumption DEF Call
<1> HIDE DEF U, L, r
<1>5. Clients(U, L, [op EXCEPT ![c] = r])
    BY <1>1, <1>3, <1>4, OpBegins
<1> QED BY <1>1, <1>2, <1>5, HeapAfter

(* The block that a realloc works on. *)
LEMMA OldFacts ==
    ASSUME HeapInv, NEW c \in Client, op[c].at # "none"
    PROVE  /\ heap_initialized /\ heap_init_once = heap_blocks /\ Tiles(heap_blocks)
           /\ Old(c) \in Used(heap_blocks) /\ Data(Old(c)) = op[c].ptr
           /\ Old(c) \in Block
           /\ BlockOf(heap_blocks, op[c].ptr) \in 1..Len(heap_blocks)
           /\ heap_blocks[BlockOf(heap_blocks, op[c].ptr)] = Old(c)
           /\ op[c].at = "shrink" => Old(c).size >= align_size(op[c].size)
<1> DEFINE U == Used(heap_blocks)
<1>1. c \in Busy(op) /\ Clients(U, live, op)
    BY DEF Busy, HeapInv
<1>2. Good(U, op[c].ptr, Need(op[c].want))
    BY <1>1 DEF Clients, Backed
<1>3. PICK b \in U : Data(b) = op[c].ptr
    BY <1>2 DEF Good
<1>4. heap_initialized /\ heap_init_once = heap_blocks /\ Tiles(heap_blocks)
    BY <1>3, ListFacts DEF HeapInv
<1>5. /\ BlockOf(heap_blocks, op[c].ptr) \in 1..Len(heap_blocks)
      /\ heap_blocks[BlockOf(heap_blocks, op[c].ptr)] = b
      /\ b \in Block
    BY <1>3, <1>4, BlockAt
<1>6. Old(c) = b
    BY <1>5 DEF Old
<1>7. ASSUME op[c].at = "shrink" PROVE b.size >= align_size(op[c].size)
    <2>1. Good(U, op[c].ptr, align_size(op[c].size))
        BY <1>1, <1>7 DEF Clients, Backed
    <2>2. PICK d \in U : Data(d) = op[c].ptr /\ d.size >= align_size(op[c].size)
        BY <2>1 DEF Good
    <2>3. heap_blocks[BlockOf(heap_blocks, op[c].ptr)] = d
        BY <1>4, <2>2, BlockAt
    <2> QED BY <1>5, <2>2, <2>3
<1> QED BY <1>3, <1>4, <1>5, <1>6, <1>7

(* realloc looks at the size. *)
LEMMA CheckInv ==
    ASSUME HeapInv, NEW c \in Client, realloc_check(c)
    PROVE  HeapInv'
<1> DEFINE U == Used(heap_blocks)
           fits == Old(c).size >= align_size(op[c].size)
           r == [op[c] EXCEPT !.at = IF fits THEN "shrink" ELSE "grow"]
<1>1. op[c].at = "check" /\ live' = live /\ op' = [op EXCEPT ![c] = r]
    BY DEF realloc_check, At, SetOp
<1>2. BlocksInv' /\ CountInv' /\ Used(heap_blocks)' = U
    BY HeapUnchanged DEF realloc_check
<1>3. Clients(U, live, op) /\ op[c] \in Call
    BY CallFacts DEF HeapInv
<1>4. Old(c) \in U /\ Data(Old(c)) = op[c].ptr
    BY <1>1, OldFacts
<1> HIDE DEF fits
<1>5. /\ r \in Call /\ r.at = (IF fits THEN "shrink" ELSE "grow")
      /\ r.ptr = op[c].ptr /\ r.want = op[c].want /\ r.size = op[c].size /\ r.new = op[c].new
    BY <1>3 DEF Call
<1>6. ASSUME r.at = "shrink" PROVE Good(U, r.ptr, align_size(r.size))
    <2>1. fits
        BY <1>5, <1>6
    <2> QED BY <1>4, <1>5, <2>1 DEF Good, fits
<1> HIDE DEF U, r
<1>7. Clients(U, live, [op EXCEPT ![c] = r])
    BY <1>1, <1>3, <1>5, <1>6, OpMoves
<1> QED BY <1>1, <1>2, <1>7, HeapAfter

(* realloc has copied. *)
LEMMA CopyInv ==
    ASSUME HeapInv, NEW c \in Client, realloc_copy(c)
    PROVE  HeapInv'
<1> DEFINE U == Used(heap_blocks)
           r == [op[c] EXCEPT !.at = "free"]
<1>1. op[c].at = "copy" /\ live' = live /\ op' = [op EXCEPT ![c] = r]
    BY DEF realloc_copy, At, SetOp
<1>2. BlocksInv' /\ CountInv' /\ Used(heap_blocks)' = U
    BY HeapUnchanged DEF realloc_copy
<1>3. Clients(U, live, op) /\ op[c] \in Call
    BY CallFacts DEF HeapInv
<1>4. /\ r \in Call /\ r.at = "free"
      /\ r.ptr = op[c].ptr /\ r.want = op[c].want /\ r.size = op[c].size /\ r.new = op[c].new
    BY <1>3 DEF Call
<1> HIDE DEF U, r
<1>5. Clients(U, live, [op EXCEPT ![c] = r])
    BY <1>1, <1>3, <1>4, OpMoves
<1> QED BY <1>1, <1>2, <1>5, HeapAfter

(* What realloc does to the heap when the block is large enough. *)
ShrunkOK(b, size, x) ==
    /\ b \in Used(heap_blocks)
    /\ x \in Block /\ ~x.free /\ x.addr = b.addr
    /\ x.size >= size /\ End(x) <= End(b)
    /\ Used(heap_blocks)' = (Used(heap_blocks) \ {b}) \cup {x}

(* realloc in place cuts off what is not needed. *)
LEMMA ShrinkEffect ==
    ASSUME HeapInv, NEW c \in Client, realloc_shrink(c)
    PROVE  BlocksInv' /\ CountInv' /\ \E x : ShrunkOK(Old(c), align_size(op[c].size), x)
<1> DEFINE bs == heap_blocks
           i == BlockOf(bs, op[c].ptr)
           size == align_size(op[c].size)
           r == split_block(bs, i, size)
           b == Old(c)
           U == Used(bs)
<1>1. /\ op[c].at = "shrink" /\ heap_blocks' = r
      /\ split_beside_free' = (split_beside_free \/ (r # bs /\ i < Len(bs) /\ bs[i + 1].free))
      /\ UNCHANGED <<heap_initialized, given>>
    BY DEF realloc_shrink, At
<1>2. /\ heap_initialized /\ heap_init_once = bs /\ Tiles(bs)
      /\ b \in U /\ i \in 1..Len(bs) /\ bs[i] = b /\ b.size >= size
    BY <1>1, OldFacts
<1>3. size \in Nat /\ size % HEAP_ALIGN = 0
    BY CallFacts
<1>3a. b \in Block /\ ~b.free /\ bs \in Seq(Block)
    BY <1>2, BlockAt, TileFacts
<1> HIDE DEF bs, i, size, b
<1>4. PICK x : SplitOK(bs, r, i, size, x)
    BY <1>2, <1>3, SplitEffect
<1> HIDE DEF r
<1>5. /\ Tiles(r) /\ x \in Block /\ x.addr = b.addr /\ x.free = b.free
      /\ x.size >= size /\ End(x) <= End(b)
      /\ UsedPut(bs, r, i, x)
      /\ Merged(bs) /\ (r = bs \/ (~x.free /\ ~(i < Len(bs) /\ bs[i + 1].free))) => Merged(r)
    BY <1>2, <1>4 DEF SplitOK
<1>6. ~x.free
    BY <1>3a, <1>5
<1>7. Used(r) = (U \ {b}) \cup {x}
    BY <1>2, <1>5, <1>6 DEF UsedPut
<1>8. Used(heap_blocks)' = (U \ {b}) \cup {x}
    <2>1. Used(heap_blocks)' = Used(heap_blocks')
        BY DEF Used, ToSet
    <2> QED BY <1>1, <1>7, <2>1
<1>9. heap_initialized' = TRUE
    BY <1>1, <1>2 DEF HeapInv, BlocksInv
<1>10. split_beside_free' \in BOOLEAN
    BY <1>1
<1>11. ASSUME ~split_beside_free' PROVE Merged(r)
    <2>1. ~split_beside_free /\ ~(r # bs /\ i < Len(bs) /\ bs[i + 1].free)
        BY <1>1, <1>11
    <2>2. Merged(bs)
        BY <2>1 DEF HeapInv, BlocksInv, bs
    <2> QED BY <1>5, <1>6, <2>1, <2>2
<1>12. BlocksInv'
    <2>1. r # <<>>
        BY <1>4, <1>5, TileFacts DEF SplitOK
    <2>2. bs # <<>>
        BY <1>2, TileFacts
    <2>3. InitialBlocks # <<>>
        BY <1>2, <2>2, ListFacts DEF HeapInv
    <2> QED BY <1>1, <1>5, <1>9, <1>10, <1>11, <2>1, <2>3, BlocksAfter
<1>13. x \notin U \ {b}
    <2> SUFFICES ASSUME x \in U, x # b PROVE FALSE
        OBVIOUS
    <2>1. PICK j \in 1..Len(bs) : bs[j] = x
        BY <1>3a, UsedFacts
    <2>2. bs[j].addr = bs[i].addr
        BY <1>2, <1>5, <2>1
    <2> QED BY <1>2, <2>1, <2>2, AddressesDiffer
<1>14. CountInv'
    <2>1. given \in Nat /\ IsFiniteSet(U) /\ Cardinality(U) = given
        BY DEF HeapInv, CountInv, bs
    <2>2. IsFiniteSet(U \ {b}) /\ Cardinality(U \ {b}) = given - 1
        BY <1>2, <2>1, FS_RemoveElement
    <2> DEFINE V == U \ {b}
    <2>2a. IsFiniteSet(V) /\ Cardinality(V) = given - 1 /\ x \notin V
        BY <1>13, <2>2
    <2> HIDE DEF V
    <2>3. IsFiniteSet(V \cup {x}) /\ Cardinality(V \cup {x}) = (given - 1) + 1
        BY <2>2a, FS_AddElement
    <2>4. (given - 1) + 1 = given /\ given' = given
        BY <1>1, <2>1
    <2> QED BY <1>8, <2>1, <2>3, <2>4 DEF CountInv, V
<1>15. ShrunkOK(b, size, x)
    BY <1>2, <1>5, <1>6, <1>8 DEF ShrunkOK, bs
<1> QED BY <1>12, <1>14, <1>15 DEF b, size

(* realloc in place. *)
LEMMA ShrinkInv ==
    ASSUME HeapInv, NEW c \in Client, realloc_shrink(c)
    PROVE  HeapInv'
<1> DEFINE U == Used(heap_blocks)
           size == align_size(op[c].size)
           b == Old(c)
           p == op[c].ptr
           O == [op EXCEPT ![c] = NoOp]
           V == U \ {b}
<1>1. /\ op[c].at = "shrink" /\ live' = live \cup {[ptr |-> p, want |-> op[c].size]}
      /\ op' = O
    BY DEF realloc_shrink, At, SetOp
<1>2. Clients(U, live, O) /\ Unclaimed(p, live, O)
    BY <1>1, OpEnds DEF HeapInv
<1>3. b \in U /\ Data(b) = p /\ b \in Block
    BY <1>1, OldFacts
<1>4. op[c].size \in 0..SizeMax /\ p \in Nat /\ size \in Nat
    BY CallFacts
<1>5. BlocksInv' /\ CountInv'
    BY ShrinkEffect
<1>6. PICK x : ShrunkOK(b, size, x)
    BY ShrinkEffect
<1>7. x \in Block /\ x.addr = b.addr /\ x.size >= size /\ Used(heap_blocks)' = V \cup {x}
    BY <1>6 DEF ShrunkOK
<1>8. Data(x) = p /\ x.size \in Nat
    BY <1>3, <1>7 DEF Data, Block
<1>9. Need(op[c].size) <= size /\ op[c].size \in Nat
    BY <1>4, NeedMet
<1>9a. Need(op[c].size) \in Nat
    BY <1>9 DEF Need
<1> HIDE DEF U, b, p, O, size
<1>10. Clients(V, live, O)
    BY <1>2, <1>3, LessBlocks
<1> HIDE DEF V
<1>11. Clients(V \cup {x}, live, O)
    BY <1>10, MoreBlocks
<1>12. Good(V \cup {x}, p, Need(op[c].size))
    <2>1. x.size >= Need(op[c].size)
        BY <1>4, <1>7, <1>8, <1>9, <1>9a
    <2> QED BY <1>8, <2>1 DEF Good
<1>13. Clients(V \cup {x}, live \cup {[ptr |-> p, want |-> op[c].size]}, O)
    BY <1>2, <1>4, <1>9, <1>11, <1>12, GetsPointer
<1> QED BY <1>1, <1>5, <1>7, <1>13, HeapAfter

(* realloc allocates, or fails and leaves the old block to its caller. *)
LEMMA GrowInv ==
    ASSUME HeapInv, NEW c \in Client, realloc_grow(c)
    PROVE  HeapInv'
<1> DEFINE U == Used(heap_blocks)
           size == align_size(op[c].size)
           p == op[c].ptr
           want == op[c].want
<1>1. op[c].at = "grow" /\ split_beside_free' = split_beside_free
    BY DEF realloc_grow, At
<1>2. /\ op[c] \in Call /\ op[c].size \in 0..SizeMax /\ p \in Nat /\ want \in Nat
      /\ size \in 0..SizeMax
    BY CallFacts
<1>3. align_size(size) = size
    BY <1>2, AlignSize
<1>4. Clients(U, live, op) /\ heap_init_once = heap_blocks
    BY <1>1, OldFacts DEF HeapInv
<1>5. CASE /\ MallocFails(size)
           /\ live' = live \cup {[ptr |-> p, want |-> want]}
           /\ SetOp(c, NoOp)
    <2> DEFINE O == [op EXCEPT ![c] = NoOp]
    <2>1. Clients(U, live, O) /\ Unclaimed(p, live, O) /\ Good(U, p, Need(want))
        BY <1>1, OpEnds DEF HeapInv
    <2>2. BlocksInv' /\ CountInv' /\ Used(heap_blocks)' = U
        BY <1>1, <1>5, HeapSame DEF MallocFails
    <2>3. op' = O
        BY <1>5 DEF SetOp
    <2> HIDE DEF O, U
    <2>4. Clients(U, live \cup {[ptr |-> p, want |-> want]}, O)
        BY <1>2, <2>1, GetsPointer
    <2> QED BY <1>5, <2>2, <2>3, <2>4, HeapAfter
<1>6. CASE \E i \in DOMAIN heap_blocks :
              /\ MallocTakes(i, size)
              /\ SetOp(c, [op[c] EXCEPT !.at = "copy", !.new = Data(heap_blocks[i])])
              /\ UNCHANGED live
    <2>1. PICK i : /\ MallocTakes(i, size)
                   /\ SetOp(c, [op[c] EXCEPT !.at = "copy", !.new = Data(heap_blocks[i])])
                   /\ UNCHANGED live
        BY <1>6
    <2>2. BlocksInv' /\ CountInv'
        BY <1>1, <1>2, <2>1, MallocEffect
    <2>3. PICK x : TookOK(i, size, x)
        BY <1>1, <1>2, <2>1, MallocEffect
    <2> DEFINE q == Data(x)
               r == [op[c] EXCEPT !.at = "copy", !.new = q]
    <2>4. /\ x \in Block /\ q = Data(heap_blocks[i]) /\ x.size >= size
          /\ \A b \in U : Data(b) # q
          /\ Used(heap_blocks)' = U \cup {x}
        BY <1>3, <1>4, <2>3 DEF TookOK
    <2>5. q \in Nat /\ x.size \in Nat
        BY <2>4, BlockFacts
    <2>6. op' = [op EXCEPT ![c] = r]
        BY <2>1, <2>4 DEF SetOp
    <2> HIDE DEF q, U
    <2>7. /\ r \in Call /\ r.at = "copy" /\ r.new = q
          /\ r.ptr = op[c].ptr /\ r.want = op[c].want /\ r.size = op[c].size
        BY <1>2, <2>5 DEF Call
    <2> HIDE DEF r
    <2>8. Unclaimed(q, live, op)
        BY <1>4, <2>4, FreshUnclaimed
    <2>9. Clients(U \cup {x}, live, op)
        BY <1>4, MoreBlocks
    <2>10. Good(U \cup {x}, q, size)
        BY <2>4 DEF Good, q
    <2>11. Clients(U \cup {x}, live, [op EXCEPT ![c] = r])
        BY <1>1, <2>7, <2>8, <2>9, <2>10, OpGrows
    <2> QED BY <2>1, <2>2, <2>4, <2>6, <2>11, HeapAfter
<1> QED BY <1>5, <1>6 DEF realloc_grow

(* realloc gives the old block back. *)
LEMMA ReallocFreeInv ==
    ASSUME HeapInv, NEW c \in Client, realloc_free(c)
    PROVE  HeapInv'
<1> DEFINE U == Used(heap_blocks)
           size == align_size(op[c].size)
           b == Old(c)
           p == op[c].new
           O == [op EXCEPT ![c] = NoOp]
           V == U \ {b}
<1>1. /\ op[c].at = "free" /\ live' = live \cup {[ptr |-> p, want |-> op[c].size]}
      /\ op' = O /\ FreeBlock(op[c].ptr) /\ split_beside_free' = split_beside_free
    BY DEF realloc_free, At, SetOp
<1>2. /\ Clients(U, live, O) /\ Unclaimed(op[c].ptr, live, O) /\ Unclaimed(p, live, O)
    BY <1>1, OpEnds DEF HeapInv
<1>3. b \in U /\ Data(b) = op[c].ptr /\ b \in Block
    BY <1>1, OldFacts
<1>4. op[c].size \in 0..SizeMax /\ p \in Nat /\ size \in Nat
    BY CallFacts
<1>5. BlocksInv' /\ CountInv' /\ Used(heap_blocks)' = V
    BY <1>1, <1>3, FreeEffect
<1>6. Good(U, p, size) /\ p # op[c].ptr
    <2>1. c \in Copying(op) /\ c \in Busy(op)
        BY <1>1 DEF Copying, Busy
    <2> QED BY <2>1 DEF HeapInv, Clients, Backed, Separate
<1>7. PICK x \in U : Data(x) = p /\ x.size >= size
    BY <1>6 DEF Good
<1>8. x \in Block /\ x.size \in Nat /\ x # b
    <2>1. Tiles(heap_blocks)
        BY <1>1, OldFacts
    <2>2. x \in Block
        BY <2>1, BlockAt
    <2> QED BY <1>3, <1>6, <1>7, <2>2 DEF Block
<1>9. Need(op[c].size) <= size /\ op[c].size \in Nat
    BY <1>4, NeedMet
<1>9a. Need(op[c].size) \in Nat
    BY <1>9 DEF Need
<1> HIDE DEF U, b, p, O, size
<1>10. Clients(V, live, O)
    BY <1>2, <1>3, LessBlocks
<1>11. Good(V, p, Need(op[c].size))
    <2>1. x.size >= Need(op[c].size)
        BY <1>4, <1>7, <1>8, <1>9, <1>9a
    <2>2. x \in V
        BY <1>7, <1>8
    <2> QED BY <1>7, <2>1, <2>2 DEF Good
<1> HIDE DEF V
<1>12. Clients(V, live \cup {[ptr |-> p, want |-> op[c].size]}, O)
    BY <1>2, <1>4, <1>9, <1>10, <1>11, GetsPointer
<1> QED BY <1>1, <1>5, <1>12, HeapAfter

(* Every step keeps the invariant. *)
LEMMA NextHeap ==
    ASSUME HeapInv, [Next]_vars
    PROVE  HeapInv'
<1>1. CASE UNCHANGED vars
    <2>1. BlocksInv' /\ CountInv' /\ Used(heap_blocks)' = Used(heap_blocks)
        BY <1>1, HeapUnchanged DEF vars
    <2>2. Clients(Used(heap_blocks), live', op')
        BY <1>1 DEF HeapInv, vars
    <2> QED BY <2>1, <2>2, HeapAfter
<1>2. ASSUME NEW c \in Client, NEW size \in Sizes, malloc(c, size)
      PROVE  HeapInv'
    <2>1. size \in 0..SizeMax
        BY HeapAssumption
    <2> QED BY <1>2, <2>1, NeedMet, MallocInv DEF malloc
<1>3. ASSUME NEW c \in Client, NEW count \in Counts, NEW size \in Sizes, calloc(c, count, size)
      PROVE  HeapInv'
    <2> DEFINE m == count * size
    <2>1. size \in 0..SizeMax /\ count \in 0..SizeMax
        BY HeapAssumption
    <2>2. m \in 0..SizeMax /\ m % (SizeMax + 1) = m
        BY <1>3, <2>1, ProductFits DEF calloc
    <2>3. Malloc(c, m % (SizeMax + 1), m)
        BY <1>3 DEF calloc
    <2> HIDE DEF m
    <2>4. Malloc(c, m, m)
        BY <2>2, <2>3
    <2> QED BY <2>2, <2>4, NeedMet, MallocInv
<1>4. ASSUME NEW c \in Client, NEW a \in live, free(c, a)
      PROVE  HeapInv'
    BY <1>4, FreeInv
<1>5. ASSUME NEW c \in Client, NEW a \in live, NEW size \in Sizes, realloc(c, a, size)
      PROVE  HeapInv'
    BY <1>5, ReallocInv
<1>6. ASSUME NEW c \in Client, heap_query(c)
      PROVE  HeapInv'
    <2>1. BlocksInv' /\ CountInv' /\ Used(heap_blocks)' = Used(heap_blocks)
        BY <1>6, HeapSame DEF heap_query
    <2>2. Clients(Used(heap_blocks), live', op')
        BY <1>6 DEF HeapInv, heap_query
    <2> QED BY <2>1, <2>2, HeapAfter
<1>7. ASSUME NEW c \in Client,
             \/ realloc_check(c) \/ realloc_shrink(c) \/ realloc_grow(c)
             \/ realloc_copy(c) \/ realloc_free(c)
      PROVE  HeapInv'
    BY <1>7, CheckInv, ShrinkInv, GrowInv, CopyInv, ReallocFreeInv
<1> QED BY <1>1, <1>2, <1>3, <1>4, <1>5, <1>6, <1>7 DEF Next

(* The invariant of the heap, for any number of clients, heap, alignment   *)
(* and header size: the blocks of malloc.c tile the heap, no pointer is    *)
(* held twice, and what is held is backed.                                 *)
THEOREM HeapCorrect == Spec => []HeapInv
<1>1. Init => HeapInv
    BY InitHeap
<1>2. HeapInv /\ [Next]_vars => HeapInv'
    BY NextHeap
<1> QED BY <1>1, <1>2, PTL DEF Spec

-----------------------------------------------------------------------------
(* What the invariant says. *)

(* The blocks tile the heap. *)
LEMMA SaysTile ==
    ASSUME HeapInv
    PROVE  BlocksTile
<1> DEFINE bs == heap_init_once
<1>1. Tiles(bs)
    BY DEF HeapInv, BlocksInv
<1>2. HeapTypeOK
    <2>1. op \in [Client -> Call] /\ live \subseteq Holding
        BY DEF HeapInv, Clients
    <2> QED BY <2>1 DEF HeapInv, BlocksInv, CountInv, HeapTypeOK, Call
<1> HIDE DEF bs
<1>3. ASSUME bs # <<>>
      PROVE  /\ bs[1].addr = heap_start_addr
             /\ End(bs[Len(bs)]) = heap_end_addr
             /\ \A i \in 1..(Len(bs) - 1) : End(bs[i]) = bs[i + 1].addr
             /\ \A i \in DOMAIN bs : bs[i].addr % HEAP_ALIGN = 0 /\ bs[i].size % HEAP_ALIGN = 0
    BY <1>1, <1>3 DEF Tiles, Chain, Aligned
<1> QED BY <1>2, <1>3 DEF BlocksTile, bs

(* What is held fits. *)
LEMMA SaysFit ==
    ASSUME HeapInv
    PROVE  HoldingsFit
<1> DEFINE U == Used(heap_blocks)
<1>1. Clients(U, live, op) /\ heap_blocks \in Seq(Block)
    BY DEF HeapInv, BlocksInv
<1>2. ASSUME NEW p, NEW want \in Nat, Good(U, p, Need(want))
      PROVE  \E i \in DOMAIN heap_blocks :
                /\ Data(heap_blocks[i]) = p
                /\ ~heap_blocks[i].free
                /\ ~Wraps(want) => heap_blocks[i].size >= want
    <2>1. PICK b \in U : Data(b) = p /\ b.size >= Need(want)
        BY <1>2 DEF Good
    <2>2. PICK i \in 1..Len(heap_blocks) : heap_blocks[i] = b /\ ~b.free
        BY <1>1, UsedFacts
    <2>3. i \in DOMAIN heap_blocks
        BY <1>1
    <2> QED BY <2>1, <2>2, <2>3 DEF Need
<1> HIDE DEF U
<1>3. ASSUME NEW a \in Held
      PROVE  a.want \in Nat /\ Good(U, a.ptr, Need(a.want))
    <2>1. CASE a \in live
        BY <1>1, <2>1 DEF Clients, Backed, Holding
    <2>2. ASSUME NEW c \in Client, ~At(c, "none"),
                 a = [ptr |-> op[c].ptr, want |-> op[c].want]
          PROVE  a.want \in Nat /\ Good(U, a.ptr, Need(a.want))
        <3>1. c \in Busy(op) /\ op[c] \in Call
            BY <1>1, <2>2 DEF Busy, At, Clients
        <3>2. a.ptr = op[c].ptr /\ a.want = op[c].want
            BY <2>2
        <3> QED BY <1>1, <3>1, <3>2 DEF Clients, Backed, Call
    <2>3. ASSUME NEW c \in Client, op[c].at \in {"copy", "free"},
                 a = [ptr |-> op[c].new, want |-> op[c].size]
          PROVE  a.want \in Nat /\ Good(U, a.ptr, Need(a.want))
        <3>1. c \in Copying(op) /\ op[c] \in Call
            BY <1>1, <2>3 DEF Copying, Clients
        <3>2. a.ptr = op[c].new /\ a.want = op[c].size
            BY <2>3
        <3>3. op[c].size \in 0..SizeMax
            BY <3>1 DEF Call
        <3>4. Need(op[c].size) <= align_size(op[c].size) /\ op[c].size \in Nat
            BY <3>3, NeedMet
        <3>5. align_size(op[c].size) \in Nat /\ Need(op[c].size) \in Nat
            BY <3>3, <3>4, AlignSize DEF Need
        <3>6. Good(U, op[c].new, align_size(op[c].size))
            BY <1>1, <3>1 DEF Clients, Backed
        <3>7. PICK b \in U : Data(b) = op[c].new /\ b.size >= align_size(op[c].size)
            BY <3>6 DEF Good
        <3>8. b.size \in Nat
            <4>1. b \in Block
                BY <1>1, UsedFacts DEF U
            <4> QED BY <4>1 DEF Block
        <3>9. b.size >= Need(op[c].size)
            BY <3>4, <3>5, <3>7, <3>8
        <3> QED BY <3>2, <3>4, <3>7, <3>9 DEF Good
    <2> QED BY <2>1, <2>2, <2>3 DEF Held
<1> QED BY <1>2, <1>3 DEF HoldingsFit

(* The indices and the blocks in use are as many. *)
LEMMA SaysNoLeak ==
    ASSUME HeapInv
    PROVE  NoLeak
<1> DEFINE bs == heap_blocks
           I == {i \in DOMAIN bs : ~bs[i].free}
           U == Used(bs)
           f == [i \in I |-> bs[i]]
<1>1. Tiles(bs) \/ bs = <<>>
    BY DEF HeapInv, BlocksInv, heap_init_once
<1>2. IsFiniteSet(U) /\ Cardinality(U) = given
    BY DEF HeapInv, CountInv
<1>3. CASE bs = <<>>
    <2>1. I = {} /\ U = {}
        BY <1>3, UsedEmpty
    <2> QED BY <1>2, <2>1 DEF NoLeak
<1>4. CASE Tiles(bs)
    <2>1. bs \in Seq(Block) /\ DOMAIN bs = 1..Len(bs)
        BY <1>4, TileFacts
    <2> HIDE DEF bs
    <2>2. f \in [I -> U]
        BY <2>1, UsedFacts
    <2>3. \A i, j \in I : f[i] = f[j] => i = j
        <3> SUFFICES ASSUME NEW i \in I, NEW j \in I, f[i] = f[j] PROVE i = j
            OBVIOUS
        <3>1. i \in 1..Len(bs) /\ j \in 1..Len(bs) /\ bs[i].addr = bs[j].addr
            BY <2>1
        <3> QED BY <1>4, <3>1, AddressesDiffer
    <2>4. \A b \in U : \E i \in I : f[i] = b
        <3> SUFFICES ASSUME NEW b \in U PROVE \E i \in I : f[i] = b
            OBVIOUS
        <3>1. PICK i \in 1..Len(bs) : bs[i] = b /\ ~b.free
            BY <2>1, UsedFacts
        <3>2. i \in I
            BY <2>1, <3>1
        <3> QED BY <3>1, <3>2
    <2>5. f \in Bijection(I, U)
        BY <2>2, <2>3, <2>4 DEF Bijection, Injection, Surjection, IsInjective
    <2>6. ExistsBijection(I, U)
        BY <2>5 DEF ExistsBijection
    <2>7. IsFiniteSet(I)
        <3>1. IsFiniteSet(1..Len(bs))
            <4>1. Len(bs) \in Nat /\ 1 \in Int
                BY <2>1
            <4> QED BY <4>1, FS_Interval
        <3>2. I \subseteq 1..Len(bs)
            BY <2>1
        <3> QED BY <3>1, <3>2, FS_Subset
    <2>8. Cardinality(U) = Cardinality(I)
        BY <2>6, <2>7, FS_Bijection
    <2> QED BY <1>2, <2>8 DEF NoLeak, bs
<1> QED BY <1>1, <1>3, <1>4

(* The two blocks of a copy. *)
LEMMA SaysCopy ==
    ASSUME HeapInv
    PROVE  CopyInBounds
<1> SUFFICES ASSUME NEW c \in Client, At(c, "copy")
             PROVE  LET size == align_size(op[c].size)
                        copy_size == IF Old(c).size < size THEN Old(c).size ELSE size
                        new == heap_blocks[BlockOf(heap_blocks, op[c].new)]
                    IN /\ ~Old(c).free /\ ~new.free
                       /\ op[c].new # op[c].ptr
                       /\ copy_size <= new.size
    BY DEF CopyInBounds
<1> DEFINE size == align_size(op[c].size)
           new == heap_blocks[BlockOf(heap_blocks, op[c].new)]
           U == Used(heap_blocks)
<1>1. op[c].at = "copy" /\ c \in Copying(op) /\ c \in Busy(op)
    BY DEF At, Copying, Busy
<1>2. Old(c) \in U /\ Tiles(heap_blocks) /\ Old(c) \in Block
    BY <1>1, OldFacts
<1>3. Clients(U, live, op)
    BY DEF HeapInv
<1>4. op[c].new # op[c].ptr
    BY <1>1, <1>3 DEF Clients, Separate
<1>5. PICK b \in U : Data(b) = op[c].new /\ b.size >= size
    BY <1>1, <1>3 DEF Clients, Backed, Good
<1>6. new = b /\ b \in Block /\ ~b.free
    BY <1>2, <1>5, BlockAt
<1>7. ~Old(c).free
    BY <1>2, BlockAt
<1>8. size \in Nat
    BY CallFacts
<1>9. Old(c).size \in Nat /\ b.size \in Nat
    BY <1>2, <1>6 DEF Block
<1> HIDE DEF size, new
<1>10. (IF Old(c).size < size THEN Old(c).size ELSE size) <= new.size
    BY <1>5, <1>6, <1>8, <1>9
<1> QED BY <1>4, <1>6, <1>7, <1>10 DEF size, new

(* malloc.c never loses a byte and never lets two blocks overlap: the      *)
(* blocks tile the heap after any splits and merges.                       *)
THEOREM TilingKept == Spec => []BlocksTile
<1>1. HeapInv => BlocksTile
    BY SaysTile
<1> QED BY <1>1, HeapCorrect, PTL

(* A pointer that malloc, calloc or realloc returned stays the data of a   *)
(* block in use with the bytes asked for, until it is given back.          *)
THEOREM HoldingsKept == Spec => []HoldingsFit
<1>1. HeapInv => HoldingsFit
    BY SaysFit
<1> QED BY <1>1, HeapCorrect, PTL

(* No path through malloc, free and realloc loses a block or hands one out *)
(* twice.                                                                  *)
THEOREM NothingLeaks == Spec => []NoLeak
<1>1. HeapInv => NoLeak
    BY SaysNoLeak
<1> QED BY <1>1, HeapCorrect, PTL

(* The loop of realloc stays inside its two blocks, both still its         *)
(* caller's, although interrupts are on.                                   *)
THEOREM CopyStaysInside == Spec => []CopyInBounds
<1>1. HeapInv => CopyInBounds
    BY SaysCopy
<1> QED BY <1>1, HeapCorrect, PTL

-----------------------------------------------------------------------------
(* Once everything has been given back, and no realloc has left a free     *)
(* block beside another, the heap is what heap_init_once made.             *)
Restored ==
    ~split_beside_free =>
        /\ Merged(heap_blocks)
        /\ given = 0 => heap_init_once = InitialBlocks

(* A merged list without a block in use has one block. *)
LEMMA SaysRestored ==
    ASSUME HeapInv
    PROVE  Restored
<1> DEFINE bs == heap_init_once
<1> SUFFICES ASSUME ~split_beside_free
             PROVE  Merged(heap_blocks) /\ (given = 0 => bs = InitialBlocks)
    BY DEF Restored
<1>1. /\ Tiles(bs) /\ Used(bs) = Used(heap_blocks) /\ Merged(bs)
      /\ bs = <<>> <=> InitialBlocks = <<>>
    BY ListFacts DEF HeapInv
<1>2. Merged(heap_blocks)
    BY DEF HeapInv, BlocksInv
<1>3. ASSUME given = 0 PROVE bs = InitialBlocks
    <2>0. bs \in Seq(Block) /\ Len(bs) \in Nat /\ \A i \in 1..Len(bs) : bs[i] \in Block
        BY <1>1, TileFacts
    <2>1. Used(bs) = {}
        BY <1>1, <1>3, FS_EmptySet DEF HeapInv, CountInv
    <2>2. \A i \in 1..Len(bs) : bs[i].free
        BY <2>0, <2>1, UsedFacts
    <2> HIDE DEF bs
    <2>3. ~(Len(bs) >= 2)
        <3> SUFFICES ASSUME Len(bs) >= 2 PROVE FALSE
            OBVIOUS
        <3>1. 1 \in 1..(Len(bs) - 1) /\ 1 \in 1..Len(bs) /\ 1 + 1 \in 1..Len(bs)
            BY <2>0
        <3>2. ~(bs[1].free /\ bs[1 + 1].free)
            BY <1>1, <3>1 DEF Merged
        <3> QED BY <2>2, <3>1, <3>2
    <2>4. CASE Len(bs) = 0
        <3>1. bs = <<>>
            BY <2>0, <2>4
        <3> QED BY <1>1, <3>1
    <2>5. CASE Len(bs) = 1
        <3> DEFINE b == bs[1]
        <3>1. b \in Block /\ b.free
            BY <2>0, <2>2, <2>5
        <3>2. b.addr = heap_start_addr /\ End(b) = heap_end_addr
            BY <1>1, <2>5, ChainFacts
        <3>3. b.size = heap_end_addr - heap_start_addr - Header /\ b.size \in Nat
              /\ heap_end_addr \in Nat /\ heap_start_addr \in Nat /\ Header \in Nat
            <4>1. b.addr \in Nat /\ b.size \in Nat /\ End(b) = b.addr + Header + b.size
                BY <3>1, BlockFacts
            <4>2. heap_end_addr \in Nat /\ heap_start_addr \in Nat
                BY Bounds
            <4>3. Header \in Nat
                BY HeapAssumption
            <4> HIDE DEF b
            <4> QED BY <3>2, <4>1, <4>2, <4>3
        <3>4. b = [addr |-> b.addr, size |-> b.size, free |-> b.free] /\ b.free = TRUE
            BY <3>1 DEF Block
        <3>5. bs = <<b>>
            BY <2>0, <2>5
        <3>6. b = [addr |-> heap_start_addr,
                   size |-> heap_end_addr - heap_start_addr - Header, free |-> TRUE]
            BY <3>2, <3>3, <3>4
        <3>8. ~(heap_end_addr <= heap_start_addr + Header)
            BY <1>1, <2>5 DEF InitialBlocks
        <3> QED BY <3>5, <3>6, <3>8 DEF InitialBlocks
    <2> QED BY <2>0, <2>3, <2>4, <2>5
<1> QED BY <1>2, <1>3

(* The regions handed out are those of the blocks in use. *)
Region(b) == [lo |-> Data(b), hi |-> End(b)]
RegionsOf(U) == {Region(b) : b \in U}

(* The mapping, before and after a step. *)
LEMMA RegionsUsed ==
    /\ regions = RegionsOf(Used(heap_blocks))
    /\ regions' = RegionsOf(Used(heap_blocks)')
BY DEF regions, RegionsOf, Region, Used

(* Blocks in use are apart from each other, and inside the heap. *)
LEMMA RegionFacts ==
    ASSUME NEW bs, Tiles(bs), NEW b \in Used(bs)
    PROVE  /\ Region(b) \in A!Region
           /\ \A d \in Used(bs) : d # b => A!Apart(Region(b), Region(d))
           /\ \A d \in Used(bs) : Region(d) = Region(b) => d = b
<1>1. bs \in Seq(Block) /\ Len(bs) \in Nat /\ \A i \in 1..Len(bs) : bs[i] \in Block
    BY TileFacts
<1>2. PICK i \in 1..Len(bs) : bs[i] = b
    BY <1>1, UsedFacts
<1>3. Len(bs) > 0
    BY <1>1, <1>2
<1>4. /\ bs[1].addr = heap_start_addr
      /\ End(bs[Len(bs)]) = heap_end_addr
      /\ \A j, l \in 1..Len(bs) : j < l => End(bs[j]) <= bs[l].addr
      /\ \A j \in 1..Len(bs) : bs[j].addr \in Nat /\ End(bs[j]) \in Nat
      /\ \A j \in 1..Len(bs) : bs[j].addr < End(bs[j])
    BY <1>3, ChainFacts
<1>5. ASSUME NEW d \in Block
      PROVE  /\ Region(d).lo = Data(d) /\ Region(d).hi = End(d)
             /\ Data(d) \in Nat /\ End(d) \in Nat /\ d.addr \in Nat
             /\ d.addr < Data(d) /\ Data(d) <= End(d)
    <2>1. d.addr \in Nat /\ d.size \in Nat /\ Header \in Nat /\ Header > 0
        BY BlockFacts
    <2> QED BY <2>1 DEF Region, Data, End
<1>6. b \in Block
    BY <1>1, <1>2
<1>7. heap_start_addr <= b.addr
    <2>1. CASE i = 1
        BY <1>2, <1>4, <1>5, <1>6, <2>1
    <2>2. CASE i > 1
        <3>1. 1 \in 1..Len(bs) /\ 1 < i
            BY <1>1, <1>3, <2>2
        <3>2. End(bs[1]) <= bs[i].addr /\ bs[1].addr < End(bs[1]) /\ bs[1].addr \in Nat
              /\ End(bs[1]) \in Nat /\ bs[i].addr \in Nat
            BY <1>2, <1>4, <3>1
        <3> QED BY <1>2, <1>4, <3>2
    <2> QED BY <1>1, <2>1, <2>2
<1>8. End(b) <= heap_end_addr
    <2>1. CASE i = Len(bs)
        BY <1>2, <1>4, <1>5, <1>6, <2>1
    <2>2. CASE i < Len(bs)
        <3> DEFINE n == Len(bs)
        <3>1. n \in 1..n /\ i < n
            BY <1>1, <1>3, <2>2
        <3>2. End(bs[i]) <= bs[n].addr /\ bs[n].addr < End(bs[n]) /\ bs[n].addr \in Nat
              /\ End(bs[n]) \in Nat /\ End(bs[i]) \in Nat
            BY <1>2, <1>4, <3>1
        <3> QED BY <1>2, <1>4, <3>2
    <2> QED BY <1>1, <2>1, <2>2
<1>9. Region(b) \in A!Region
    <2>1. heap_start_addr \in Nat /\ heap_end_addr \in Nat
        BY Bounds
    <2>2. /\ Data(b) \in Nat /\ End(b) \in Nat /\ b.addr \in Nat
          /\ b.addr < Data(b) /\ Data(b) <= End(b)
        BY <1>5, <1>6
    <2>3. Data(b) \in heap_start_addr..heap_end_addr /\ End(b) \in heap_start_addr..heap_end_addr
        BY <1>7, <1>8, <2>1, <2>2
    <2> QED BY <2>2, <2>3 DEF Region, A!Region
<1>10. ASSUME NEW d \in Used(bs), d # b PROVE A!Apart(Region(b), Region(d))
    <2>1. PICK j \in 1..Len(bs) : bs[j] = d
        BY <1>1, UsedFacts
    <2>2. d \in Block /\ i # j
        BY <1>1, <1>2, <1>10, <2>1
    <2>3. i < j \/ j < i
        BY <2>2
    <2>4. End(b) <= d.addr \/ End(d) <= b.addr
        BY <1>2, <1>4, <2>1, <2>3
    <2>5. /\ Region(b).lo = Data(b) /\ Region(b).hi = End(b)
          /\ Data(b) \in Nat /\ End(b) \in Nat /\ b.addr \in Nat /\ b.addr < Data(b)
        BY <1>5, <1>6
    <2>6. /\ Region(d).lo = Data(d) /\ Region(d).hi = End(d)
          /\ Data(d) \in Nat /\ End(d) \in Nat /\ d.addr \in Nat /\ d.addr < Data(d)
        BY <1>5, <2>2
    <2>7. End(b) < Data(d) \/ End(d) < Data(b)
        BY <2>4, <2>5, <2>6
    <2> QED BY <2>5, <2>6, <2>7 DEF A!Apart
<1>11. ASSUME NEW d \in Used(bs), Region(d) = Region(b) PROVE d = b
    <2>1. PICK j \in 1..Len(bs) : bs[j] = d
        BY <1>1, UsedFacts
    <2>2. Data(d) = Data(b)
        BY <1>11 DEF Region
    <2>3. i = j
        BY <1>2, <2>1, <2>2, PointersDiffer
    <2> QED BY <1>2, <2>1, <2>3
<1> QED BY <1>9, <1>10, <1>11

(* The list of blocks tiles the heap once it is initialised. *)
LEMMA TilesAfter ==
    ASSUME BlocksInv', heap_initialized' = TRUE
    PROVE  Tiles(heap_blocks')
<1>1. heap_init_once' = heap_blocks'
    BY DEF heap_init_once
<1>2. Tiles(heap_init_once)'
    BY DEF BlocksInv
<1>3. Tiles(heap_init_once)' <=> Tiles(heap_init_once')
    BY DEF Tiles, Chain, Ordered, Aligned, End
<1> QED BY <1>1, <1>2, <1>3

(* malloc is an allocation. *)
LEMMA MallocRefines ==
    ASSUME HeapInv, NEW size \in 0..SizeMax, NEW i, MallocTakes(i, size),
           UNCHANGED split_beside_free
    PROVE  A!Allocate
<1> DEFINE U == Used(heap_blocks)
<1>1. BlocksInv' /\ heap_initialized' = TRUE
    BY MallocEffect DEF MallocTakes
<1>2. PICK x : TookOK(i, size, x)
    BY MallocEffect
<1>3. Used(heap_blocks)' = U \cup {x} /\ \A b \in U : Data(b) # Data(x)
    BY <1>2 DEF TookOK
<1>4. Tiles(heap_blocks') /\ Used(heap_blocks)' = Used(heap_blocks')
    BY <1>1, TilesAfter DEF Used, ToSet
<1> HIDE DEF U
<1>5. x \in Used(heap_blocks') /\ \A b \in U : b \in Used(heap_blocks') /\ b # x
    BY <1>3, <1>4
<1>6. /\ Region(x) \in A!Region
      /\ \A b \in U : A!Apart(Region(x), Region(b))
    BY <1>4, <1>5, RegionFacts
<1>7. regions = RegionsOf(U) /\ regions' = RegionsOf(U \cup {x})
    BY <1>3, RegionsUsed DEF U
<1>8. regions' = regions \cup {Region(x)}
    BY <1>7 DEF RegionsOf
<1>9. \A s \in regions : A!Apart(Region(x), s)
    BY <1>6, <1>7 DEF RegionsOf
<1> QED BY <1>6, <1>8, <1>9 DEF A!Allocate

(* free is a release. *)
LEMMA FreeRefines ==
    ASSUME HeapInv, NEW b \in Used(heap_blocks), FreeBlock(Data(b)),
           UNCHANGED split_beside_free
    PROVE  A!Release
<1> DEFINE U == Used(heap_blocks)
<1>1. Used(heap_blocks)' = U \ {b}
    BY FreeEffect
<1>2. Tiles(heap_blocks)
    BY ListFacts DEF HeapInv
<1>3. \A d \in U : Region(d) = Region(b) => d = b
    BY <1>2, RegionFacts
<1>4. regions = RegionsOf(U) /\ regions' = RegionsOf(U \ {b})
    BY <1>1, RegionsUsed
<1>5. regions' = regions \ {Region(b)} /\ Region(b) \in regions
    BY <1>3, <1>4 DEF RegionsOf
<1> QED BY <1>5 DEF A!Release

(* realloc in place keeps or shrinks a region. *)
LEMMA ShrinkRefines ==
    ASSUME HeapInv, NEW c \in Client, realloc_shrink(c)
    PROVE  A!Shrink
<1> DEFINE U == Used(heap_blocks)
           b == Old(c)
<1>1. BlocksInv' /\ op[c].at = "shrink" /\ heap_initialized' = heap_initialized
    BY ShrinkEffect DEF realloc_shrink, At
<1>2. PICK x : ShrunkOK(b, align_size(op[c].size), x)
    BY ShrinkEffect
<1>3. /\ b \in U /\ x \in Block /\ x.addr = b.addr /\ End(x) <= End(b)
      /\ Used(heap_blocks)' = (U \ {b}) \cup {x}
    BY <1>2 DEF ShrunkOK
<1>4. Tiles(heap_blocks) /\ heap_initialized
    BY <1>1, OldFacts
<1>5. heap_initialized' = TRUE
    BY <1>1, <1>4 DEF HeapInv, BlocksInv
<1>6. Tiles(heap_blocks') /\ Used(heap_blocks)' = Used(heap_blocks')
    BY <1>1, <1>5, TilesAfter DEF Used, ToSet
<1> HIDE DEF U, b
<1>7. Region(x) \in A!Region
    BY <1>3, <1>6, RegionFacts
<1>8. \A d \in U : Region(d) = Region(b) => d = b
    BY <1>3, <1>4, RegionFacts DEF U
<1>9. regions = RegionsOf(U) /\ regions' = RegionsOf((U \ {b}) \cup {x})
    BY <1>3, RegionsUsed DEF U
<1>10. regions' = (regions \ {Region(b)}) \cup {Region(x)} /\ Region(b) \in regions
    BY <1>3, <1>8, <1>9 DEF RegionsOf
<1>11. Region(x).lo = Region(b).lo /\ Region(x).hi <= Region(b).hi
    BY <1>3 DEF Region, Data
<1>12. Region(x) \in regions'
    BY <1>10
<1> QED BY <1>7, <1>10, <1>11, <1>12 DEF A!Shrink

(* Each step of the heap is one of the allocator, or none. *)
LEMMA NextRefines ==
    ASSUME HeapInv, [Next]_vars
    PROVE  [A!Next]_regions
<1>1. ASSUME Used(heap_blocks)' = Used(heap_blocks) PROVE regions' = regions
    BY <1>1, RegionsUsed
<1>2. CASE UNCHANGED vars
    BY <1>1, <1>2, HeapUnchanged DEF vars
<1>3. ASSUME NEW c \in Client, NEW size \in 0..SizeMax, NEW want, Malloc(c, size, want)
      PROVE  [A!Next]_regions
    <2>1. split_beside_free' = split_beside_free
        BY <1>3 DEF Malloc
    <2>2. CASE MallocFails(size)
        BY <1>1, <2>1, <2>2, HeapSame DEF MallocFails
    <2>3. ASSUME NEW i, MallocTakes(i, size) PROVE [A!Next]_regions
        BY <2>1, <2>3, MallocRefines DEF A!Next
    <2> QED BY <1>3, <2>2, <2>3 DEF Malloc
<1>4. ASSUME NEW c \in Client, NEW size \in Sizes, malloc(c, size)
      PROVE  [A!Next]_regions
    <2>1. size \in 0..SizeMax
        BY HeapAssumption
    <2> QED BY <1>3, <1>4, <2>1 DEF malloc
<1>5. ASSUME NEW c \in Client, NEW count \in Counts, NEW size \in Sizes, calloc(c, count, size)
      PROVE  [A!Next]_regions
    <2> DEFINE m == (count * size) % (SizeMax + 1)
    <2>1. size \in 0..SizeMax /\ count \in 0..SizeMax
        BY HeapAssumption
    <2>2. m \in 0..SizeMax
        BY <1>5, <2>1, ProductFits DEF calloc
    <2>3. Malloc(c, m, count * size)
        BY <1>5 DEF calloc
    <2> HIDE DEF m
    <2> QED BY <1>3, <2>2, <2>3
<1>6. ASSUME NEW c \in Client, NEW a \in live, free(c, a)
      PROVE  [A!Next]_regions
    <2>1. FreeBlock(a.ptr) /\ split_beside_free' = split_beside_free
        BY <1>6 DEF free
    <2>2. Good(Used(heap_blocks), a.ptr, Need(a.want))
        BY DEF HeapInv, Clients, Backed
    <2>3. PICK b \in Used(heap_blocks) : Data(b) = a.ptr
        BY <2>2 DEF Good
    <2> QED BY <2>1, <2>3, FreeRefines DEF A!Next
<1>7. ASSUME NEW c \in Client, NEW a \in live, NEW size \in Sizes, realloc(c, a, size)
      PROVE  [A!Next]_regions
    BY <1>1, <1>7, HeapUnchanged DEF realloc
<1>8. ASSUME NEW c \in Client, heap_query(c)
      PROVE  [A!Next]_regions
    BY <1>1, <1>8, HeapSame DEF heap_query
<1>9. ASSUME NEW c \in Client, realloc_check(c) \/ realloc_copy(c)
      PROVE  [A!Next]_regions
    BY <1>1, <1>9, HeapUnchanged DEF realloc_check, realloc_copy
<1>10. ASSUME NEW c \in Client, realloc_shrink(c)
       PROVE  [A!Next]_regions
    BY <1>10, ShrinkRefines DEF A!Next
<1>11. ASSUME NEW c \in Client, realloc_grow(c)
       PROVE  [A!Next]_regions
    <2> DEFINE size == align_size(op[c].size)
    <2>1. split_beside_free' = split_beside_free
        BY <1>11 DEF realloc_grow
    <2>2. size \in 0..SizeMax
        BY CallFacts
    <2> HIDE DEF size
    <2>3. CASE MallocFails(size)
        BY <1>1, <2>1, <2>3, HeapSame DEF MallocFails
    <2>4. ASSUME NEW i, MallocTakes(i, size) PROVE [A!Next]_regions
        BY <2>1, <2>2, <2>4, MallocRefines DEF A!Next
    <2> QED BY <1>11, <2>3, <2>4 DEF realloc_grow, size
<1>12. ASSUME NEW c \in Client, realloc_free(c)
       PROVE  [A!Next]_regions
    <2>1. FreeBlock(op[c].ptr) /\ split_beside_free' = split_beside_free /\ op[c].at = "free"
        BY <1>12 DEF realloc_free, At
    <2>2. Old(c) \in Used(heap_blocks) /\ Data(Old(c)) = op[c].ptr
        BY <2>1, OldFacts
    <2> QED BY <2>1, <2>2, FreeRefines DEF A!Next
<1> QED BY <1>2, <1>4, <1>5, <1>6, <1>7, <1>8, <1>9, <1>10, <1>11, <1>12 DEF Next

(* malloc.c implements the abstract allocator: what it hands out lies in   *)
(* the heap, is apart from everything handed out before and stays put, and *)
(* one call changes one region.                                            *)
THEOREM Refinement == Spec => RefinesAllocator
<1>1. Init => A!Init
    <2> SUFFICES ASSUME Init PROVE A!Init
        OBVIOUS
    <2>1. Used(heap_blocks) = {}
        BY UsedEmpty DEF Init
    <2>2. regions = {}
        BY <2>1, RegionsUsed DEF RegionsOf
    <2> QED BY <2>2 DEF A!Init
<1>2. HeapInv /\ [Next]_vars => [A!Next]_regions
    BY NextRefines
<1> QED BY <1>1, <1>2, HeapCorrect, PTL DEF Spec, RefinesAllocator, A!Spec

(* What a heap with one block has free, with no induction needed. *)
LEMMA FoldOne ==
    ASSUME NEW b
    PROVE  FoldLeft(LAMBDA total, x : IF x.free THEN total + x.size ELSE total, 0, <<b>>)
           = IF b.free THEN 0 + b.size ELSE 0
<1> DEFINE D == SUBSET (DOMAIN <<b>>)
           Body(f) == [s \in D |-> IF s = {} THEN 0
                                   ELSE IF <<b>>[Max(s)].free
                                        THEN f[s \ {Max(s)}] + <<b>>[Max(s)].size
                                        ELSE f[s \ {Max(s)}]]
           iter == CHOOSE f : f = Body(f)
           r == FoldLeft(LAMBDA total, x : IF x.free THEN total + x.size ELSE total, 0, <<b>>)
           v == IF b.free THEN 0 + b.size ELSE 0
           g == [s \in D |-> IF s = {} THEN 0 ELSE v]
<1>1. r = iter[DOMAIN <<b>>]
    BY DEF FoldLeft, MapThenFoldSet
<1>2. DOMAIN <<b>> = {1} /\ <<b>>[1] = b
    OBVIOUS
<1>3. Max({1}) = 1
    BY DEF Max
<1>4. \A s \in D : s = {} \/ s = {1}
    BY <1>2
<1>5. {} \in D /\ {1} \in D
    BY <1>2
<1>6. ASSUME NEW f, f[{}] = 0, NEW s \in D
      PROVE  Body(f)[s] = IF s = {} THEN 0 ELSE v
    <2>1. CASE s = {}
        BY <2>1
    <2>2. CASE s = {1}
        <3>1. Max(s) = 1 /\ s \ {Max(s)} = {} /\ s # {} /\ <<b>>[Max(s)] = b
            BY <1>2, <1>3, <2>2
        <3>2. Body(f)[s] = IF b.free THEN f[{}] + b.size ELSE f[{}]
            BY <3>1
        <3> QED BY <1>6, <3>1, <3>2
    <2> QED BY <1>4, <2>1, <2>2
<1>7. g[{}] = 0
    BY <1>5
<1>8. g = Body(g)
    <2>1. \A s \in D : Body(g)[s] = g[s]
        BY <1>6, <1>7
    <2> QED BY <2>1
<1>9. iter = Body(iter)
    BY <1>8
<1> HIDE DEF iter
<1>10. iter[{}] = 0
    BY <1>5, <1>9
<1>11. Body(iter)[{1}] = v
    BY <1>5, <1>6, <1>10
<1> HIDE DEF Body
<1>12. iter[{1}] = v
    BY <1>9, <1>11
<1> QED BY <1>1, <1>2, <1>12

(* free merges what it gives back with its free neighbours, so that only a *)
(* realloc that shrank a block in front of a free one leaves pieces, and   *)
(* without one a heap that was given back whole has the size it started    *)
(* with.                                                                   *)
THEOREM PiecesMerge == Spec => []Coalesced
<1>1. HeapInv => Coalesced
    <2> SUFFICES ASSUME HeapInv, ~split_beside_free
                 PROVE  /\ \A i \in 1..(Len(heap_blocks) - 1) :
                              ~(heap_blocks[i].free /\ heap_blocks[i + 1].free)
                        /\ given = 0 /\ InitialBlocks # <<>> => heap_free_size = heap_total_size
        BY DEF Coalesced
    <2>1. Merged(heap_blocks) /\ (given = 0 => heap_init_once = InitialBlocks)
        BY SaysRestored DEF Restored
    <2>2. ASSUME given = 0, InitialBlocks # <<>> PROVE heap_free_size = heap_total_size
        <3> DEFINE b == [addr |-> heap_start_addr,
                         size |-> heap_end_addr - heap_start_addr - Header, free |-> TRUE]
        <3>1. ~(heap_end_addr <= heap_start_addr + Header) /\ InitialBlocks = <<b>>
            BY <2>2 DEF InitialBlocks
        <3>2. heap_start_addr \in Nat /\ heap_end_addr \in Nat /\ Header \in Nat
            BY Bounds, HeapAssumption
        <3>3. b.free /\ b.size = heap_end_addr - heap_start_addr - Header /\ b.size \in Int
            BY <3>2
        <3>4. heap_total_size = b.size
            BY <3>1, <3>2, <3>3 DEF heap_total_size
        <3> HIDE DEF b
        <3>5. heap_init_once = <<b>>
            BY <2>1, <2>2, <3>1
        <3>6. heap_free_size = 0 + b.size
            BY <3>3, <3>5, FoldOne DEF heap_free_size
        <3> QED BY <3>3, <3>4, <3>6
    <2> QED BY <2>1, <2>2 DEF Merged
<1> QED BY <1>1, HeapCorrect, PTL

=============================================================================
