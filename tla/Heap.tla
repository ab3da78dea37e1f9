-------------------------------- MODULE Heap --------------------------------
(***************************************************************************)
(* src/kernel/malloc.c: first fit over a list of blocks that tile the      *)
(* heap, each with a header; free merges neighbours.                       *)
(*                                                                         *)
(* malloc, free and the queries are one critical section each; realloc is  *)
(* several, with a loop that copies bytes in between, and any client (a    *)
(* task) can be interrupted by another outside of a critical section.  A   *)
(* client uses a pointer only between the call that returned it and the    *)
(* one that gives it back.  heap_blocks is the sequence of the blocks from *)
(* its first element to its last; the address of a block is kept with it.  *)
(***************************************************************************)
EXTENDS Integers, SequencesExt

CONSTANTS
    Client,
    heap_start, heap_end,       \* the linker's symbols
    HEAP_ALIGN,
    Header,                     \* sizeof(heap_block_t)
    SizeMax,                    \* the largest size_t
    Sizes, Counts               \* arguments the clients pass

ASSUME HeapAssumption ==
    /\ HEAP_ALIGN \in Nat \ {0}
    /\ Header \in Nat \ {0}
    /\ Header % HEAP_ALIGN = 0
    /\ SizeMax \in Nat
    /\ (SizeMax + 1) % HEAP_ALIGN = 0
    /\ heap_start \in Nat
    /\ heap_end \in heap_start..(SizeMax + 1 - HEAP_ALIGN)
    /\ Sizes \subseteq 0..SizeMax
    /\ Counts \subseteq 0..SizeMax

VARIABLES
    heap_initialized,
    heap_blocks,
    live,       \* what the clients hold: pointer and the size asked for
    op,         \* the realloc each client is in
    given,      \* history: pointers handed out and not yet taken back
    split_beside_free   \* history: realloc left a free block beside another one

vars == <<heap_initialized, heap_blocks, live, op, given, split_beside_free>>

-----------------------------------------------------------------------------
align_down(x) == x - (x % HEAP_ALIGN)
align_up(x) == align_down(x + HEAP_ALIGN - 1)

(* size_t wraps. *)
align_size(size) == align_down((size + HEAP_ALIGN - 1) % (SizeMax + 1))

heap_start_addr == align_up(heap_start)
heap_end_addr == align_down(heap_end)

Block == [addr : Nat, size : Nat, free : BOOLEAN]

(* The list after heap_init_once. *)
InitialBlocks ==
    IF heap_end_addr <= heap_start_addr + Header
    THEN <<>>
    ELSE << [addr |-> heap_start_addr,
             size |-> heap_end_addr - heap_start_addr - Header,
             free |-> TRUE] >>

heap_init_once == IF heap_initialized THEN heap_blocks ELSE InitialBlocks

Data(b) == b.addr + Header              \* block + 1
End(b) == b.addr + Header + b.size

(* MUTANT: the new block is not charged for its header. *)
split_without_header(bs, i, size) ==
    IF bs[i].size < size + Header + HEAP_ALIGN
    THEN bs
    ELSE InsertAt([bs EXCEPT ![i].size = size], i + 1,
                  [addr |-> Data(bs[i]) + size,
                   size |-> bs[i].size - size,
                   free |-> TRUE])

split_block(bs, i, size) ==
    IF bs[i].size < size + Header + HEAP_ALIGN
    THEN bs
    ELSE InsertAt([bs EXCEPT ![i].size = size], i + 1,
                  [addr |-> Data(bs[i]) + size,
                   size |-> bs[i].size - size - Header,
                   free |-> TRUE])

blocks_are_adjacent(left, right) == End(left) = right.addr

(* MUTANT: the header of the block that disappears is lost. *)
merge_loses_header(bs, i) ==
    IF i = Len(bs) \/ ~bs[i + 1].free \/ ~blocks_are_adjacent(bs[i], bs[i + 1])
    THEN bs
    ELSE RemoveAt([bs EXCEPT ![i].size = @ + bs[i + 1].size], i + 1)

merge_with_next(bs, i) ==
    IF i = Len(bs) \/ ~bs[i + 1].free \/ ~blocks_are_adjacent(bs[i], bs[i + 1])
    THEN bs
    ELSE RemoveAt([bs EXCEPT ![i].size = @ + Header + bs[i + 1].size], i + 1)

(* The blocks malloc can use; it takes the first. *)
Fitting(bs, size) == {i \in DOMAIN bs : bs[i].free /\ bs[i].size >= size}
FirstFit(bs, size) == Min(Fitting(bs, size))

Allocated(bs, i, size) == [split_block(bs, i, size) EXCEPT ![i].free = FALSE]

(* MUTANT: free does not look at the block before. *)
freed_forwards_only(bs, i) ==
    merge_with_next([bs EXCEPT ![i].free = TRUE], i)

(* free: merge with the next block, then the previous one with the result. *)
Freed(bs, i) ==
    LET m == merge_with_next([bs EXCEPT ![i].free = TRUE], i)
    IN IF i > 1 /\ m[i - 1].free /\ blocks_are_adjacent(m[i - 1], m[i])
       THEN merge_with_next(m, i - 1)
       ELSE m

(* The block whose data ptr points to. *)
BlockOf(bs, ptr) == CHOOSE i \in DOMAIN bs : Data(bs[i]) = ptr

(* What the two queries return. *)
heap_total_size ==
    IF heap_end_addr > heap_start_addr THEN heap_end_addr - heap_start_addr - Header ELSE 0

heap_free_size ==
    FoldLeft(LAMBDA total, b : IF b.free THEN total + b.size ELSE total, 0, heap_init_once)

-----------------------------------------------------------------------------
Holding == [ptr : Nat, want : Nat]
NoOp == [at |-> "none", ptr |-> 0, want |-> 0, size |-> 0, new |-> 0]

HeapTypeOK ==
    /\ heap_initialized \in BOOLEAN
    /\ heap_blocks \in Seq(Block)
    /\ live \in SUBSET Holding
    /\ op \in [Client -> [at : {"none", "check", "shrink", "grow", "copy", "free"},
                          ptr : Nat, want : Nat, size : 0..SizeMax, new : Nat]]
    /\ given \in Nat
    /\ split_beside_free \in BOOLEAN

Init ==
    /\ heap_initialized = FALSE
    /\ heap_blocks = <<>>
    /\ live = {}
    /\ op = [c \in Client |-> NoOp]
    /\ given = 0
    /\ split_beside_free = FALSE

At(c, p) == op[c].at = p
SetOp(c, r) == op' = [op EXCEPT ![c] = r]

(* malloc(size) by a caller that wants that many bytes; a failed one only  *)
(* initialises the heap.                                                   *)
MallocFails(size) ==
    /\ Fitting(heap_init_once, align_size(size)) = {}
    /\ heap_initialized' = TRUE
    /\ heap_blocks' = heap_init_once
    /\ UNCHANGED given

MallocTakes(i, size) ==
    /\ Fitting(heap_init_once, align_size(size)) # {}
    /\ i = FirstFit(heap_init_once, align_size(size))
    /\ heap_initialized' = TRUE
    /\ heap_blocks' = Allocated(heap_init_once, i, align_size(size))
    /\ given' = given + 1

Malloc(c, size, want) ==
    /\ At(c, "none")
    /\ size # 0
    /\ \/ MallocFails(size) /\ UNCHANGED live
       \/ \E i \in DOMAIN heap_init_once :
             /\ MallocTakes(i, size)
             /\ live' = live \cup {[ptr |-> Data(heap_init_once[i]), want |-> want]}
    /\ UNCHANGED <<op, split_beside_free>>

malloc(c, size) == Malloc(c, size, size)

(* MUTANT: the product is not checked. *)
calloc_unchecked(c, count, size) ==
    Malloc(c, (count * size) % (SizeMax + 1), count * size)

calloc(c, count, size) ==
    /\ ~(count # 0 /\ size > SizeMax \div count)
    /\ Malloc(c, (count * size) % (SizeMax + 1), count * size)

FreeBlock(ptr) ==
    /\ heap_initialized' = TRUE
    /\ heap_blocks' = Freed(heap_init_once, BlockOf(heap_init_once, ptr))
    /\ given' = given - 1

free(c, a) ==
    /\ At(c, "none")
    /\ FreeBlock(a.ptr)
    /\ live' = live \ {a}
    /\ UNCHANGED <<op, split_beside_free>>

(* heap_total_size and heap_free_size may be the first call. *)
heap_query(c) ==
    /\ At(c, "none")
    /\ heap_initialized' = TRUE
    /\ heap_blocks' = heap_init_once
    /\ UNCHANGED <<live, op, given, split_beside_free>>

-----------------------------------------------------------------------------
(* realloc of a pointer, to a size that is not 0; the other cases are      *)
(* malloc and free.  The pointer is the caller's until realloc returns.    *)

realloc(c, a, size) ==
    /\ At(c, "none")
    /\ size # 0
    /\ live' = live \ {a}
    /\ SetOp(c, [at |-> "check", ptr |-> a.ptr, want |-> a.want, size |-> size, new |-> 0])
    /\ UNCHANGED <<heap_initialized, heap_blocks, given, split_beside_free>>

Old(c) == heap_blocks[BlockOf(heap_blocks, op[c].ptr)]

(* block->size is read with interrupts on. *)
realloc_check(c) ==
    /\ At(c, "check")
    /\ SetOp(c, [op[c] EXCEPT !.at = IF Old(c).size >= align_size(op[c].size)
                                     THEN "shrink" ELSE "grow"])
    /\ UNCHANGED <<heap_initialized, heap_blocks, live, given, split_beside_free>>

(* The rest is split off and not merged with a free block behind it. *)
realloc_shrink(c) ==
    LET i == BlockOf(heap_blocks, op[c].ptr)
        bs == split_block(heap_blocks, i, align_size(op[c].size))
    IN /\ At(c, "shrink")
       /\ heap_blocks' = bs
       /\ split_beside_free' =
             (split_beside_free \/ (bs # heap_blocks /\ i < Len(heap_blocks)
                                                     /\ heap_blocks[i + 1].free))
       /\ live' = live \cup {[ptr |-> op[c].ptr, want |-> op[c].size]}
       /\ SetOp(c, NoOp)
       /\ UNCHANGED <<heap_initialized, given>>

(* MUTANT: the old block is given back before it is copied. *)
grow_frees_first(c) ==
    LET bs == Freed(heap_blocks, BlockOf(heap_blocks, op[c].ptr))
        size == align_size(op[c].size)
    IN /\ At(c, "grow")
       /\ Fitting(bs, size) # {}
       /\ heap_blocks' = Allocated(bs, FirstFit(bs, size), size)
       /\ SetOp(c, [op[c] EXCEPT !.at = "copy", !.new = Data(bs[FirstFit(bs, size)])])
       /\ UNCHANGED <<heap_initialized, live, given, split_beside_free>>

(* malloc(size), of the aligned size: no memory leaves the old block alone. *)
realloc_grow(c) ==
    /\ At(c, "grow")
    /\ \/ /\ MallocFails(align_size(op[c].size))
          /\ live' = live \cup {[ptr |-> op[c].ptr, want |-> op[c].want]}
          /\ SetOp(c, NoOp)
       \/ \E i \in DOMAIN heap_blocks :
             /\ MallocTakes(i, align_size(op[c].size))
             /\ SetOp(c, [op[c] EXCEPT !.at = "copy", !.new = Data(heap_blocks[i])])
             /\ UNCHANGED live
    /\ UNCHANGED split_beside_free

(* The loop that copies copy_size bytes. *)
realloc_copy(c) ==
    /\ At(c, "copy")
    /\ SetOp(c, [op[c] EXCEPT !.at = "free"])
    /\ UNCHANGED <<heap_initialized, heap_blocks, live, given, split_beside_free>>

(* MUTANT: the old block is forgotten. *)
realloc_keeps_old(c) ==
    /\ At(c, "free")
    /\ live' = live \cup {[ptr |-> op[c].new, want |-> op[c].size]}
    /\ given' = given - 1
    /\ SetOp(c, NoOp)
    /\ UNCHANGED <<heap_initialized, heap_blocks, split_beside_free>>

realloc_free(c) ==
    /\ At(c, "free")
    /\ FreeBlock(op[c].ptr)
    /\ live' = live \cup {[ptr |-> op[c].new, want |-> op[c].size]}
    /\ SetOp(c, NoOp)
    /\ UNCHANGED split_beside_free

-----------------------------------------------------------------------------
Next ==
    \E c \in Client :
        \/ \E size \in Sizes : malloc(c, size)
        \/ \E count \in Counts, size \in Sizes : calloc(c, count, size)
        \/ \E a \in live : \/ free(c, a)
                           \/ \E size \in Sizes : realloc(c, a, size)
        \/ heap_query(c)
        \/ realloc_check(c)
        \/ realloc_shrink(c)
        \/ realloc_grow(c)
        \/ realloc_copy(c)
        \/ realloc_free(c)

Spec == Init /\ [][Next]_vars

-----------------------------------------------------------------------------
(* The blocks tile the heap: the first starts at its beginning, each       *)
(* starts where the one before ends, the last ends at its end, and all     *)
(* are aligned.  Splits and merges in any order neither lose a byte nor    *)
(* let two blocks overlap.                                                 *)
BlocksTile ==
    LET bs == heap_init_once
    IN /\ HeapTypeOK
       /\ bs # <<>> =>
             /\ bs[1].addr = heap_start_addr
             /\ End(bs[Len(bs)]) = heap_end_addr
             /\ \A i \in 1..(Len(bs) - 1) : End(bs[i]) = bs[i + 1].addr
             /\ \A i \in DOMAIN bs : bs[i].addr % HEAP_ALIGN = 0 /\ bs[i].size % HEAP_ALIGN = 0

(* What the clients hold, the blocks a realloc is working on included. *)
Held ==
    live \cup {[ptr |-> op[c].ptr, want |-> op[c].want] : c \in {d \in Client : ~At(d, "none")}}
         \cup {[ptr |-> op[c].new, want |-> op[c].size] :
                    c \in {d \in Client : op[d].at \in {"copy", "free"}}}

(* align_size wraps to 0 for these. *)
Wraps(size) == size <= SizeMax /\ align_size(size) < size

(* A pointer that a client holds is the data of a block that is in use and *)
(* has the bytes it asked for, whatever the others allocate and free; only *)
(* a size in the last HEAP_ALIGN - 1 values of size_t is rounded up to 0   *)
(* and gets a block without bytes.                                         *)
HoldingsFit ==
    \A a \in Held : \E i \in DOMAIN heap_blocks :
        /\ Data(heap_blocks[i]) = a.ptr
        /\ ~heap_blocks[i].free
        /\ ~Wraps(a.want) => heap_blocks[i].size >= a.want

(* As many blocks are in use as pointers were handed out and not taken     *)
(* back: no path of realloc leaks a block, and malloc never gives the same *)
(* block to two callers.                                                   *)
NoLeak == Cardinality({i \in DOMAIN heap_blocks : ~heap_blocks[i].free}) = given

(* The loop of realloc reads copy_size bytes of a block that is still the  *)
(* caller's, and writes no further than the new one.                       *)
CopyInBounds ==
    \A c \in Client : At(c, "copy") =>
        LET size == align_size(op[c].size)
            copy_size == IF Old(c).size < size THEN Old(c).size ELSE size
            new == heap_blocks[BlockOf(heap_blocks, op[c].new)]
        IN /\ ~Old(c).free /\ ~new.free
           /\ op[c].new # op[c].ptr
           /\ copy_size <= new.size

(* free leaves no two free blocks side by side, so that memory does not    *)
(* stay in pieces; only a realloc that shrinks a block in front of a free  *)
(* one does (malloc.c split_block without merge).  When everything has     *)
(* been given back heap_free_size is again what it was at the start, as    *)
(* tests/heap_self_test.c expects.                                         *)
Coalesced ==
    ~split_beside_free =>
        /\ \A i \in 1..(Len(heap_blocks) - 1) : ~(heap_blocks[i].free /\ heap_blocks[i + 1].free)
        /\ given = 0 /\ InitialBlocks # <<>> => heap_free_size = heap_total_size

(* What is handed out. *)
regions ==
    {[lo |-> Data(b), hi |-> End(b)] : b \in {x \in ToSet(heap_blocks) : ~x.free}}

A == INSTANCE Allocator WITH Low <- heap_start_addr, High <- heap_end_addr

(* The heap implements the abstract allocator: what it hands out lies in   *)
(* the heap, apart from everything handed out before, and stays put.       *)
RefinesAllocator == A!Spec

=============================================================================
