-------------------------------- MODULE Heap --------------------------------
(***************************************************************************)
(* lwIP's heap, src/lwip/core/mem.c, from which PBUF_RAM pbufs and the     *)
(* state of DHCP and of an upload are taken.                               *)
(*                                                                         *)
(* The heap is tiled by areas, each headed by a struct mem that holds the  *)
(* offsets of its neighbours.  A struct that a merge leaves behind is not  *)
(* read again (HeapTiled), so its contents are forgotten.  Everything runs *)
(* at one interrupt level (NO_SYS), so each call is one step.              *)
(***************************************************************************)
EXTENDS Integers, FiniteSets

CONSTANTS
    MEM_SIZE_ALIGNED,   \* octets of the heap
    SIZEOF_STRUCT_MEM,  \* octets of a struct mem, aligned
    MIN_SIZE_ALIGNED,   \* every area has at least so many octets of data
    MEM_ALIGNMENT,
    HeapSizes            \* sizes asked of mem_malloc and mem_trim

ASSUME HeapAssumption ==
    /\ MEM_ALIGNMENT \in Nat \ {0} /\ SIZEOF_STRUCT_MEM \in Nat \ {0}
    /\ MIN_SIZE_ALIGNED \in Nat \ {0} /\ HeapSizes \subseteq Nat
    /\ \A n \in {MEM_SIZE_ALIGNED, SIZEOF_STRUCT_MEM, MIN_SIZE_ALIGNED} : n % MEM_ALIGNMENT = 0
    /\ MEM_SIZE_ALIGNED >= SIZEOF_STRUCT_MEM + MIN_SIZE_ALIGNED

Offsets == 0 .. MEM_SIZE_ALIGNED
ram_end == MEM_SIZE_ALIGNED
NoArea    == -1

VARIABLES
    ram,     \* Offsets -> [next, prev, used]: the struct mem there, if any
    lfree,   \* "pointer to the lowest free block"
    held     \* what callers hold: offset of the area, octets asked for

varsHeap == <<ram, lfree, held>>

Forgotten == [next |-> 0, prev |-> 0, used |-> FALSE]

LWIP_MEM_ALIGN_SIZE(n) == ((n + MEM_ALIGNMENT - 1) \div MEM_ALIGNMENT) * MEM_ALIGNMENT

\* Size as mem_malloc and mem_trim round it.
Rounded(n) ==
    IF LWIP_MEM_ALIGN_SIZE(n) < MIN_SIZE_ALIGNED THEN MIN_SIZE_ALIGNED ELSE LWIP_MEM_ALIGN_SIZE(n)

mem_init ==
    /\ ram = [p \in Offsets |->
                IF p = ram_end THEN [next |-> ram_end, prev |-> ram_end, used |-> TRUE]
                ELSE IF p = 0 THEN [next |-> ram_end, prev |-> 0, used |-> FALSE]
                ELSE Forgotten]
    /\ lfree = 0
    /\ held = {}

-----------------------------------------------------------------------------
\* The octets of data in the area at p.
Room(r, p) == r[p].next - (p + SIZEOF_STRUCT_MEM)

\* Mutant: the hole before is left.
plug_holes_forward(h, p) ==
    LET n == h.ram[p].next
    IN  IF n # p /\ ~h.ram[n].used /\ n # ram_end
        THEN [ram   |-> [h.ram EXCEPT ![p].next = h.ram[n].next, ![h.ram[n].next].prev = p,
                               ![n] = Forgotten],
              lfree |-> IF h.lfree = n THEN p ELSE h.lfree]
        ELSE h
\* Combine the area at p with an unused one after it, then before it.
plug_holes(h, p) ==
    LET n == h.ram[p].next
        f == IF n # p /\ ~h.ram[n].used /\ n # ram_end
             THEN [ram   |-> [h.ram EXCEPT ![p].next = h.ram[n].next, ![h.ram[n].next].prev = p,
                                    ![n] = Forgotten],
                   lfree |-> IF h.lfree = n THEN p ELSE h.lfree]
             ELSE h
        q == f.ram[p].prev
    IN  IF q # p /\ ~f.ram[q].used
        THEN [ram   |-> [f.ram EXCEPT ![q].next = f.ram[p].next, ![f.ram[p].next].prev = q,
                               ![p] = Forgotten],
              lfree |-> IF f.lfree = p THEN q ELSE f.lfree]
        ELSE f

mem_free(p) ==
    plug_holes([ram   |-> [ram EXCEPT ![p].used = FALSE],
                lfree |-> IF p < lfree THEN p ELSE lfree], p)

\* A new unused area at p2 between p and the area after it, whose prev is set
\* unless it is the end of the heap.
Insert(r, p, p2, next) ==
    LET s == [r EXCEPT ![r[p].next] = IF r[p].next = next THEN @ ELSE Forgotten,
                       ![p2] = [next |-> next, prev |-> p, used |-> FALSE], ![p].next = p2]
    IN  IF next # MEM_SIZE_ALIGNED THEN [s EXCEPT ![next].prev = p2] ELSE s

\* mem_trim of the area at p
mem_trim(p, newsize) ==
    LET size == Room(ram, p)
        p2   == p + SIZEOF_STRUCT_MEM + Rounded(newsize)
        n    == ram[p].next
    IN  IF Rounded(newsize) >= size THEN [ram |-> ram, lfree |-> lfree]
        ELSE IF ~ram[n].used
             THEN [ram   |-> Insert(ram, p, p2, ram[n].next),
                   lfree |-> IF lfree = n THEN p2 ELSE lfree]
        ELSE IF Rounded(newsize) + SIZEOF_STRUCT_MEM + MIN_SIZE_ALIGNED <= size
             THEN [ram   |-> Insert(ram, p, p2, n),
                   lfree |-> IF p2 < lfree THEN p2 ELSE lfree]
        ELSE [ram |-> ram, lfree |-> lfree]

\* Follow next from lfree to the first area with room for size octets.
FirstFit(size) ==
    LET From[p \in Offsets] ==
          IF p >= MEM_SIZE_ALIGNED - size THEN NoArea
          ELSE IF ~ram[p].used /\ Room(ram, p) >= size THEN p
          ELSE From[ram[p].next]
    IN  From[lfree]

\* "Find next free block after mem and update lowest free pointer"
NextFree(r, p) ==
    LET From[q \in Offsets] == IF r[q].used /\ q # ram_end THEN From[r[q].next] ELSE q
    IN  From[p]

Splits(room, size) == room >= size + SIZEOF_STRUCT_MEM + MIN_SIZE_ALIGNED

\* mem_malloc once it has found the area at p.
Taken(p, size) ==
    LET split == IF Splits(Room(ram, p), size)
                 THEN Insert(ram, p, p + SIZEOF_STRUCT_MEM + size, ram[p].next) ELSE ram
        r     == [split EXCEPT ![p].used = TRUE]
    IN  [ram |-> r, lfree |-> IF p = lfree THEN NextFree(r, p) ELSE lfree]

\* The offset of the area mem_malloc hands out, or NoArea.
mem_malloc(size) ==
    IF size = 0 \/ Rounded(size) > MEM_SIZE_ALIGNED THEN NoArea ELSE FirstFit(Rounded(size))

BecomesHeap(h) == ram' = h.ram /\ lfree' = h.lfree

-----------------------------------------------------------------------------
Malloc(size) ==
    LET p == mem_malloc(size)
    IN  IF p = NoArea THEN UNCHANGED varsHeap
        ELSE BecomesHeap(Taken(p, Rounded(size))) /\ held' = held \cup {[at |-> p, size |-> size]}

FreeArea(a) == a \in held /\ BecomesHeap(mem_free(a.at)) /\ held' = held \ {a}

\* pbuf_realloc: callers only ever shrink.
Trim(a, newsize) ==
    /\ a \in held
    /\ newsize <= a.size
    /\ BecomesHeap(mem_trim(a.at, newsize))
    /\ held' = (held \ {a}) \cup {[a EXCEPT !.size = newsize]}

NextHeap ==
    \/ \E size \in HeapSizes : Malloc(size)
    \/ \E a \in held : FreeArea(a) \/ \E newsize \in HeapSizes : Trim(a, newsize)

SpecHeap == mem_init /\ [][NextHeap]_varsHeap

-----------------------------------------------------------------------------
\* The areas of the heap: those reached from its start by next.
Areas ==
    LET From[p \in Offsets] == {p} \cup (IF p < ram[p].next THEN From[ram[p].next] ELSE {})
    IN  From[0] \ {ram_end}

\* The areas tile the heap in both directions, and no two neighbours are unused:
\* "there should not exist one empty struct mem pointing to another empty struct
\* mem", whatever the order of calls.
HeapTiled ==
    /\ \A p \in Areas : ram[p].next \in Areas \cup {ram_end}
    /\ \A p \in Areas : ram[p].next # ram_end => ram[ram[p].next].prev = p
    /\ \A p \in Areas : ram[p].used \/ ram[ram[p].next].used
    /\ ram[0].prev = 0 /\ ram[ram_end].used

\* lfree is the "pointer to the lowest free block", or the end of the heap when
\* it is full: the search of mem_malloc that starts there misses nothing.
LfreeIsLowest ==
    /\ \A p \in Areas : ~ram[p].used => lfree <= p
    /\ lfree = ram_end \/ (lfree \in Areas /\ ~ram[lfree].used)

\* What a caller of mem_malloc holds lies inside an area of its own, clear of
\* every struct mem, and all other areas are unused.
HeldApart ==
    /\ {p \in Areas : ram[p].used} = {a.at : a \in held}
    /\ \A a, b \in held : a.at = b.at => a = b
    /\ \A a \in held : a.at + SIZEOF_STRUCT_MEM + a.size <= ram[a.at].next

\* mem_malloc returns NoArea only when no unused area has the room asked for.
FailsOnlyWhenFull ==
    \A size \in HeapSizes \ {0} :
      mem_malloc(size) = NoArea => \A p \in Areas : ram[p].used \/ Room(ram, p) < Rounded(size)

\* What mem_malloc, mem_free and mem_trim keep true of the heap.
HeapSound == HeapTiled /\ LfreeIsLowest /\ HeldApart /\ FailsOnlyWhenFull
=============================================================================
