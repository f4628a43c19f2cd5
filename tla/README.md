# koe-os in TLA+

koe-os is a small x86-64 kernel in Rust. This directory specifies its memory
management, its interrupts, its keyboard and its console in TLA+, model-checks
the specifications with TLC on small instances, and proves the central results
for instances of every size with TLAPS. All paths below are relative to `src/`
of this workspace, so `src/mem/phy.rs` is `src/src/mem/phy.rs` in
`PROJECT.json`.

## The system

| part | source | state | operations |
|---|---|---|---|
| boot memory manager | `mem/phy/memblock.rs` | two sorted arrays of blocks, a partial block and an offset into it | `init`, `reserve`, `freeze`, `aligned_split` |
| buddy system | `mem/phy/buddy.rs`, `common/array_forest.rs` | a forest of complete binary trees of bytes | `new`, `free_forced`, `free`, `reserve`, `fixup_map` |
| physical memory manager | `mem/phy.rs` | an array of frames beside the buddy system, behind a lock | `allocate_pages`, `deallocate_pages`, `allocate`, `deallocate` |
| slab allocator | `mem/alloc/slab.rs` | per size three lists of slabs; per slab a bitmap and a count | `allocate`, `deallocate` |
| global and page allocator | `mem/alloc.rs`, `mem/alloc/page.rs` | none | routing by size |
| paging | `mem/paging.rs`, `mem/paging/*.rs` | the tables | `map`, `translate`, `drop`, flags of an entry |
| interrupts and PIC | `interrupt.rs`, `interrupt/*` | guard counter, interrupt flag, masks and in-service bits | guards, handlers, `ack`, `mask`, `unmask` |
| PS/2 keyboard, keyboard state, monitor | `drivers/ps2.rs`, `io/*.rs` | a ring of 128 packets, key states, modifiers | handler, `next`, `parse` |
| VGA console | `drivers/vga.rs`, `common/panic.rs`, `common.rs` | the screen, the cursor, a lock | `write_u8`, `clear`, `scroll_up`, `log!`, the panic handler |
| boot, GDT, port I/O, lists, processes | `boot/*`, `main.rs`, `mem.rs`, `common/pmio.rs`, `common/ll.rs`, `usr/*` | none, or constants | set-up in a fixed order |

How they interact. The boot loader's memory map goes to the boot memory
manager; it reserves room for the array of frames and for the map of the buddy
system, is frozen, and hands its free blocks over to the buddy system one
aligned piece at a time (`PhysicalMemoryRecord::new`). From then on every page
comes from the physical memory manager: the page allocator asks it for pages,
the slab allocator gets its slabs from the page allocator, and paging its
tables. The kernel has one processor and no threads: what interleaves is
kernel code with interrupt handlers, and calls with calls in an arbitrary
order. `kmain` logs, sets up memory, interrupts and drivers in this order and
halts; a key then interrupts it, the handler pushes a packet into a ring, and
whoever reads the keyboard takes it out again.

What is hard here. The byte at a node of the buddy system summarises a whole
subtree, is repaired bottom-up after every call, and the repair stops early;
whether a summary can go stale depends on the whole history of calls. The
frames array is a second record of what is out, and deallocation trusts it
instead of its caller. The boot mixes addresses, offsets and indices, and
rounds in three places. Handlers run behind trap gates, with interrupts
enabled, so the end-of-interrupt and the masks alone keep a handler from
interrupting itself; a fault may strike while the console is locked.
`PROJECT.json` lists these hazards at the lines where
they bite, with the property that would catch each one going wrong.

## The modules

| module | models |
|---|---|
| `PageAllocator` | what an allocator promises (trait `Allocator` in `mem/addr.rs`): a block that is handed out was free, and is its caller's alone |
| `Buddy` | the buddy system and the cursors of the forest; its properties and its inductive invariant |
| `MCBuddy` | instances for TLC |
| `ArrayForest` | the buffer of the forest: a cursor as depth and offset, its shifts, and the place of a node |
| `BuddyProofs` | lemmas about nodes, ancestors and pages; the invariance proof and the theorems; the shifts of `ArrayForest` lead to the nodes that `Buddy` names |
| `Memblock`, `MCMemblock` | the boot memory manager, from the memory map to the calls of `free_forced` |
| `Phy`, `MCPhy` | the physical memory manager, as an extension of `Buddy` |
| `PhyProofs` | `Phy` drives `Buddy` as it asks to be driven, frees what it got, and is a page allocator |
| `Slab`, `MCSlab` | the global allocator: slabs for small layouts, pages for large ones |
| `SlabGeometry` | lemmas about slots, pointers and runs of pages, and about the lists of slabs |
| `SlabProofs`, `SlabTheorems` | the invariance proof; what it says of lists, pages, slots and objects |
| `Paging`, `MCPaging` | the page tables: entries, walker, `map`, `translate`, `new`, `swap`, `drop` |
| `TextScreen` | what a text console promises |
| `Console`, `MCConsole` | the VGA console: cells, cursor, hardware cursor |
| `ConsoleProofs` | the two invariants of the console |
| `EventQueue` | what the keyboard driver promises: a bounded queue |
| `Keyboard` | scan codes, the ring of packets, key states, modifiers, characters |
| `Pic` | the two interrupt controllers |
| `Kernel`, `MCKernel` | `kmain`, handlers, guards, the lock of the console, composed with `Keyboard` and `Pic` |

### Buddy

A node is `<<order, idx>>`, `order` counting from the leaves (the code's
`max_depth - depth`). `map[n]` is the byte `Buddy(u8)`: 0 is reserved, `k + 1`
says that the largest free block below has order `k`. The loops are taken one
iteration per step: `Reserve` scans the roots, `Rewind`, `Descend` and `Take`
are the three branches of the search, `FixupUp` and `FixupStop` the two of
`fixup_map`. Assertions, `unreachable!` and the overflow of the stack lead to
`pc = "panic"`. `FreeNode` is `free` on any node, panic included; `FreeBlock`
adds what the documentation of `free` asks of its caller, that the block is
out. `Phy` uses the first.

The boot. `free_forced` gets its blocks from the iterator over the free areas,
which splits an area from its start, wherever that is. `BootAssumption` says
no more than that the blocks lie in the forest. `free_forced` shifts the first
page down on each level, so a block that is not aligned to its size marks other
nodes than those of its pages. Three shapes of boots behave differently, and
the history variable `shape` tells which one a run has met:

- `aligned`: every block was aligned to its size;
- `shifted`: some block was not, so that pages outside it may be marked and
  pages inside it lost;
- `torn`: a node was marked above one that the marks do not reach and that
  claims a part of itself (`Tears`). The map then contradicts itself.

One free area alone tears nothing (`TornOnlyByAreas`, checked with
`MCBuddyAreas.cfg`): no block is larger than the one before, each
begins where the last ended, and so on every level the nodes marked adjoin
each other and a node not reached was not marked before. Two areas with a hole
in between can. Of a torn boot only types, `CursorFollows` and that calls end
are claimed; `MCBuddyTorn.cfg` shows why: two blocks that are out overlap.

The other history variables: `freed` are the pages the boot handed over,
`marked` those of the nodes that were marked in fact, `alloc` the blocks that
are out, and `whole` the blocks that were handed over and nothing was ever
taken out of. The last is there because `fixup_map` never joins two free
buddies: it takes the larger of two claims, so two halves that are free
again still count as one half. `FailedHonestly` therefore speaks of intact
blocks only, and `NoneMeansNoLarger` (`MCBuddyMerge.cfg`) shows that it
is false of blocks that were split and came back.

`ShiftAssumption` states the laws of `2^k` that the provers lack; TLC evaluates
it in every instance.

`ArrayForest` extends `Buddy` with the code's own representation. `up`, `down`
and `sibling` are the shifts of `Cursor` on an offset; `Follows(n)` says that
each leads from the offset of `n` to the offset of the node meant, that `get`
stays in the buffer, and that no other node has the same place.

### Memblock

`init` takes one area of the memory map per step, `reserve` one level of its
recursion per step, and the loop of `PhysicalMemoryRecord::new` one block of
the iterator per step. `handed` collects the arguments of `free_forced`. The
two callers of `reserve` expect success, so `None` panics. A block is a base
and a size in bytes. `grants` records what `reserve` returned (`addr`) and
which part of the partial block it used up (`home`). Inserting into a list
panics only in `init`: later each list receives at most what another gave up,
which `TypeOK` confirms.

### Phy

`Phy` extends `Buddy` with the array of frames and the requests of callers. The
lock of `PMM` is held for a whole call, so `AllocatePages`, `Allocate` and
`DeallocatePages` start only when the buddy system is idle, and the steps in
between are Buddy's. `Allocated` and `Deallocated` are what the record does
after the buddy system returns. `halted` is the failure of the alignment
assertion in `PageAddr::new`. A frame that was never written holds `None`, and
is read as any order: the memory of the array is not initialised by the code.

A caller gives back a range that it holds (the safety contract of
`deallocate_pages`). The call itself checks nothing: it frees whatever block
the frame names, and `DeallocatePages` has no guard either. That this is always
a block that is out, so that `free` never panics and never frees part of
another block, is `FreesOnlyOut`: every step of `Phy` is one of `Buddy`, where
`FreeBlock` has that guard.

### Slab

A cache is three sequences of pages, a slab a bitmap (the set of free slots)
and a count, a pointer a number, so that the way from a pointer back to its
slab and slot is the code's arithmetic. The lock of a cache is held for a whole
call, so a call is one step: `AllocateSmall` and `DeallocateSmall` go through
the slabs, `AllocateLarge` and `DeallocateLarge` through the page allocator.
The manager below is represented by its promise, a run of free pages whose
number is a power of two. `halted` is a failed assertion, an index outside
`slots_mut()`, or unlinking a slab from a list it is not in. `FillLevel` is
`fill_level` as written: its pattern `SLOTS_LEN` binds a new name, so a slab
with any free slot is `Full`. A consequence visible in the model: a slab moves
to `full_slabs` with its first object and back to `partial_slabs` when that is
freed, so it never holds two objects (the theorem `OneObjectPerSlab`),
`empty_slabs` is only passed through, and the branches for a count of 0 are
never taken. That is also why the slice of `SLOT_SIZE` elements (`slab.rs:358`)
does no harm today: with `fill_level` repaired (the mutant `FillLevelNamed`)
`NoPanic` fails. `Apart` and `Accounted` are checked and proved of the code as
it is; they say little about crowded slabs until then. An allocation that fails
for want of a page changes nothing and is left out, as are layouts of size
zero.

### Paging

An entry is a set of flags and an address; which flags an entry of a level can
have, what it points to, and when `reinit` leaves it alone are the operators
`FlagsAt`, `TargetKind` and `Reinit`. `map` is taken one level per step
(`DownTable`, `DownNew`, `DownFails`, then `MapPage`), so the tables are also
looked at half way. `translate` only reads: its loop is the fold `Walk`, and
its result the base of the page, as in the code. `drop` is one step; it frees
one table per path. `pc = "no page"` is the `unwrap` of an allocation that
failed, `pc = "bad free"` the panic of freeing a page that is free or that lies
below the pages the allocator manages. Every map can be dropped but the one in
the manager, which belongs to the manager. Dropping the map of `init` ends in
"bad free", since its tables are in the kernel image.

`user` and `kernel` are history: the regions that the calls of `map` have
mapped so far, a page that is mapped replacing all that it meets, also the rest
of a larger page. `orphans` is history too: the tables that `map` cut off by
putting a larger page in their place. No code frees those; `TablesAccounted`
says that nothing else is lost.

A page that is given back keeps its contents, as in the code, and `map` links
it as a table without clearing it. The history variable `clean` says that every
page `map` linked so far happened to be clear. The four properties of the run
`paging` are claimed for as long as it does, and none of them without: stale
entries are mappings that nobody made (`paging_stale`), lead `drop` to tables
that are in use or in the kernel image (`MCPagingDrop.cfg`), and a page that is
freed while another map uses it is written to by its next owner. `clean` never
becomes true again, so `MCPaging.cfg` stops (`CONSTRAINT Clean`) at the first
state where it is false, and loses no state of interest. Pages that the
allocator never gave out are taken as clear.

Assumption on callers: pages are aligned and larger pages come with the flag
`PageSize` (`RequestsAssumption`, the contract of `reinit`). The code declares
no address space for users yet; `map` and `drop` are written for one, and so is
the model.

### Console

A cell is a colour and a character, a position the number of cells before it;
`cursor_pos` may be one past the last cell, and `crtc` is the position last
sent by `sync_cursor`. A call holds the lock of `VGA_BUFFER` and is one step:
`write_u8` with a character, a newline or a backspace, `clear`, `set_color`.
The loop of a backspace is the maximum of the positions where it may stop.
`TextScreen` is the promise: a list of rows, of which only the last changes.

### Keyboard, Pic and Kernel

`Keyboard` follows a scan code from `parse` through the ring to `update` and
`ketoa`. The ring is of an external crate: two indices modulo twice the
capacity, and slots that are filled before they are published and emptied
before they are released. `Pic` has requests, lines in service and masks of both
controllers, and what ICW1, the masks and an end-of-interrupt do to them;
`Request`, `Interrupts`, `Accept` and `MayBeSpurious` are the hardware.

`Kernel` has a stack of frames, of which the topmost moves; a frame runs a
program, a sequence of the steps between which something else can come. `Kmain`
is `kmain` with `interrupt::init` and `drivers::init` spelled out,
`irq_handler` the handler of a line, `Report` the handlers of page and double
faults and of panics, which log and halt. Interrupts are pushed when the flag
is set and the controllers ask for it, a fault or a trap in between any two
steps. `kmain` ends in `hlt`; the guard and the monitor, which nobody calls
yet, are two more endings. Whether the keyboard sends a byte before the last
has gone all the way to the key states (`Settled`) is a property of the
machine, `slow`: a slow typist fills no ring, but may use more keys. `locked`
is the spin lock of the console, `screen` who wrote last, `down` and `lost` are
history: the keys that are really down, and those whose latest packet found no
ring or no room.

## The runs

| run | result | shows |
|---|---|---|
| `buddy` | passes | inductive invariant, no panic, disjoint blocks, only marked pages and after an aligned boot only pages of the boot, no intact larger block overlooked, cursors on their nodes in the buffer, `PageAllocator` implemented, every call returns |
| `memblock` | passes | lists sorted and merged, no byte lost, carved pieces disjoint, honest refusal, each free page handed over once and inside the frames, the boot ends |
| `phy` | passes | `deallocate_pages` gives back the block that was got and nothing that is not out, ranges large enough and aligned, panic only with a misaligned base, `PageAllocator` implemented for the callers |
| `slab` | passes | no panic, no byte shared and objects aligned, bitmap, count and pool agree with what is out, every slab in the list `free` takes it from |
| `paging` | passes | while the pages that `map` links are clear: `translate` finds the page that was mapped and nothing else, kernel pages are shared by all maps, tables form a forest without free pages, `drop` frees each once, every page taken is accounted for |
| `console` | passes | blanks from the cursor on, hardware cursor at the cursor but for two named cases, `TextScreen` implemented |
| `kernel` | passes | lines in service are those not yet acknowledged, guards keep interrupts off, none before there are handlers, only a fault waits for the console forever, key states and modifiers catch up with the keys, `EventQueue` implemented; keys are read, faults and panics reported, packets delivered |
| `buddy_exact`, `memblock_grants`, `memblock_records`, `slab_find`, `paging_stale` | violated | the findings below |

More configurations are kept beside the runs. `MCBuddyAreas.cfg` passes
(`TornOnlyByAreas`); each of the others has one property that TLC finds
violated, see Findings:

| configuration | module | property |
|---|---|---|
| `MCBuddyMerge.cfg` | `MCBuddy` | `NoneMeansNoLarger` |
| `MCBuddyShifted.cfg` | `MCBuddy` | `OnlyHandedOver` |
| `MCBuddyTorn.cfg` | `MCBuddy` | `Apart` |
| `MCMemblockSplit.cfg` | `MCMemblock` | `SplitInside` |
| `MCPhyFit.cfg` | `MCPhy` | `SmallestPage` |
| `MCPagingOffset.cfg` | `MCPaging` | `TranslatesAddress` |
| `MCPagingDrop.cfg` | `MCPaging` | `FreesItsOwn` |

Bounds. `buddy`: ten pages in trees of eight, so that there are four levels,
two trees and pages that do not exist; five boots, each as the iterator over
free areas splits them: two that are aligned, with and without holes, two areas
that begin off every boundary, and one that tears a block. `memblock`: a frame
has four bytes; five areas between cuts that lie on and off frame boundaries
and across the end of the kernel, each available or reserved, listed upwards,
downwards and interleaved; lists of two blocks, so that the array fills; up to
three reserves of three layouts, so that a reserve has to change the partial
block. `phy`: one tree of eight pages, whole, with holes, and from the second
page on; page sizes of one and two frames; an even and an odd base; counts up
to three, layouts of two and four bytes. `slab`: five pages of 16 bytes with a
header of three, slots of two and four bytes, so that the smaller order has
more slots than a slot has bytes, as in the kernel; layouts that need padding,
and runs of one and of four pages. `paging`: all four levels with tables of
four entries; three maps; five free frames, enough for one path of tables in
one map beside another map, for using pages again and for running out; frames,
and the maps other than that of `init`, are interchangeable (symmetry); small
pages, the large page around them, kernel pages, and flags that are not valid.
Translation is compared at every page that a request or the boot names and at
its neighbours. `console`: two rows of three cells, so that a row fills, the
screen scrolls and rows join; two characters and two colours. `kernel`: five
machines: one halts, one uses guards, one watches the keyboard under everything
that interrupts, on one ctrl is pressed, repeated and released faster than the
monitor takes it, and on one both shift keys and alt are pressed, repeated and
released in any order and overlap, one scan code at a time; a ring of two
packets (128 in the kernel), so that it fills and both indices wrap; `MaxDepth`
of three frames, enough for a fault in a handler that interrupted `kmain`;
`MaxGuards` of two, so that guards nest.

Fairness. `Buddy` has weak fairness of the steps inside a call and none of the
calls: code that runs under a lock is executed, but nobody has to call.
`Memblock` has weak fairness of `Next`: the boot is straight-line code.
`Kernel` has strong fairness of the running code at each depth of the stack:
the processor goes on with the topmost frame, and a frame that is interrupted
again and again still moves, since keys arrive far apart and a handler that
returns lets at least one instruction pass. It has strong fairness of
`Interrupt`, since the processor looks for interrupts after every instruction
while the flag is set. Nothing is assumed of keys, other devices, guards,
faults and traps. The liveness properties name what else they need: that no
fault occurs, and that the flag is set again and again.
Deadlock is not checked where the program stops (the boot ends, a failed
assertion halts the kernel) and for `paging`, which stops when a request cannot
be met any more; `Kernel` waits in an explicit step, `Wait`.

## The proofs

`BuddyProofs` proves, for every number of trees, every order and every sequence
of boot blocks that lie in the forest, aligned or not:

- `Invariance`: `Spec => []IInv`
- `TypeCorrect`, `PanicFree`, `DisjointBlocks`, `OnlyFreedOut`,
  `HonestFailure`: the invariants of the run `buddy`
- `Refinement`: `Spec => IsPageAllocator`
- `CursorsFollow`: `Spec => []CursorFollows`

`PanicFree`, `DisjointBlocks` and `Refinement` are about boots that tear no
block, `HonestFailure` about aligned ones, `OnlyFreedOut` and `CursorsFollow`
about all.

The argument. The properties are not inductive: that the search never fails
needs the summaries in the map to be right, and they are wrong while
`fixup_map` is under way. `IInv` says in which way. `UnitInv`: a node that
claims its whole block has only such nodes below it, but for nodes that the
marks of a shifted boot passed over (`Lost`). `ChildInv`: a node claims no more
than one of its children, or that child is free as a whole. `SumInv`: after an
aligned boot a node claims at least what the available nodes below it claim.
The first and the last may fail only between a node under the cursor of
`fixup_map` and one above it (`Stale`), the second only at the parent of the
cursor. The early exit is right because the parent then bounds everything under
the cursor, and its own ancestors bound it. Below a block that is out the map
still shows it free (`AllocInv`), so the search must never enter such a subtree
(`Uncovered` in `SearchInv`); a promise is passed down or left on the stack
until it is met (`Promising`). That a node with nothing free is never reached
with an ancestor that was reserved too (`Reached`) is what keeps the search
apart from blocks that are out. `WholeInv` follows the intact blocks: each is
free as a whole or out as a whole. `FreeForced` is the one step that needs
`Tears` to be false: then a node that it marks has only marked, lost or wholly
free nodes below. There is one lemma per action, and one step per conjunct
under it.

`CursorsFollow` is about the buffer. A level begins at `tree_cnt * 2^depth`, so
levels and the nodes in a level are apart (`LevelsApart`, `CellsApart`), and
halving or doubling an offset does the same to the index (`AllFollow`). That
the cursor is a node is part of `IInv`. `BufferAssumption` is one more law of
`2^k`.

`PhyProofs` proves, for every list of page sizes, base of the frames and set of
layouts, and for boots that tear no block:

- `PhyImplementsBuddy`: `PhySpec => Init /\ FreesOnlyOut`: every step is a step
  of the buddy system, so everything above holds of it as the physical memory
  manager drives it
- `FreesWhatItGot`: `PhySpec => []FreeMatches`
- `RangesAlwaysFit`: `PhySpec => []RangesFit`
- `PhyRefinement`: `PhySpec => PhyIsPageAllocator`

The argument. `deallocate_pages` looks the order up at the first frame of the
range. `PInv` says that the frame at the first page of every block that is out
holds the order of that block, that the ranges callers hold and the block on
its way to or from a caller are together exactly the blocks that are out, and
each once. Two blocks with the same first page would overlap, so writing one
frame disturbs no other block: here `DisjointBlocks` is used. So the block that
`DeallocatePages` frees, whatever the frame says, is out, and the step is a
`FreeBlock`. `RInv` follows a request: its order is that of a block that
covers it, and a range is exactly the block whose order is kept at its first
frame. A block is aligned to its size in the forest, and so in memory when the
base of the frames is. `PowersAssumption` states the laws of `2^k` used here.

`SlabProofs` and `SlabTheorems` prove, for every set of pages, size of page and
header, range of orders and set of layouts:

- `OneObjectPerSlab`: `Spec => []SInv`
- `SlabPanicFree`, `SlabsInTheirLists`, `PagesConserved`, `ObjectsApart`,
  `SlabsAccounted`: the invariants of the run `slab`

The argument. `free` recovers slab, slot and list from a pointer and a layout,
so its assertions depend on all that was done to the slab before. `SInv` ties
it together: the slabs are linked, each at one place (`Linked`); one in
`full_slabs` has exactly its first slot taken, by an object whose pointer leads
back to it, one in `partial_slabs` has none taken, and `empty_slabs` is empty
(`HeaderInv`, a consequence of `fill_level` as written); every object is in such
a slab or has a run of pages of its own (`ObjectInv`); pages held, slabs and
pool are disjoint and together all pages (`PageInv`). `SlabGeometry` has the
arithmetic (a pointer to a slot leads back to page and slot, a slot ends inside
`buf`, a layout fits its slot and is aligned in it) and what taking a slab out
of a list and pushing it to another does. Assumptions: `SlotsAssumption` (buf
lies in the page, and a slab has two slots or more, which the code asserts),
`LayoutAssumption` (sizes and alignments are positive, and a page is aligned for
every layout, which the code asserts), and `PowerAssumption`, laws of `2^k`.

`ConsoleProofs` proves, for screens of every size:

- `ScreenTail`: `Spec => []TailBlank`
- `CursorIsShown`: `Spec => []CursorShown`

The second needs more than itself: a backspace moves the cursor behind the last
character, so that nothing follows it, by `TailBlank`, and a newline moves it to
a multiple of the width less than a row away (`NextMultipleClose`).

What is only model-checked: `CallsReturn`, `BootEnds`, `KeyServed`, `Reported`
and `Delivered` (liveness is out of the prover's reach), `TornOnlyByAreas` of
`Buddy`, `IsTextScreen` of `Console` (its rows are defined through maxima over
cells), and all of `Memblock`, `Paging` and `Kernel`.

## Findings

In each, TLC finds what a comment says violated by what the code does: in a run,
or with one of the other configurations.

- `buddy_exact`: `reserve` wants a root of strictly greater order, so the
  largest blocks can never be had (`buddy.rs:98`).
- `MCBuddyMerge.cfg`, `NoneMeansNoLarger`: `fixup_map` takes the maximum of two
  children and never joins two that are free (`buddy.rs:168`), so a tree that
  was split once refuses orders that it has room for, for good.
- `MCBuddyShifted.cfg`, `OnlyHandedOver`: after a boot with a block that is not
  aligned, `reserve` hands out a page that was in no block of the boot
  (`buddy.rs:82`).
- `MCBuddyTorn.cfg`, `Apart`: after one that tears a block, two blocks that are
  out overlap.
- `memblock_grants`: `reserve` returns an offset as an address
  (`memblock.rs:282`).
- `MCMemblockSplit.cfg`, `SplitInside`: `aligned_split` rounds the base up and keeps the size
  (`memblock.rs:53`), and so reaches into what follows.
- `memblock_records`: pieces are aligned relative to their block, and
  `free_forced` marks the aligned node that contains the start of a piece: not
  the same pages (`memblock.rs:337`).
- `MCPhyFit.cfg`, `SmallestPage`: `PageSize::fit` is off by one at powers of two (`addr.rs:462`).
- `slab_find`: a slab counts as full as long as it has a free slot
  (`slab.rs:377`), so `reserve` takes a new page for every object that is out
  at the same time.
- `paging_stale`: `down` links a page as a table without clearing it
  (`paging.rs:418`), so `translate` finds entries of the page's last use.
- `MCPagingDrop.cfg`, `FreesItsOwn`: `drop` follows such entries too, and frees
  pages that are free already or lie in the kernel image; either panics.
  Without stale entries it does so only for the map of `init`, whose own tables
  are static.
- `MCPagingOffset.cfg`, `TranslatesAddress`: `translate` returns the base of the
  page and leaves the offset in it out (`paging.rs:80` promises the physical
  address of the virtual address).

## What else the models show

Met while translating the code, and visible without a run.

- Console: a newline at the start of a row does nothing; a newline that does
  not scroll leaves the hardware cursor behind (the exception in `CursorShown`);
  a full last row takes nothing until the screen is cleared; `clear` fills with
  character 0, where its comment speaks of spaces; `set_cursor_pos` multiplies
  its coordinates, which is right for its only caller, at the origin.
- Keyboard: with both shift keys down, releasing one clears the modifier (the
  case `ModifiersHeld` leaves open); caps
  lock changes with every repetition of a key that is held.
- Interrupts: a byte that arrives before `init_pic` stays unread, since ICW1
  forgets the request and the controller of the keyboard sends no other; keys
  pressed before `drivers::init` are read and dropped. Both are why `KeyServed`
  and `StatesCatchUp` are stated as they are. A guard dropped before
  `interrupt::init` would enable interrupts.
- Faults: the handler of other exceptions returns, so one of the fault class
  would occur again at once and forever (only traps are modelled); a fault while
  the console is locked waits forever (`OnlyFaultsWait`); a fault in the panic
  handler hides the panic.

## Not modelled

- The bits of entries, descriptors and ports, and the assembly that enters long
  mode: layout, or straight-line code before any of the modelled state exists.
- Port I/O, the adapter for intrusive lists, the GDT and the constants of the
  address spaces: no state, or one instruction each.
- The TLB and the value of cr3: `map` and `swap` touch neither.
- `unmap` is `todo!` in the code. `Memblocks::remove`, `mask`, `unmask_all`,
  `set_flags`, `uninit` and `PhysicalPageManager` have no callers.
- User processes: declarations only. The tests at boot drive the global
  allocator and have no state.
- Exceptions of the fault class other than page and double faults, and a fault
  or spurious interrupt inside another of its kind: the machine is beyond
  repair, or the bound on the stack is reached.
- Memory maps with overlapping areas: `insert` takes for granted that blocks do
  not overlap (`memblock.rs:128`).
