------------------------------- MODULE Paging -------------------------------
(***************************************************************************)
(* The page tables (src/mem/paging.rs, paging/entry.rs, paging/table.rs):  *)
(* a memory map is a tree of tables whose upper entries, from KERNEL_START *)
(* on, are shared by all maps.  map walks down one level per step and      *)
(* makes the tables that are missing; drop gives the tables of the lower   *)
(* entries back.                                                           *)
(*                                                                         *)
(* Addresses are counted in small pages.  One call runs at a time: one     *)
(* processor, no preemption, and no handler maps.  unmap is not            *)
(* implemented by the code; set_flags and uninit have no caller.           *)
(*                                                                         *)
(* A page that is given back keeps its contents, and map links it as a     *)
(* table without clearing it.  What the code gets right it gets right as   *)
(* long as the pages that map linked happened to be clear: the history     *)
(* variable clean.  What happens otherwise is FailsIffUnmapped and         *)
(* FreesItsOwn below, which the code does not satisfy.                     *)
(***************************************************************************)
EXTENDS Integers, Sequences, FiniteSets, SequencesExt

CONSTANTS
  TABLE_LEN,      \* the number of entries of a table
  KERNEL_START,   \* the first entry of a PML4 table for kernel pages (256)
  RemapSlots,     \* the entries of PML4 for the physical remap
  KernelPage,     \* the first page of the kernel image
  KernelPages,    \* the number of large pages of the kernel image
  MapIds, Boot,   \* the memory maps; the one that init makes
  Pool,           \* the frames of the page allocator
  Requests        \* the calls of map

CR3  == 0
PML4 == 1
PDPT == 2
PD   == 3
PT   == 4

Slots == 0..(TABLE_LEN - 1)
UserSlots   == 0..(KERNEL_START - 1)
KernelSlots == KERNEL_START..(TABLE_LEN - 1)

(* The pages under an entry, and the index of page v in a table.           *)
Span(level) == TABLE_LEN^(PT - level)

Index(v, level) == (v \div Span(level)) % TABLE_LEN

(* A request maps the page at v, of the size of an entry of its level, to  *)
(* the frame.  Callers name pages that are aligned (PageAddr::new), and    *)
(* say PageSize for all but small pages, as the contract of reinit asks.   *)
ASSUME RequestsAssumption ==
  \A r \in Requests :
    /\ r.level \in PDPT..PT
    /\ r.v % Span(r.level) = 0 /\ r.frame % Span(r.level) = 0
    /\ r.level # PT /\ "Present" \in r.flags => "PageSize" \in r.flags

-----------------------------------------------------------------------------
(***************************************************************************)
(* Entries: a set of flags and an address.                                 *)
(***************************************************************************)
Flag == {"Present", "ReadWrite", "UserSuper", "PageSize", "Global"}

DefaultFlags == {"Present", "ReadWrite"}
KernelFlags  == {"Present", "PageSize", "Global", "ReadWrite"}

Entry(addr, flags) == [addr |-> addr, flags |-> flags]
Zero      == Entry(0, {})
ZeroTable == [i \in Slots |-> Zero]

(* The flags that have an index in an entry of the level.                  *)
FlagsAt(level, present, page_size) ==
  IF level = CR3 THEN {}
  ELSE IF ~present THEN {"Present"}
  ELSE {"Present", "ReadWrite", "UserSuper"}
       \cup (IF level \in {PDPT, PD} THEN {"PageSize"} ELSE {})
       \cup (IF level = PT \/ (level \in {PDPT, PD} /\ page_size) THEN {"Global"} ELSE {})

HasFlag(e, level, flag) ==
  flag \in e.flags \cap FlagsAt(level, "Present" \in e.flags, FALSE)

TargetKind(e, level) ==
  CASE level # CR3 /\ ~HasFlag(e, level, "Present")  -> "None"
    [] level = PT \/ HasFlag(e, level, "PageSize")   -> "Page"
    [] OTHER                                         -> "Table"

ValidFlags(level, flags) ==
  flags \subseteq FlagsAt(level, "Present" \in flags, "PageSize" \in flags)

CanSetAddr(e, level, addr) ==
  CASE TargetKind(e, level) = "None"  -> FALSE
    [] TargetKind(e, level) = "Table" -> TRUE        \* frames are aligned
    [] OTHER                          -> addr % Span(level) = 0

(* With flags that are not valid the entry keeps its value.                *)
Reinit(e, level, addr, flags) ==
  LET new == Entry(0, flags)
  IN  IF ~ValidFlags(level, flags) THEN e
      ELSE IF CanSetAddr(new, level, addr) THEN Entry(addr, flags) ELSE new

-----------------------------------------------------------------------------
VARIABLES
  mem,      \* the contents of the frames, read as tables
  roots,    \* the PML4 table in the cr3 entry of each map there is
  current,  \* the map in the memory manager
  pool,     \* the frames the page allocator has left
  pc,       \* "idle", "walk" or, after a panic, "no page" or "bad free"
  call,     \* the request under way, and the map it is for
  cur,      \* the walker: level, table and index of its entry
  user,     \* history: what was mapped in the user half of each map
  kernel,   \* history: what was mapped in the shared half
  orphans,  \* history: the tables whose entry map put a page in
  clean     \* history: every page that map linked was clear

vars == <<mem, roots, current, pool, pc, call, cur, user, kernel, orphans, clean>>

(* The tables in the kernel image: frames of no other use, below those     *)
(* that the allocator manages.                                             *)
PML4_TABLE      == -1
KERNEL_PD_TABLE == -2
PDPT_TABLE(i)   == -3 - i
Static == {PML4_TABLE, KERNEL_PD_TABLE} \cup {PDPT_TABLE(i) : i \in KernelSlots}
Frames == Static \cup Pool \cup {r.frame : r \in Requests}

(* X86_64MemoryManager::init.                                              *)
KernelPd ==
  [i \in Slots |->
     IF i - Index(KernelPage, PD) \in 0..(KernelPages - 1)
     THEN Entry((i - Index(KernelPage, PD)) * Span(PD), KernelFlags) ELSE Zero]

KernelPdpt == [ZeroTable EXCEPT ![Index(KernelPage, PDPT)] =
                                   Entry(KERNEL_PD_TABLE, DefaultFlags)]

RemapBase(slot) ==
  Cardinality({s \in RemapSlots : s < slot}) * Span(PML4)

RemapPdpt(slot) ==
  [i \in Slots |-> Entry(RemapBase(slot) + i * Span(PDPT), KernelFlags)]

BootPml4Sparse ==                                             \* mutant
  [i \in Slots |-> IF i \in RemapSlots \cup {Index(KernelPage, PML4)}
                   THEN Entry(PDPT_TABLE(i), DefaultFlags) ELSE Zero]

BootPml4 ==
  [i \in Slots |-> IF i \in KernelSlots THEN Entry(PDPT_TABLE(i), DefaultFlags)
                   ELSE Zero]

BootPdpt(slot) ==
  IF slot = Index(KernelPage, PML4) THEN KernelPdpt
  ELSE IF slot \in RemapSlots THEN RemapPdpt(slot) ELSE ZeroTable

BootMem ==
  [f \in Frames |->
     IF f \in Static
     THEN IF f = PML4_TABLE THEN BootPml4
          ELSE IF f = KERNEL_PD_TABLE THEN KernelPd
          ELSE BootPdpt(CHOOSE i \in KernelSlots : PDPT_TABLE(i) = f)
     ELSE ZeroTable]

Region(level, v, frame) == [level |-> level, v |-> v, frame |-> frame]

BootRegions ==
  {Region(PD, KernelPage + k * Span(PD), k * Span(PD)) : k \in 0..(KernelPages - 1)}
  \cup {Region(PDPT, t[1] * Span(PML4) + t[2] * Span(PDPT), RemapBase(t[1]) + t[2] * Span(PDPT)) :
          t \in RemapSlots \X Slots}

(* A page of the allocator that nobody wrote yet is taken as clear.        *)
Init ==
  /\ mem = BootMem /\ roots = (Boot :> PML4_TABLE) /\ current = Boot
  /\ pool = Pool /\ pc = "idle" /\ call = << >> /\ cur = << >>
  /\ user = (Boot :> {}) /\ kernel = BootRegions /\ orphans = {} /\ clean = TRUE

-----------------------------------------------------------------------------
(***************************************************************************)
(* LinearWalker::try_down, as a function of an entry and its level, and    *)
(* what the loop of translate comes to with it: {} is None.                *)
(***************************************************************************)
TryDown(at, i) ==
  IF at.level # PT /\ TargetKind(at.entry, at.level) = "Table"
  THEN [level |-> at.level + 1, entry |-> mem[at.entry.addr][i]]
  ELSE at

Walk(m, path) ==
  FoldLeft(TryDown, [level |-> CR3, entry |-> Entry(roots[m], {})], path)

Translate(m, v) ==
  LET at == Walk(m, [level \in PML4..PT |-> Index(v, level)])
  IN  IF TargetKind(at.entry, at.level) = "None" THEN {} ELSE {at.entry.addr}

(* The paths from the root of m, through the given entries of PML4, that   *)
(* end in an entry with a table.                                           *)
IsTable(m, p) ==
  LET at == Walk(m, p)
  IN  at.level = Len(p) /\ TargetKind(at.entry, at.level) = "Table"

TablePaths(m, slots) ==
  LET Below(ps) == {q \in {Append(p, i) : p \in ps, i \in Slots} : IsTable(m, q)}
      pdpts == {q \in {<<i>> : i \in slots} : IsTable(m, q)}
      pds   == Below(pdpts)
  IN  pdpts \cup pds \cup Below(pds)

TableAt(m, p) == Walk(m, p).entry.addr

(***************************************************************************)
(* X86_64MemoryMap::map.                                                   *)
(***************************************************************************)
Map(m, r) ==
  /\ pc = "idle" /\ pc' = "walk"
  /\ call' = [map |-> m, req |-> r]
  /\ cur' = [level |-> CR3, table |-> roots[m], idx |-> 0]
  /\ UNCHANGED <<mem, roots, current, pool, user, kernel, orphans, clean>>

CurEntry ==
  IF cur.level = CR3 THEN Entry(roots[call.map], {}) ELSE mem[cur.table][cur.idx]

(* down_with_table: to the entry for the address in that table.            *)
DownWithTable(table) ==
  cur' = [level |-> cur.level + 1, table |-> table,
          idx |-> Index(call.req.v, cur.level + 1)]

Walking == pc = "walk" /\ cur.level # call.req.level

(* down, where there is a table.                                           *)
DownTable ==
  /\ Walking /\ TargetKind(CurEntry, cur.level) = "Table"
  /\ DownWithTable(CurEntry.addr)
  /\ UNCHANGED <<mem, roots, current, pool, pc, call, user, kernel, orphans, clean>>

DownNewUnlinked ==                                            \* mutant
  /\ Walking /\ TargetKind(CurEntry, cur.level) # "Table"
  /\ \E f \in pool : pool' = pool \ {f} /\ DownWithTable(f)
  /\ UNCHANGED <<mem, roots, current, pc, call, user, kernel, orphans, clean>>

(* down, where there is none or a page: a new table takes its place, with  *)
(* the contents that the page has.                                         *)
DownNew ==
  /\ Walking /\ TargetKind(CurEntry, cur.level) # "Table"
  /\ \E f \in pool :
       /\ pool' = pool \ {f}
       /\ mem' = [mem EXCEPT ![cur.table][cur.idx] =
                               Reinit(CurEntry, cur.level, f, DefaultFlags)]
       /\ clean' = (clean /\ mem[f] = ZeroTable)
       /\ DownWithTable(f)
  /\ UNCHANGED <<roots, current, pc, call, user, kernel, orphans>>

(* down, when the allocator has no page: unwrap of None.                   *)
DownFails ==
  /\ Walking /\ TargetKind(CurEntry, cur.level) # "Table" /\ pool = {}
  /\ pc' = "no page"
  /\ UNCHANGED <<mem, roots, current, pool, call, cur, user, kernel, orphans, clean>>

Pages(a) == a.v..(a.v + Span(a.level) - 1)

(* What map does to the mapped regions: the page that is mapped replaces   *)
(* those it meets; a larger one goes even if the flags are not valid.      *)
Mapped(regions, r) ==
  LET met == {a \in regions : Pages(a) \cap Pages(r) # {}}
  IN  IF ~ValidFlags(r.level, r.flags)
      THEN regions \ {a \in met : a.level < r.level}
      ELSE (regions \ met) \cup
           (IF "Present" \in r.flags THEN {Region(r.level, r.v, r.frame)} ELSE {})

IsKernel(v) == Index(v, PML4) \in KernelSlots

(* The tables of the allocator that go when the entry of the walker gets a *)
(* page: the one it points to and those below.                             *)
Replaced ==
  LET path  == [level \in PML4..cur.level |-> Index(call.req.v, level)]
      below == {p \in TablePaths(call.map, {path[1]}) : IsPrefix(path, p)}
  IN  IF ValidFlags(cur.level, call.req.flags)
      THEN {TableAt(call.map, p) : p \in below} \cap Pool ELSE {}

MapPage ==
  LET r == call.req
  IN  /\ pc = "walk" /\ cur.level = r.level
      /\ mem' = [mem EXCEPT ![cur.table][cur.idx] =
                              Reinit(CurEntry, cur.level, r.frame, r.flags)]
      /\ pc' = "idle" /\ call' = << >> /\ cur' = << >>
      /\ user' = IF IsKernel(r.v) THEN user
                 ELSE [user EXCEPT ![call.map] = Mapped(@, r)]
      /\ kernel' = IF IsKernel(r.v) THEN Mapped(kernel, r) ELSE kernel
      /\ orphans' = orphans \cup Replaced
      /\ UNCHANGED <<roots, current, pool, clean>>

(***************************************************************************)
(* X86_64MemoryMap::new, X86_64MemoryManager::swap and drop.               *)
(***************************************************************************)
NewWith(m, Copied) ==
  /\ pc = "idle" /\ m \notin DOMAIN roots
  /\ \E f \in pool :
       /\ pool' = pool \ {f}
       /\ mem' = [mem EXCEPT ![f] = [i \in Slots |->
                    IF i \in Copied THEN mem[roots[current]][i] ELSE Zero]]
       /\ roots' = (m :> f) @@ roots
  /\ user' = (m :> {}) @@ user
  /\ UNCHANGED <<current, pc, call, cur, kernel, orphans, clean>>

NewCopiesAll(m) == NewWith(m, Slots)                          \* mutant

New(m) == NewWith(m, KernelSlots)

NewFails(m) ==
  /\ pc = "idle" /\ m \notin DOMAIN roots /\ pool = {}
  /\ pc' = "no page"
  /\ UNCHANGED <<mem, roots, current, pool, call, cur, user, kernel, orphans, clean>>

(* swap does not load cr3.                                                 *)
Swap(m) ==
  /\ pc = "idle" /\ m # current
  /\ current' = m
  /\ UNCHANGED <<mem, roots, pool, pc, call, cur, user, kernel, orphans, clean>>

(* drop_entry_target frees one table per path, and leaves its contents.    *)
(* Freeing a page that is free panics in the buddy system, freeing one in  *)
(* the kernel image in frame_idx; so does, in the end, dropping the map of *)
(* init.  Freeing a page that another map uses goes unnoticed.  The map in *)
(* the manager belongs to the manager, which is never dropped.             *)
DropThrough(m, slots) ==
  LET paths == TablePaths(m, slots)
      freed == {TableAt(m, p) : p \in paths} \cup {roots[m]}
  IN  /\ pc = "idle" /\ m # current
      /\ pool' = pool \cup (freed \ Static)
      /\ pc' = IF /\ Cardinality(freed) = Cardinality(paths) + 1
                  /\ freed \cap (Static \cup pool) = {}
               THEN "idle" ELSE "bad free"
      /\ roots' = [k \in DOMAIN roots \ {m} |-> roots[k]]
      /\ user' = [k \in DOMAIN roots \ {m} |-> user[k]]
      /\ UNCHANGED <<mem, current, call, cur, kernel, orphans, clean>>

Drop(m) == DropThrough(m, UserSlots)

Next ==
  \/ \E m \in DOMAIN roots, r \in Requests : Map(m, r)
  \/ DownTable \/ DownNew \/ DownFails \/ MapPage
  \/ \E m \in MapIds : New(m) \/ NewFails(m)
  \/ \E m \in DOMAIN roots : Swap(m) \/ Drop(m)

Spec == Init /\ [][Next]_vars
-----------------------------------------------------------------------------
(***************************************************************************)
(* Correctness.                                                            *)
(***************************************************************************)

(* Every variable has its type; only frames of the allocator are free.     *)
TypeOK ==
  /\ DOMAIN mem = Frames
  /\ \A f \in Frames : \A i \in Slots : mem[f][i].flags \subseteq Flag
  /\ DOMAIN roots \subseteq MapIds /\ DOMAIN user = DOMAIN roots
  /\ current \in DOMAIN roots /\ pool \subseteq Pool /\ orphans \subseteq Pool
  /\ pc \in {"idle", "walk", "no page", "bad free"}

Regions(m, v) ==
  {a \in IF IsKernel(v) THEN kernel ELSE user[m] : v \in Pages(a)}

(* The pages that requests and the boot name, and their neighbours.        *)
Probes ==
  {v \in 0..(Span(CR3) - 1) :
     \E a \in Requests \cup BootRegions : v \in {a.v - 1, a.v, a.v + 1}}

KernelProbes == {v \in Probes : IsKernel(v)}

(* While the pages that map links are clear: between calls translate       *)
(* finds, in every map, the page that holds v among those that the calls   *)
(* of map up to then put there, whichever map they were made on if it is a *)
(* kernel page, and nothing where there is none.  It returns the base of   *)
(* that page: TranslatesAddress is about the rest of the address.          *)
TranslatesMapped ==
  clean /\ pc = "idle" =>
    \A m \in DOMAIN roots : \A v \in Probes :
      Translate(m, v) = {a.frame : a \in Regions(m, v)}

(* What the doc of translate (paging.rs:80) promises of the result, the    *)
(* physical address of the virtual address: the code leaves the offset in  *)
(* the page out.                                                           *)
TranslatesAddress ==
  pc = "idle" =>
    \A m \in DOMAIN roots : \A v \in Probes :
      Translate(m, v) \subseteq {a.frame + (v - a.v) : a \in Regions(m, v)}

(* What the doc of translate (paging.rs:80) says: it fails if and only if  *)
(* the address is not mapped.  Entries left in a page that map links are   *)
(* mappings that nobody made.                                              *)
FailsIffUnmapped ==
  pc = "idle" =>
    \A m \in DOMAIN roots : \A v \in Probes :
      Translate(m, v) = {} <=> Regions(m, v) = {}

(* What the doc of X86_64MemoryMap says: the kernel mapping is shared by   *)
(* all maps.  It is, also while map is half way down, while the pages that *)
(* map links are clear.                                                    *)
KernelShared ==
  clean =>
    \A m \in DOMAIN roots \ {current} : \A v \in KernelProbes :
      Translate(m, v) = Translate(current, v)

(* Drop gives back pages of the allocator that were out, each once, unless *)
(* the map is that of init (X86_64MemoryMap, paging.rs:242: the kernel     *)
(* mapping is not dropped).  With a table that was not clear it follows    *)
(* the entries left there, to tables of the kernel too.                    *)
FreesItsOwn == pc = "bad free" => Boot \notin DOMAIN roots

(* While the pages that map links are clear, the tables form a forest:     *)
(* every path leads to a table of its own, which the allocator has not got *)
(* back, so drop takes nothing from another map, and gives nothing back    *)
(* twice or that is not the allocator's, the map of init excepted.         *)
TablesApart ==
  LET ways == UNION {{<<m, p>> : p \in TablePaths(m, UserSlots)} : m \in DOMAIN roots}
              \cup {<<current, p>> : p \in TablePaths(current, KernelSlots)}
  IN  clean =>
        /\ FreesItsOwn
        /\ Cardinality({TableAt(w[1], w[2]) : w \in ways}) = Cardinality(ways)
        /\ \A w \in ways : TableAt(w[1], w[2]) \notin pool \cup {roots[m] : m \in DOMAIN roots}
        /\ \A m \in DOMAIN roots : roots[m] \notin pool

(* While the pages that map links are clear: between calls every page that *)
(* was taken from the allocator is the PML4 table of a map, a table in a   *)
(* tree, or one that map replaced by a page: those, and no others, never   *)
(* come back.                                                              *)
TablesAccounted ==
  LET inTrees == {roots[m] : m \in DOMAIN roots} \cup
                 UNION {{TableAt(m, p) : p \in TablePaths(m, Slots)} : m \in DOMAIN roots}
  IN  clean =>
        /\ TypeOK
        /\ pc \in {"idle", "bad free"} =>
             /\ Pool \ pool = (inTrees \cap Pool) \cup orphans
             /\ inTrees \cap orphans = {}
=============================================================================
