------------------------------ MODULE BootMemory ------------------------------
(***************************************************************************)
(* Physical memory from the firmware's memory map to the kernel heap: the  *)
(* bootloader claims pages for the segments of kernel.elf, loads them and  *)
(* copies the memory map (src/bootloader/src/main.rs), MemoryMap keeps a   *)
(* bounded number of regions (src/bootloader_api/src/lib.rs),              *)
(* BootInfoFrameAllocator hands their frames out (src/src/memory.rs) and   *)
(* init_heap maps the heap with them (src/src/allocator.rs).               *)
(*                                                                         *)
(* An address is a number, and so is a frame of PAGE addresses; elf holds  *)
(* the program headers of the file. Which page tables map_to has to create *)
(* is left to the x86_64 crate: it takes TABLES frames while mapping the   *)
(* first page of the heap and none afterwards, since the 64 pages share    *)
(* their tables.                                                           *)
(***************************************************************************)
EXTENDS Naturals, Sequences, FiniteSets, FiniteSetsExt, SequencesExt

CONSTANTS
  FRAMES,        (* bound: frames of physical memory                         *)
  MAX_REGIONS,   (* entries of MemoryMap::regions (256 in the code)          *)
  HEAP_PAGES,    (* pages of the heap (64 in the code)                       *)
  TABLES,        (* page tables missing for the heap (3 for its address)     *)
  PAGE,          (* bytes of a page (4096 in the code)                       *)
  Elfs           (* the program headers kernel.elf may have                  *)

ProgramHeaders == [load : BOOLEAN, paddr : Nat, filesz : Nat, memsz : Nat]

ASSUME BootAssumption ==
  /\ {FRAMES, MAX_REGIONS, HEAP_PAGES, PAGE} \subseteq Nat \ {0}
  /\ TABLES \in Nat
  /\ Elfs \subseteq Seq(ProgramHeaders)

VARIABLES
  usage,     (* frame -> what the firmware's memory map says of it           *)
  elf,       (* the program headers of kernel.elf                            *)
  image,     (* address -> what the bootloader put there                     *)
  unread,    (* descriptors of the final memory map not yet copied           *)
  regions,   (* BootInfo's memory map                                        *)
  next,      (* BootInfoFrameAllocator::next                                 *)
  heap,      (* the frames behind the heap pages mapped so far               *)
  tables,    (* the frames that became page tables                           *)
  pc         (* how far the boot is                                          *)

vars == <<usage, elf, image, unread, regions, next, heap, tables, pc>>

Frames == 0 .. FRAMES - 1
Uses   == {"conventional", "firmware", "loader"}
Region(start, end, type) == [start |-> start, end |-> end, type |-> type]
RegionTypes == {"Usable", "Reserved"}

(* The firmware's memory in any shape, with any kernel file.                 *)
Init ==
  /\ usage \in [Frames -> {"conventional", "firmware"}]
  /\ elf \in Elfs
  /\ image   = <<>>
  /\ unread  = {}
  /\ regions = <<>>
  /\ next    = 0
  /\ heap    = <<>>
  /\ tables  = <<>>
  /\ pc      = "open"

-----------------------------------------------------------------------------
(* The bootloader.                                                           *)

(* A descriptor covers a run of frames of one use, as long as it can be. (A   *)
(* firmware may also list a run as several descriptors of one type: these     *)
(* are left out.)                                                            *)
Descriptors(use) ==
  {d \in [start : Frames, end : 1 .. FRAMES, type : Uses] :
     /\ d.start < d.end
     /\ \A f \in d.start .. d.end - 1 : use[f] = d.type
     /\ d.start > 0 => use[d.start - 1] # d.type
     /\ d.end < FRAMES => use[d.end] # d.type}

(* kernel.elf is read and parsed, or is missing, no regular file, shorter    *)
(* than its size or no ELF file.                                             *)
ReadKernel ==
  /\ pc = "open"
  /\ pc' \in {"load", "refused"}
  /\ UNCHANGED <<usage, elf, image, unread, regions, next, heap, tables>>

(* The first pass: the range of addresses of all LOAD segments.              *)
LoadSegments == {i \in DOMAIN elf : elf[i].load}
Bytes(i)     == elf[i].paddr .. elf[i].paddr + elf[i].memsz - 1
load_min == Min({elf[i].paddr : i \in LoadSegments})
load_max == Max({elf[i].paddr + elf[i].memsz : i \in LoadSegments})
NoLoadSegments == IF LoadSegments = {} THEN TRUE ELSE load_min >= load_max

(* Mutation: the end is rounded down as well.                                *)
PageAfterRoundedDown(end) == end \div PAGE
PageAfter(end) == (end + PAGE - 1) \div PAGE
ClaimedPages   == (load_min \div PAGE) .. PageAfter(load_max) - 1
ClaimedBytes   == (load_min \div PAGE) * PAGE .. PageAfter(load_max) * PAGE - 1

(* The second pass: each segment's file data, over zeroed pages. The code     *)
(* would write also what a segment with filesz > memsz has beyond the claimed *)
(* pages; memory ends with them here, and the linker makes no such file.      *)
CopySegment(memory, i) ==
  IF ~ elf[i].load \/ elf[i].memsz = 0 THEN memory
  ELSE [a \in DOMAIN memory |-> IF a \in elf[i].paddr .. elf[i].paddr + elf[i].filesz - 1
                                THEN <<i, a - elf[i].paddr>> ELSE memory[a]]
Zero   == <<0, 0>>
Loaded == FoldLeft(CopySegment, [a \in ClaimedBytes |-> Zero], [i \in DOMAIN elf |-> i])

CanLoad == /\ ~ NoLoadSegments
           /\ \A f \in ClaimedPages : f \in Frames /\ usage[f] = "conventional"

(* Mutation: the segments are copied without claiming their pages.           *)
LoadWithoutAllocating ==
  /\ pc = "load" /\ CanLoad
  /\ image' = Loaded
  /\ unread' = Descriptors(usage)
  /\ pc' = "copy"
  /\ UNCHANGED <<usage, elf, regions, next, heap, tables>>

(* allocate_pages(Address) succeeds only on conventional memory and makes it  *)
(* LOADER_DATA; exit_boot_services then answers the final memory map.        *)
LoadKernel ==
  /\ pc = "load" /\ CanLoad
  /\ usage' = [f \in Frames |-> IF f \in ClaimedPages THEN "loader" ELSE usage[f]]
  /\ image' = Loaded
  /\ unread' = Descriptors(usage')
  /\ pc' = "copy"
  /\ UNCHANGED <<elf, regions, next, heap, tables>>

(* Nothing to load, or no place for it: back to the firmware.                *)
LoadFails ==
  /\ pc = "load" /\ ~ CanLoad
  /\ pc' = "refused"
  /\ UNCHANGED <<usage, elf, image, unread, regions, next, heap, tables>>

(* add_region: a full map drops the region without a word.                   *)
AddRegion(map, r) == IF Len(map) < MAX_REGIONS THEN Append(map, r) ELSE map

(* The firmware lists its descriptors in no particular order.                *)
CopyRegion ==
  /\ pc = "copy"
  /\ \E d \in unread :
       /\ unread' = unread \ {d}
       /\ regions' = AddRegion(regions,
                       Region(d.start, d.end,
                              IF d.type = "conventional" THEN "Usable" ELSE "Reserved"))
  /\ UNCHANGED <<usage, elf, image, next, heap, tables, pc>>

EnterKernel ==
  /\ pc = "copy" /\ unread = {}
  /\ pc' = "heap"
  /\ UNCHANGED <<usage, elf, image, unread, regions, next, heap, tables>>

-----------------------------------------------------------------------------
(* The frame allocator.                                                      *)

(* Mutations: the end of a region is taken as inclusive, or its last frame   *)
(* is left out.                                                              *)
FramesOfInclusive(r) == [i \in 1 .. r.end - r.start + 1 |-> r.start + i - 1]
FramesOfShort(r) == [i \in 1 .. r.end - r.start - 1 |-> r.start + i - 1]
FramesOf(r) == [i \in 1 .. r.end - r.start |-> r.start + i - 1]

AddFrames(fs, r)  == IF r.type = "Usable" THEN fs \o FramesOf(r) ELSE fs
UsableFrames(map) == FoldLeft(AddFrames, <<>>, map)

(* allocate_frame answers usable_frames().nth(next), if there is one ...     *)
HasFrame  == next < Len(UsableFrames(regions))
NextFrame == UsableFrames(regions)[next + 1]

(* ... and moves on.                                                         *)
(* Mutation: the allocator does not move on.                                 *)
StandStill == UNCHANGED next
Advance    == next' = next + 1

-----------------------------------------------------------------------------
(* init_heap.                                                                *)

(* Mutation: the tables are made before the frame of the first page is taken. *)
TablesBeforePages == Len(tables) < TABLES
(* map_to runs after the frame of its page was taken.                        *)
TableMissing == Len(heap) = 1 /\ Len(tables) < TABLES

MapPage ==
  /\ pc = "heap" /\ ~ TableMissing /\ Len(heap) < HEAP_PAGES
  /\ HasFrame
  /\ heap' = Append(heap, NextFrame)
  /\ Advance
  /\ UNCHANGED <<usage, elf, image, unread, regions, tables, pc>>

CreateTable ==
  /\ pc = "heap" /\ TableMissing
  /\ HasFrame
  /\ tables' = Append(tables, NextFrame)
  /\ Advance
  /\ UNCHANGED <<usage, elf, image, unread, regions, heap, pc>>

(* expect("heap initialization failed"): next was advanced even so.          *)
OutOfFrames ==
  /\ pc = "heap" /\ (TableMissing \/ Len(heap) < HEAP_PAGES)
  /\ ~ HasFrame
  /\ pc' = "panicked"
  /\ Advance
  /\ UNCHANGED <<usage, elf, image, unread, regions, heap, tables>>

HeapReady ==
  /\ pc = "heap" /\ ~ TableMissing /\ Len(heap) = HEAP_PAGES
  /\ pc' = "running"
  /\ UNCHANGED <<usage, elf, image, unread, regions, next, heap, tables>>

(* The boot ends here: with the kernel running, or without a place for it.   *)
BootOver == pc \in {"running", "panicked", "refused"} /\ UNCHANGED vars

Next ==
  \/ ReadKernel
  \/ LoadKernel
  \/ LoadFails
  \/ CopyRegion
  \/ EnterKernel
  \/ MapPage
  \/ CreateTable
  \/ OutOfFrames
  \/ HeapReady
  \/ BootOver

Spec == Init /\ [][Next]_vars

-----------------------------------------------------------------------------
TypeOK ==
  /\ usage \in [Frames -> Uses]
  /\ elf \in Elfs
  /\ Len(regions) <= MAX_REGIONS
  /\ \A i \in DOMAIN regions : regions[i] \in [start : Frames, end : 1 .. FRAMES, type : RegionTypes]
  /\ ToSet(heap) \subseteq Frames /\ Len(heap) <= HEAP_PAGES
  /\ ToSet(tables) \subseteq Frames /\ Len(tables) <= TABLES
  /\ pc \in {"open", "load", "refused", "copy", "heap", "running", "panicked"}

(* Every frame handed out goes to one page or one table only, whatever the    *)
(* firmware's memory is and in whichever order it lists its descriptors.      *)
HandedOut == heap \o tables
NoFrameTwice == \A i, j \in DOMAIN HandedOut : i # j => HandedOut[i] # HandedOut[j]

(* "every frame marked usable is not already in use" (memory.rs): the heap    *)
(* and its tables take conventional memory only, and no frame that holds a    *)
(* byte of a loaded segment, its zeroed tail included.                        *)
Occupied == {a \div PAGE : a \in UNION {Bytes(i) : i \in LoadSegments}}
NothingOverwritten ==
  \A i \in DOMAIN HandedOut : /\ usage[HandedOut[i]] = "conventional"
                              /\ HandedOut[i] \notin Occupied

(* The kernel is entered with every segment in place, wherever it starts and  *)
(* ends within a page and in whatever order the headers come: the bytes of    *)
(* the file, then zeros up to its size in memory.                             *)
SegmentsLoaded ==
  pc = "heap" =>
    \A i \in LoadSegments : \A a \in Bytes(i) :
      /\ a \in DOMAIN image
      /\ image[a] = IF a < elf[i].paddr + elf[i].filesz THEN <<i, a - elf[i].paddr>> ELSE Zero

(* Physical memory is mapped at offset 0, so a page table in frame 0 would be *)
(* reached through a null pointer.  Frame 0 is often conventional memory, yet *)
(* it never becomes a table if the firmware lists its memory by address:     *)
(* init_heap takes the frame of a page before map_to makes its tables.       *)
NoTableAtNull ==
  (\A i, j \in DOMAIN regions : i < j => regions[i].start < regions[j].start)
    => 0 \notin ToSet(tables)

(* Boot fails for want of frames only if the regions that fitted into the    *)
(* map hold too few: none that was copied is skipped.                        *)
PanicOnlyWhenShort ==
  pc = "panicked" =>
    Cardinality({f \in Frames : usage[f] = "conventional"
                   /\ \E i \in DOMAIN regions : f \in regions[i].start .. regions[i].end - 1})
      < HEAP_PAGES + TABLES
=============================================================================
