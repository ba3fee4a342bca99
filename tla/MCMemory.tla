------------------------------ MODULE MCMemory ------------------------------
(***************************************************************************)
(* Memory for TLC: slices and concurrent commits of physical memory        *)
(* objects, the range map, the page table, and the address space that      *)
(* joins them.  They share no state here, so one run checks them one after *)
(* the other: `part` names the component that takes the steps of a         *)
(* behaviour.                                                              *)
(***************************************************************************)
EXTENDS Phys

CONSTANT NoEntry

VARIABLES part,
          rmap,
          root, used, flat,
          vmap, pte, leaves, cpu_mask, tlb, job, guard

TreeOps == {"private", "shared", "drop", "write"}
LeafOps == TreeOps \cup {"read", "resize"}
SliceOps == {"private", "slice", "resize", "drop", "write"}
PrivateOps == {"private", "drop", "read", "write"}

\* Two tasks that commit pages of leaves of one tree; then with leaves that are truncated.
Both == INSTANCE Phys WITH
    Procs <- {"p1", "p2"}, NodeCount <- 3, P <- 1, Values <- {0, 1, 2}, Lens <- {},
    Ops <- LeafOps
Cut == INSTANCE Phys WITH
    Procs <- {"p1", "p2"}, NodeCount <- 3, P <- 1, Values <- {0, 1}, Lens <- {0},
    Ops <- LeafOps
Ranges == INSTANCE RangeMap WITH
    Root <- [start |-> 1, end |-> 8], Align <- 2, Values <- {"v"}, Entropy <- 4
PageT == INSTANCE PageTable WITH
    NR_ENTRIES <- 2, Frames <- 4, MaxPages <- 2, Attrs <- {"r", "w"}, Cases <- {}
\* Three pages and one object, then two pages and two objects.
Space == INSTANCE Virt WITH
    NPages <- 3, LeafPages <- 2, NPhys <- 1, Offsets <- {1}, Attrs <- {{"R"}, {"R", "W"}},
    Harts <- {"h1"}, Cases <- {}
Space2 == INSTANCE Virt WITH
    NPages <- 2, LeafPages <- 2, NPhys <- 2, Offsets <- {1}, Attrs <- {{"R"}, {"R", "W"}},
    Harts <- {"h1"}, Cases <- {}

ptable == <<root, used, flat>>
space == <<vmap, pte, leaves, cpu_mask, tlb, job, guard>>
allVars == <<part, vars, rmap, ptable, space>>

MemoryInit(parts) ==
    /\ part \in parts
    /\ CASE part = "both" -> Both!Init
         [] part = "cut" -> Cut!Init
         [] OTHER -> Init
    /\ Ranges!Init /\ PageT!Init
    /\ IF part = "space2" THEN Space2!Init ELSE Space!Init

MemoryNext ==
    /\ UNCHANGED part
    /\ CASE part = "slice" -> Next
         [] part = "both" -> Both!Next
         [] part = "cut" -> Cut!Next
         [] OTHER -> UNCHANGED vars
    /\ IF part = "ranges" THEN Ranges!Next ELSE UNCHANGED rmap
    /\ IF part = "table" THEN PageT!Next ELSE UNCHANGED ptable
    /\ CASE part = "space" -> Space!Next
         [] part = "space2" -> Space2!Next
         [] OTHER -> UNCHANGED space

MemorySpec ==
    /\ MemoryInit({"slice", "both", "cut", "ranges", "table", "space", "space2"})
    /\ [][MemoryNext]_allVars

\* Phys alone, with the operations and the nodes of the configuration.
PhysSpec ==
    /\ MemoryInit({"slice"})
    /\ [][Next /\ UNCHANGED <<part, rmap, ptable, space>>]_allVars
-----------------------------------------------------------------------------
\* Every leaf reads what was last written to it, also through slices and beside the
\* commits of another leaf, and commit() never gets a Unique result, its unreachable!()
\* case (Phys).
LeafReads ==
    /\ part = "slice" => ReadsRight
    /\ part = "both" => Both!ReadsRight /\ Both!CommitShared
    /\ part = "cut" => Cut!ReadsRight /\ Cut!CommitShared

\* The entries of the map stay disjoint; try_insert() takes a range exactly if all of it is
\* free; the iterators miss no entry and yield no other; split_entry() finds the entry
\* around an address; an allocation is free, aligned and found if there is one (RangeMap).
RangesExact ==
    part = "ranges" =>
        /\ Ranges!Disjoint /\ Ranges!InsertExact /\ Ranges!LookExact
        /\ Ranges!SplitExact /\ Ranges!AllocateExact

\* The walk finds what was mapped, page by page, and no table page is lost (PageTable).
WalkExact == part = "table" => PageT!WalkExact /\ PageT!NoTableLost

=============================================================================
