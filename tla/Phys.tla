-------------------------------- MODULE Phys --------------------------------
(***************************************************************************)
(* Copy-on-write physical memory objects (mizu/lib/kmem/src/phys.rs).      *)
(*                                                                         *)
(* A Phys is a leaf of a binary tree: clone_as() moves the frames of a     *)
(* leaf into a new inner node (a branch) that the leaf and its clone have  *)
(* as parent.  A commit looks a page up along the path to the root, taking *)
(* the lock of one node at a time, and carries frames down again.          *)
(*                                                                         *)
(* A step is one critical section of a node's list, or the access to a     *)
(* committed frame.  Pages are filled as a whole, so lengths are left out; *)
(* so are the backend and the flusher, and with them the dirty marks.      *)
(***************************************************************************)
EXTENDS Naturals, FiniteSets, SequencesExt

CONSTANTS Procs,     \* the tasks that commit pages
          NodeCount, \* bound: how many nodes exist at a time
          P,         \* bound: pages of the first Phys
          Values,    \* what a page may hold: 0 for a zeroed one, or a written value
          Lens,      \* bound: the numbers of pages that resize() leaves
          RootCow,   \* whether the first Phys is copy-on-write
          Ops        \* the operations they call

AllOps == {"shared", "private", "private_of_shared", "slice", "clone_limited",
           "resize", "drop", "write", "read", "same_leaf"}

ASSUME PhysAssumption ==
    /\ IsFiniteSet(Procs)
    /\ NodeCount \in Nat \ {0} /\ P \in Nat \ {0}
    /\ Values \subseteq Nat /\ IsFiniteSet(Values) /\ 0 \in Values
    /\ Lens \subseteq Nat /\ RootCow \in BOOLEAN
    /\ Ops \subseteq AllOps

Nodes == 1..NodeCount
Pages == 0..(P - 1)
\* Frames are numbered by the page of the first Phys that they hold, enough for
\* every node and two per process on its way; ZERO is one more.
Pool == NodeCount + 2 * Cardinality(Procs)
Frames == 1..(P * Pool)
FramesOf(page) == (page * Pool + 1)..((page + 1) * Pool)
ZERO == 0

VARIABLES tree,     \* the nodes, see FreeNode
          content,  \* what each frame holds
          pc,       \* where each process is
          path,     \* the nodes its commit passed: <<[node, index, cow], ...>>
          taken,    \* the sole parent it is about to merge
          result,   \* the Commit that it carries down, at last the frame
          val,      \* what it writes, or NoWrite
          base,     \* page of the first Phys where each node begins
          sharers,  \* the leaves that must see the writes of a leaf
          expected  \* what each leaf must read

procs == <<pc, path, taken, result, val>>
ghost == <<base, sharers, expected>>
vars == <<tree, content, procs, ghost>>

NoFrame == [state |-> "None", frame |-> ZERO]
Shared(f) == [state |-> "Shared", frame |-> f]
Unique(f) == [state |-> "Unique", frame |-> f]
NoWrite == Max(Values) + 1

\* A slice start..end of a node, or no parent (node 0); P stands for end = None.
Slice(n, start, end) == [node |-> n, start |-> start, end |-> end]
NoParent == Slice(0, 0, P)

\* Phys { branch, list: { parent, frames }, cow }; a free node is no Phys.
Node(kind, isCow, par, list) ==
    [kind |-> kind, cow |-> isCow, parent |-> par, frames |-> list]
Empty == [i \in Pages |-> NoFrame]
Zeros == [i \in Pages |-> 0]
FreeNode == Node("free", FALSE, NoParent, Empty)

\* Phys::new(RootCow)
Init ==
    /\ tree = [n \in Nodes |-> IF n = 1 THEN Node("leaf", RootCow, NoParent, Empty) ELSE FreeNode]
    /\ content = [f \in Frames \cup {ZERO} |-> 0]
    /\ pc = [p \in Procs |-> "idle"]
    /\ path = [p \in Procs |-> <<>>]
    /\ taken = [p \in Procs |-> NoParent]
    /\ result = [p \in Procs |-> NoFrame]
    /\ val = [p \in Procs |-> NoWrite]
    /\ base = [n \in Nodes |-> 0]
    /\ sharers = [n \in Nodes |-> IF n = 1 THEN {1} ELSE {}]
    /\ expected = [n \in Nodes |-> Zeros]

Leaves == {n \in Nodes : tree[n].kind = "leaf"}
Quiet == \A p \in Procs : pc[p] = "idle"

\* Arsc::count of a node: its children, and the commits that hold a clone of a
\* parent pointer (all nodes of a path but the leaf, which is borrowed).
Children(T, n) == {m \in Nodes : T[m].kind # "free" /\ T[m].parent.node = n}
Refs(n) ==
    Cardinality(Children(tree, n))
    + Cardinality({<<p, k>> \in Procs \X (2..NodeCount) :
                      k <= Len(path[p]) /\ path[p][k].node = n})

InUse(T, r) == {T[n].frames[i].frame : n \in Nodes, i \in Pages} \cup {r[p].frame : p \in Procs}
NewFrame(at, used) == Min(FramesOf(base[at.node] + at.index) \ used)

\* Contents c, where a frame that nobody holds any more goes back to the arena,
\* which hands it out zeroed.
SetContent(c) ==
    LET used == InUse(tree', result')
    IN  content' = [f \in DOMAIN c |-> IF f \in used THEN c[f] ELSE 0]
-----------------------------------------------------------------------------
(* merge_sole_parent *)

IsSole(n) == tree[n].parent.node # 0 /\ Refs(tree[n].parent.node) = 1

\* Mutant: the parent's frames replace those of the node.
MergeParentOver(T, n, par) ==
    LET top  == T[par.node]
        list == [i \in Pages |->
                    LET j == par.start + i
                    IN  IF j < par.end /\ top.frames[j] # NoFrame THEN Shared(top.frames[j].frame)
                        ELSE T[n].frames[i]]
        up   == IF top.parent.node = 0 THEN NoParent
                ELSE Slice(top.parent.node, top.parent.start + par.start, top.parent.end)
    IN  [T EXCEPT ![n].frames = list, ![n].parent = up, ![par.node] = FreeNode]

\* Node n takes the frames of its former parent where it has none, as Shared
\* ones, and hangs under the grandparent.  The limit of the grandparent's slice
\* is ignored: `end` comes from the limit that n had.
MergeParent(T, n, par) ==
    LET top  == T[par.node]
        list == [i \in Pages |->
                    LET j == par.start + i
                    IN  IF T[n].frames[i] = NoFrame /\ j < par.end /\ top.frames[j] # NoFrame
                        THEN Shared(top.frames[j].frame)
                        ELSE T[n].frames[i]]
        end  == IF par.end = P THEN P ELSE Min({P, top.parent.start + par.end})
        up   == IF top.parent.node = 0 THEN NoParent
                ELSE Slice(top.parent.node, top.parent.start + par.start, end)
    IN  [T EXCEPT ![n].frames = list, ![n].parent = up, ![par.node] = FreeNode]
-----------------------------------------------------------------------------
(* clone_as, drop and resize.  The lock of the address space that a leaf is    *)
(* mapped in keeps them apart from the commits of that leaf (Virt takes its    *)
(* map for writing in both), not from those of the others.                     *)

Free(n) == tree[n].kind = "leaf" /\ \A p \in Procs : path[p] # <<>> => path[p][1].node # n

\* Branch b takes over the frames and the parent of leaf n; n and its clone c
\* hang under b.
Split(T, n, b, c, isCow, offset, end) ==
    [T EXCEPT ![b] = Node("branch", T[n].cow \/ isCow, T[n].parent, T[n].frames),
              ![n].parent = Slice(b, 0, P),
              ![n].frames = Empty,
              ![c] = Node("leaf", isCow, Slice(b, offset, end), Empty)]

\* clone_as() merges at most one parent first.  A clone shares with its source
\* if neither is copy-on-write.
CloneAs(n, isCow, offset, end) ==
    /\ Free(n)
    /\ \E T \in {IF IsSole(n) THEN MergeParent(tree, n, tree[n].parent) ELSE tree} :
       LET free == {m \in Nodes : T[m].kind = "free"}
           together == IF isCow \/ T[n].cow THEN {} ELSE sharers[n]
       IN  /\ Cardinality(free) >= 2
           /\ LET b == Min(free)
                  c == Min(free \ {b})
              IN  /\ tree' = Split(T, n, b, c, isCow, offset, end)
                  /\ base' = [base EXCEPT ![b] = base[n], ![c] = base[n] + offset]
                  /\ sharers' = [m \in Nodes |-> IF m = c \/ m \in together THEN together \cup {c}
                                                 ELSE sharers[m]]
                  /\ expected' = [expected EXCEPT ![c] =
                        [i \in Pages |-> IF i < end - offset THEN expected[n][offset + i] ELSE 0]]
    /\ UNCHANGED procs /\ SetContent(content)

\* A private clone of a leaf that has shared clones, and a clone of a leaf that
\* sees a limited slice of its parent, are operations of their own: see Ops.
Clone(n) ==
    /\ tree[n].kind = "leaf" /\ (tree[n].parent.end < P => "clone_limited" \in Ops)
    /\ \/ "shared" \in Ops /\ CloneAs(n, FALSE, 0, P)
       \/ /\ "private" \in Ops /\ (sharers[n] # {n} => "private_of_shared" \in Ops)
          /\ CloneAs(n, TRUE, 0, P)
       \/ /\ "slice" \in Ops /\ sharers[n] = {n} /\ base[n] = 0
          /\ \E offset \in Pages : \E end \in (offset + 1)..P : CloneAs(n, TRUE, offset, end)

\* Dropping the last reference to a node drops its reference to its parent: the
\* nodes above n that no other leaf and no parent about to be merged is below go.
Drop(n) ==
    /\ "drop" \in Ops /\ Free(n)
    /\ LET Above[m \in Nodes] ==
               {m} \cup LET up == tree[m].parent.node IN IF up = 0 THEN {} ELSE Above[up]
           kept == (Leaves \cup {taken[p].node : p \in Procs}) \ {n, 0}
       IN  \E gone \in {Above[n] \ UNION {Above[k] : k \in kept}} :
             /\ tree' = [m \in Nodes |-> IF m \in gone THEN FreeNode ELSE tree[m]]
             /\ base' = [m \in Nodes |-> IF m \in gone THEN 0 ELSE base[m]]
    /\ sharers' = [m \in Nodes |-> IF m = n THEN {} ELSE sharers[m] \ {n}]
    /\ expected' = [expected EXCEPT ![n] = Zeros]
    /\ UNCHANGED procs /\ SetContent(content)

\* resize() to k whole pages, of a leaf that shares nothing; it may shrink what
\* the leaf sees of its parent, not widen it.
Resize(n, k) ==
    /\ "resize" \in Ops /\ Free(n) /\ sharers[n] = {n}
    /\ LET par == tree[n].parent
       IN  /\ k < par.end - par.start
           /\ tree' = [tree EXCEPT
                 ![n].frames = [i \in Pages |-> IF i < k THEN @[i] ELSE NoFrame],
                 ![n].parent = IF par.node = 0 THEN par ELSE Slice(par.node, par.start, par.start + k)]
    /\ expected' = [expected EXCEPT ![n] = [i \in Pages |-> IF i < k THEN @[i] ELSE 0]]
    /\ UNCHANGED <<procs, base, sharers>> /\ SetContent(content)
-----------------------------------------------------------------------------
(* commit *)

Goto(p, l) == pc' = [pc EXCEPT ![p] = l]
Carry(p, r) == result' = [result EXCEPT ![p] = r]
Here(p) == path[p][Len(path[p])]
Writes(p) == val[p] # NoWrite

Visit(p, n, i, isCow) ==
    path' = [path EXCEPT ![p] = Append(@, [node |-> n, index |-> i, cow |-> isCow \/ tree[n].cow])]

\* Mutant: a branch gives its frame to the first writer and keeps nothing.
GetAway(p, at, T, fi) ==
    LET leaf == T[at.node].kind = "leaf"
        kept == leaf \/ (fi.state = "Shared" /\ ~(Writes(p) /\ at.cow))
    IN  /\ tree' = [T EXCEPT ![at.node].frames[at.index] = IF kept THEN Shared(fi.frame) ELSE NoFrame]
        /\ Carry(p, IF kept THEN Shared(fi.frame) ELSE Unique(fi.frame))
        /\ SetContent(content)

\* FrameInfo::get on entry fi of the node that p is at: a leaf keeps the frame; a
\* branch lends a Shared frame, unless it must be copied for a writer (then the
\* original is left as Unique for the other child), and gives a Unique one away.
Get(p, at, T, fi) ==
    LET n == at.node
        i == at.index
        copies == Writes(p) /\ at.cow
        new == NewFrame(at, {fi.frame} \cup InUse(T, result))
    IN  \/ /\ T[n].kind = "leaf" \/ (fi.state = "Shared" /\ ~copies)
           /\ tree' = [T EXCEPT ![n].frames[i] = Shared(fi.frame)]
           /\ Carry(p, Shared(fi.frame))
           /\ SetContent(content)
        \/ /\ T[n].kind = "branch" /\ fi.state = "Shared" /\ copies
           /\ tree' = [T EXCEPT ![n].frames[i] = Unique(fi.frame)]
           /\ Carry(p, Unique(new))
           /\ SetContent([content EXCEPT ![new] = content[fi.frame]])
        \/ /\ T[n].kind = "branch" /\ fi.state = "Unique"
           /\ tree' = [T EXCEPT ![n].frames[i] = NoFrame]
           /\ Carry(p, Unique(fi.frame))
           /\ SetContent(content)

\* FrameEntry::try_insert: an entry that is there wins.
GetOrInsert(p, at, fi) ==
    LET old == tree[at.node].frames[at.index]
    IN  Get(p, at, tree, IF old # NoFrame THEN old ELSE fi)

\* First critical section of merge_sole_parent, at node n: take the parent if it is sole.
TakeParent(p, n) ==
    IF IsSole(n)
    THEN /\ taken' = [taken EXCEPT ![p] = tree[n].parent]
         /\ tree' = [tree EXCEPT ![n].parent = NoParent]
         /\ Goto(p, "merging")
    ELSE Goto(p, "look") /\ UNCHANGED <<tree, taken>>

\* A commit of page i of leaf n, up to its first critical section.  Two commits of one
\* leaf at a time are an operation of their own.
Start(p, n, i, v) ==
    /\ pc[p] = "idle" /\ tree[n].kind = "leaf" /\ base[n] + i < P
    /\ (\E q \in Procs : path[q] # <<>> /\ path[q][1].node = n) => "same_leaf" \in Ops
    /\ IF v = NoWrite THEN "read" \in Ops ELSE "write" \in Ops
    /\ Visit(p, n, i, tree[n].cow)
    /\ val' = [val EXCEPT ![p] = v]
    /\ TakeParent(p, n)
    /\ UNCHANGED <<content, result, ghost>>

\* The same at the next node of the path, or again after a merge.
MergeAbove(p) ==
    /\ pc[p] = "merge"
    /\ TakeParent(p, Here(p).node)
    /\ UNCHANGED <<content, path, result, val, ghost>>

\* Look the page up; if it is not there, after a merge try to merge again.
LookUp(p, T, miss) ==
    LET fi == T[Here(p).node].frames[Here(p).index]
    IN  \/ fi # NoFrame /\ Get(p, Here(p), T, fi) /\ Goto(p, "down")
        \/ /\ fi = NoFrame /\ tree' = T
           /\ Goto(p, miss)
           /\ UNCHANGED result /\ SetContent(content)

\* Second critical section: merge it.
Merge(p) ==
    /\ pc[p] = "merging"
    /\ LookUp(p, MergeParent(tree, Here(p).node, taken[p]), "merge")
    /\ taken' = [taken EXCEPT ![p] = NoParent]
    /\ UNCHANGED <<path, val, ghost>>

Look(p) ==
    /\ pc[p] = "look"
    /\ LookUp(p, tree, "up")
    /\ UNCHANGED <<path, taken, val, ghost>>

\* Go on with a clone of the parent pointer, if the page is in the slice.
Up(p) ==
    /\ pc[p] = "up"
    /\ LET par == tree[Here(p).node].parent
       IN  IF par.node # 0 /\ Here(p).index < par.end - par.start
           THEN Visit(p, par.node, par.start + Here(p).index, Here(p).cow) /\ Goto(p, "merge")
           ELSE UNCHANGED path /\ Goto(p, "fresh")
    /\ UNCHANGED <<tree, content, taken, result, val, ghost>>

\* A page nobody has: ZERO for a reader, a new frame for a writer.
Fresh(p) ==
    /\ pc[p] = "fresh"
    /\ \/ ~Writes(p) /\ Carry(p, Shared(ZERO)) /\ UNCHANGED <<tree, content>>
       \/ Writes(p) /\ GetOrInsert(p, Here(p), Shared(NewFrame(Here(p), InUse(tree, result))))
    /\ Goto(p, "down")
    /\ UNCHANGED <<path, taken, val, ghost>>

\* Back at the child: it inserts a Unique frame; a Shared one passes all the way.
Down(p) ==
    /\ pc[p] = "down" /\ Len(path[p]) > 1
    /\ \/ /\ result[p].state = "Unique"
          /\ path' = [path EXCEPT ![p] = Front(@)]
          /\ GetOrInsert(p, path[p][Len(path[p]) - 1], Shared(result[p].frame))
       \/ /\ result[p].state = "Shared"
          /\ path' = [path EXCEPT ![p] = <<Head(@)>>]
          /\ UNCHANGED <<tree, content, result>>
    /\ UNCHANGED <<pc, taken, val, ghost>>

\* The caller gets the frame, and a writer fills it.
Access(p) ==
    /\ pc[p] = "down" /\ Len(path[p]) = 1
    /\ path' = [path EXCEPT ![p] = <<>>]
    /\ val' = [val EXCEPT ![p] = NoWrite]
    /\ Carry(p, NoFrame)
    /\ Goto(p, "idle")
    /\ UNCHANGED <<tree, taken, base, sharers>>
    /\ LET n == Here(p).node
           i == Here(p).index
       IN  IF Writes(p)
           THEN /\ SetContent([content EXCEPT ![result[p].frame] = val[p]])
                /\ expected' = [m \in Nodes |-> IF m \in sharers[n] THEN [expected[m] EXCEPT ![i] = val[p]]
                                                ELSE expected[m]]
           ELSE SetContent(content) /\ UNCHANGED expected
-----------------------------------------------------------------------------
Next ==
    \/ \E n \in Nodes : Clone(n) \/ Drop(n) \/ \E k \in Lens : Resize(n, k)
    \/ \E p \in Procs :
        \/ \E n \in Nodes, i \in Pages, v \in (Values \ {0}) \cup {NoWrite} : Start(p, n, i, v)
        \/ MergeAbove(p) \/ Merge(p) \/ Look(p) \/ Up(p) \/ Fresh(p)
        \/ Down(p) \/ Access(p)

Spec == Init /\ [][Next]_vars
-----------------------------------------------------------------------------
FrameInfos == [state : {"None", "Shared", "Unique"}, frame : Frames \cup {ZERO}]
Slices == [node : Nodes \cup {0}, start : 0..P, end : 0..P]

TypeOK ==
    /\ tree \in [Nodes -> [kind : {"free", "leaf", "branch"}, cow : BOOLEAN,
                           parent : Slices, frames : [Pages -> FrameInfos]]]
    /\ content \in [Frames \cup {ZERO} -> Values]
    /\ pc \in [Procs -> {"idle", "merge", "merging", "look", "up", "fresh", "down"}]
    /\ \A p \in Procs : path[p] \in Seq([node : Nodes, index : Pages, cow : BOOLEAN])
    /\ taken \in [Procs -> Slices]
    /\ result \in [Procs -> FrameInfos]
    /\ val \in [Procs -> Values \cup {NoWrite}]

\* What a reader of page i of leaf n would get.
ReadBack(n, i) ==
    LET see[k \in 0..NodeCount, m \in Nodes, j \in Pages] ==
            LET par == tree[m].parent
            IN  IF tree[m].frames[j] # NoFrame THEN content[tree[m].frames[j].frame]
                ELSE IF k > 0 /\ par.node # 0 /\ j < par.end - par.start
                     THEN see[k - 1, par.node, par.start + j] ELSE 0
    IN  see[NodeCount, n, i]

\* Every leaf reads what was last written to it, before it was cloned off or
\* since; of other leaves' writes it sees those of the leaves it shares with and
\* no others, whatever frames were copied, moved or merged in between.
ReadsRight ==
    Quiet => \A n \in Leaves, i \in Pages :
                 base[n] + i < P => ReadBack(n, i) = expected[n][i]

\* A frame has one place in the tree: a page is never aliased by two nodes, and
\* the ZERO frame is nobody's.
OnePlace ==
    LET Held == {<<n, i>> \in Nodes \X Pages : tree[n].frames[i].frame # ZERO}
        FrameAt(x) == tree[x[1]].frames[x[2]].frame
    IN  /\ \A x, y \in Held : FrameAt(x) = FrameAt(y) => x = y
        /\ \A n \in Nodes, i \in Pages :
              (tree[n].frames[i].frame = ZERO) = (tree[n].frames[i] = NoFrame)
        /\ content[ZERO] = 0

\* The tree is binary: a branch has at most two children, so that a frame it
\* keeps as Unique after one of them copied it has one heir.
Binary == \A b \in Nodes : tree[b].kind = "branch" => Cardinality(Children(tree, b)) <= 2

\* The three together: what fork, exit and copy on write leave of a tree of objects.
TreeSound == TypeOK /\ ReadsRight /\ OnePlace /\ Binary

\* commit() never gets a Unique result (`unreachable!()`).
CommitShared ==
    \A p \in Procs : pc[p] = "down" /\ Len(path[p]) = 1 => result[p].state = "Shared"
=============================================================================
