------------------------------ MODULE MCFiles -------------------------------
(***************************************************************************)
(* Pipes, the moving of data between files, paths and the FAT file system  *)
(* for TLC.  They share no state, so one run checks them one after the     *)
(* other: `part` names the component that takes the steps of a behaviour.  *)
(***************************************************************************)
EXTENDS Naturals, Sequences

CONSTANTS None, NoEnd

VARIABLES part,
          buffer, read_end, write_end, read_event, write_event, txpart, rxpart, reading,
          ppc, plen, wrote, nread,
          pbuf,
          fpos, opos, ftpc, fcall,
          avail, peer, reg, iopc, iov, done, limit, owed,
          fat, alock, next_free, free_count, clusters, len, first, size, vpc, vop,
          slots, wpc, wop, rpc, rop, live, steady, ever, panicked,
          files

\* Pages of two bytes: two readers and a writer, then a reader and two writers.
PipeR == INSTANCE Pipe WITH
    Readers <- {"r1", "r2"}, Writers <- {"w1"},
    PAGE_SIZE <- 2, MaxBuffers <- 2, Lens <- {1, 2}, MaxBytes <- 4
PipeW == INSTANCE Pipe WITH
    Readers <- {"r1"}, Writers <- {"w1", "w2"},
    PAGE_SIZE <- 2, MaxBuffers <- 2, Lens <- {0, 1, 2}, MaxBytes <- 5
Paths == INSTANCE PathNames WITH MaxLen <- 6, MaxArg <- 3
\* Files longer than the frame they are copied through: one task that moves pieces of
\* several bytes, then two tasks that move single ones.
Move == INSTANCE FileIo WITH
    Tasks <- {"t1"}, FileLen <- 5, OutLen <- 5, PAGE_SIZE <- 2, Counts <- {0, 3, 5},
    Iovs <- {<<1, 1, 1>>, <<2, 3>>}, MAX_IOV_LEN <- 2, Cases <- {}
MoveTwo == INSTANCE FileIo WITH
    Tasks <- {"t1", "t2"}, FileLen <- 2, OutLen <- 2, PAGE_SIZE <- 1, Counts <- {2},
    Iovs <- {<<1, 1>>}, MAX_IOV_LEN <- 1, Cases <- {}
Sock == INSTANCE SocketIo WITH
    Cap <- 2, Iovecs <- {<<1>>, <<2, 1>>}, Timeouts <- {"none", "zero", "some"}
\* Two files that together want more clusters than there are.
Volume == INSTANCE FatVolume WITH
    Files <- {"f", "g"}, NClusters <- 3, CS <- 2, MaxLen <- 4
\* One directory with names of one and of two long entries, then a directory within it.
Dir == INSTANCE FatDir WITH
    Names <- {"a", "b", "c"}, Lfns <- [n \in {"a", "b", "c"} |-> IF n = "c" THEN 2 ELSE 1],
    SubDirs <- {}, NSlots <- 6, Cases <- {}
DirTree == INSTANCE FatDir WITH
    Names <- {"a", "c"}, Lfns <- [n \in {"a", "c"} |-> IF n = "c" THEN 2 ELSE 1],
    SubDirs <- {"s"}, NSlots <- 6, Cases <- {}
\* create_dir() meets a file of its name.
Mkdir == INSTANCE FatDir WITH
    Names <- {"a", "b"}, Lfns <- [n \in {"a", "b"} |-> 1],
    SubDirs <- {"s"}, NSlots <- 7, Cases <- {"mkdir_file"}

\* Long names that fit and do not fit a short name, some of the form of a generated one.
Name(base, ext) == [base |-> base, ext |-> ext]
LongNames ==
    {Name(<<"A", "B", "+">>, <<>>), Name(<<"A", "B", " ">>, <<>>),
     Name(<<"A", "B", "C", "A", "B">>, <<>>), Name(<<"A", "B", "~", "1">>, <<>>),
     Name(<<"A", "1", "~", "1">>, <<>>), Name(<<"A", "+">>, <<"B">>),
     Name(<<"A", "B", "C", "+">>, <<>>), Name(<<"A", "~", "1">>, <<"B">>)}
Ascii == [c \in {"A", "B", "C", "+", " ", "~", "1", "."} |->
    CASE c = "A" -> 65 [] c = "B" -> 66 [] c = "C" -> 67 [] c = "+" -> 43
      [] c = " " -> 32 [] c = "~" -> 126 [] c = "1" -> 49 [] c = "." -> 46]
Short == INSTANCE FatNames WITH
    Names <- LongNames, Code <- Ascii, LFN_PART_LEN <- 2, BaseLen <- 4, LongLen <- 2,
    ShortLen <- 1, LongTries <- 1, ShortTries <- 1, ChkBits <- 2

pipe == <<buffer, read_end, write_end, read_event, write_event, txpart, rxpart, reading,
          ppc, plen, wrote, nread>>
io == <<fpos, opos, ftpc, fcall>>
sock == <<avail, peer, reg, iopc, iov, done, limit, owed>>
volume == <<fat, alock, next_free, free_count, clusters, len, first, size, vpc, vop>>
dir == <<slots, wpc, wop, rpc, rop, live, steady, ever, panicked>>
vars == <<part, pipe, pbuf, io, sock, volume, dir, files>>

InitOthers ==
    /\ IF part = "pipe_w" THEN PipeW!Init ELSE PipeR!Init
    /\ IF part = "io2" THEN MoveTwo!Init ELSE Move!Init
    /\ Paths!Init /\ Sock!Init /\ Volume!Init
    /\ Short!Init

Init ==
    /\ part \in {"pipe_r", "pipe_w", "path", "io", "io2", "sock", "volume", "dir", "tree", "short"}
    /\ InitOthers
    /\ IF part = "tree" THEN DirTree!Init ELSE Dir!Init

Next ==
    /\ UNCHANGED part
    /\ CASE part = "pipe_r" -> PipeR!Next
         [] part = "pipe_w" -> PipeW!Next
         [] OTHER -> UNCHANGED pipe
    /\ IF part = "path" THEN Paths!Next ELSE UNCHANGED pbuf
    /\ CASE part = "io" -> Move!Next
         [] part = "io2" -> MoveTwo!Next
         [] OTHER -> UNCHANGED io
    /\ IF part = "sock" THEN Sock!Next ELSE UNCHANGED sock
    /\ IF part = "volume" THEN Volume!Next ELSE UNCHANGED volume
    /\ CASE part = "dir" -> Dir!Next
         [] part = "tree" -> DirTree!Next
         [] OTHER -> UNCHANGED dir
    /\ IF part = "short" THEN Short!Next ELSE UNCHANGED files

Spec == Init /\ [][Next]_vars

MkdirSpec ==
    /\ part = "mkdir" /\ InitOthers /\ Mkdir!Init
    /\ [][Mkdir!Next /\ UNCHANGED <<part, pipe, pbuf, io, sock, volume, files>>]_vars
-----------------------------------------------------------------------------




\* No assertion of the directory code fails, also when create_dir() meets a file
\* (FatDir, in behaviours of Mkdir).
NoPanic == Mkdir!NoPanic
=============================================================================
