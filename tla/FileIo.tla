------------------------------- MODULE FileIo -------------------------------
(***************************************************************************)
(* Reading, writing and copying through open files (mizu/kernel/src/task/  *)
(* fd/syscall/io.rs) on top of the provided methods of the Io trait        *)
(* (mizu/lib/umio/src/io.rs), whose read() and write() ask for the         *)
(* position, transfer at it and move it on, with an await between any two. *)
(* One file is read and one is written; both positions belong to open      *)
(* files that tasks share.                                                 *)
(***************************************************************************)
EXTENDS Integers, SequencesExt

CONSTANTS Tasks,
          FileLen,      \* bytes of the input file
          OutLen,       \* bound: bytes of the output file
          PAGE_SIZE,    \* bytes of the frame sendfile() and copy_file_range() go through
          Counts,       \* lengths of the calls
          Iovs,         \* lengths of the buffers of readv(), writev(), preadv(), pwritev()
          MAX_IOV_LEN,
          Cases         \* "shared": two calls use one position at a time;
                        \* "short": a write of any call may take less than it is given

VARIABLES fpos, opos,   \* positions of the input and the output
          ftpc, fcall   \* the call of each task

fivars == <<fpos, opos, ftpc, fcall>>

Cur == -1   \* the null pointer: the position of the file
NoCall == [kind |-> "none", in |-> Cur, out |-> Cur, count |-> 0, ret |-> 0, roff |-> 0,
           woff |-> 0, n |-> 0, w |-> 0, in0 |-> 0, out0 |-> 0, srcs |-> <<>>, dsts |-> <<>>]
Reads(c) == c.kind \in {"read", "sendfile", "copy"}
Writes(c) == c.kind \in {"write", "sendfile", "copy"}

Init == /\ fpos = 0 /\ opos = 0
        /\ ftpc = [t \in Tasks |-> "idle"] /\ fcall = [t \in Tasks |-> NoCall]

Least(a, b) == IF a < b THEN a ELSE b
Goto(t, l, c) == ftpc' = [ftpc EXCEPT ![t] = l] /\ fcall' = [fcall EXCEPT ![t] = c]
UsesIn(c) == Reads(c) /\ c.in = Cur
UsesOut(c) == Writes(c) /\ c.out = Cur
MayUse(c) ==
    "shared" \in Cases \/ \A t \in Tasks : (UsesIn(c) => ~UsesIn(fcall[t]))
                                          /\ (UsesOut(c) => ~UsesOut(fcall[t]))

\* The first step of the loop: where the next read or write is made.
ReadFrom(c) == IF c.in = Cur THEN "rseek" ELSE "rat"
WriteFrom(c) == IF c.out = Cur THEN "wseek" ELSE "wat"
Begin(t, c) ==
    /\ ftpc[t] = "idle" /\ MayUse(c)
    /\ Goto(t, IF c.count = 0 THEN "done" ELSE IF Reads(c) THEN ReadFrom(c) ELSE WriteFrom(c),
            [c EXCEPT !.in0 = IF c.in = Cur THEN fpos ELSE c.in,
                      !.out0 = IF c.out = Cur THEN opos ELSE c.out])
    /\ UNCHANGED <<fpos, opos>>

Read(t, n) == Begin(t, [NoCall EXCEPT !.kind = "read", !.count = n])
Write(t, n) == Begin(t, [NoCall EXCEPT !.kind = "write", !.count = n, !.n = n])
Pread(t, at, n) == Begin(t, [NoCall EXCEPT !.kind = "read", !.in = at, !.count = n])
Pwrite(t, at, n) == Begin(t, [NoCall EXCEPT !.kind = "write", !.out = at, !.count = n, !.n = n])

\* The buffers of a vector, up to MAX_IOV_LEN of them, are committed one after the other
\* and read or written as one.
Total(iov) == FoldSeq(LAMBDA n, sum : n + sum, 0, SubSeq(iov, 1, Least(Len(iov), MAX_IOV_LEN)))
Readv(t, iov) == Read(t, Total(iov))
Writev(t, iov) == Write(t, Total(iov))
Preadv(t, at, iov) == Pread(t, at, Total(iov))
Pwritev(t, at, iov) == Pwrite(t, at, Total(iov))

Sendfile(t, in, n) == Begin(t, [NoCall EXCEPT !.kind = "sendfile", !.in = in, !.count = n])
CopyFileRange(t, in, out, n) ==
    Begin(t, [NoCall EXCEPT !.kind = "copy", !.in = in, !.out = out, !.count = n])

\* lseek() and FatFile::seek: EINVAL leaves the position.
Seek(t, whence, o) ==
    LET base == CASE whence = "start" -> 0 [] whence = "current" -> fpos [] OTHER -> FileLen
    IN  /\ ftpc[t] = "idle" /\ MayUse([NoCall EXCEPT !.kind = "read"])
        /\ base + o \in 0..(FileLen + 1) /\ fpos' = base + o
        /\ UNCHANGED <<opos, ftpc, fcall>>
-----------------------------------------------------------------------------
Numbers(from, n) == [i \in 1..n |-> from + i - 1]
Want(c) == IF c.kind = "read" THEN c.count ELSE Least(c.count, PAGE_SIZE)

\* What read_at() gives: nothing at the end of the file, else some of what is there.
Readable(off, n) == IF off >= FileLen THEN {0} ELSE 1..Least(n, FileLen - off)

\* What write_at() takes of c.n bytes.  The two copies that move on over what they could
\* not write are given outputs that take all of it, but for "short".
SkipsUnwritten(c) == c.kind = "copy" \/ (c.kind = "sendfile" /\ c.in = Cur)
Writable(c) ==
    IF c.n = 0 \/ (SkipsUnwritten(c) /\ "short" \notin Cases) THEN {c.n} ELSE 1..c.n

ReadSeek(t) ==
    /\ ftpc[t] = "rseek" /\ Goto(t, "rat", [fcall[t] EXCEPT !.roff = fpos])
    /\ UNCHANGED <<fpos, opos>>

\* copy_file_range() moves its offset by what it read.
ReadAt(t) ==
    LET c == fcall[t]
        off == IF c.in = Cur THEN c.roff ELSE c.in
    IN  /\ ftpc[t] = "rat"
        /\ \E n \in Readable(off, Want(c)) :
              Goto(t, IF c.in = Cur THEN "radv" ELSE IF Writes(c) THEN WriteFrom(c) ELSE "done",
                   [c EXCEPT !.n = n, !.roff = off, !.ret = IF Writes(c) THEN @ ELSE n,
                             !.in = IF c.kind = "copy" /\ c.in # Cur THEN @ + n ELSE @])
        /\ UNCHANGED <<fpos, opos>>

ReadAdv(t) ==
    /\ ftpc[t] = "radv" /\ fpos' = fpos + fcall[t].n
    /\ Goto(t, IF Writes(fcall[t]) THEN WriteFrom(fcall[t]) ELSE "done", fcall[t])
    /\ UNCHANGED opos

WriteSeek(t) ==
    /\ ftpc[t] = "wseek" /\ Goto(t, "wat", [fcall[t] EXCEPT !.woff = opos])
    /\ UNCHANGED <<fpos, opos>>

WriteAt(t) ==
    LET c == fcall[t]
        off == IF c.out = Cur THEN c.woff ELSE c.out
    IN  /\ ftpc[t] = "wat" /\ off + c.n <= OutLen
        /\ \E w \in Writable(c) :
              Goto(t, IF c.out = Cur THEN "wadv" ELSE "loop",
                   [c EXCEPT !.w = w, !.out = IF @ = Cur THEN Cur ELSE @ + w,
                             !.srcs = @ \o Numbers(c.roff, w), !.dsts = @ \o Numbers(off, w)])
        /\ UNCHANGED <<fpos, opos>>

WriteAdv(t) ==
    /\ ftpc[t] = "wadv" /\ opos' = opos + fcall[t].w /\ Goto(t, "loop", fcall[t])
    /\ UNCHANGED fpos

\* The end of a turn of the loop.  sendfile() moves the offset it was given by what was
\* written, and without one stops at a short write.
Stops(c) ==
    \/ c.w = 0 \/ c.w = c.count \/ c.kind = "write"
    \/ c.kind = "sendfile" /\ c.in = Cur /\ c.w < c.n
Loop(t) ==
    LET c == fcall[t]
        d == [c EXCEPT !.ret = @ + c.w, !.count = @ - c.w,
                       !.in = IF c.kind = "sendfile" /\ @ # Cur THEN @ + c.w ELSE @]
    IN  /\ ftpc[t] = "loop"
        /\ Goto(t, IF Stops(c) THEN "done" ELSE ReadFrom(d), d)
        /\ UNCHANGED <<fpos, opos>>

\* A transfer fails: the call returns the error, whatever it moved before.
Fail(t) ==
    /\ ftpc[t] \in {"rat", "wat"} /\ Goto(t, "idle", NoCall) /\ UNCHANGED <<fpos, opos>>

Return(t) == ftpc[t] = "done" /\ Goto(t, "idle", NoCall) /\ UNCHANGED <<fpos, opos>>

Step(t) ==
    \/ ReadSeek(t) \/ ReadAt(t) \/ ReadAdv(t) \/ WriteSeek(t) \/ WriteAt(t) \/ WriteAdv(t)
    \/ Loop(t) \/ Fail(t) \/ Return(t)

Next ==
    \E t \in Tasks :
        \/ Step(t)
        \/ \E n \in Counts : Read(t, n) \/ Write(t, n) \/ Pread(t, 1, n) \/ Pwrite(t, 0, n)
        \/ \E v \in Iovs : Readv(t, v) \/ Writev(t, v) \/ Preadv(t, 0, v) \/ Pwritev(t, 1, v)
        \/ \E n \in Counts, in \in {Cur, 0, 1} : Sendfile(t, in, n)
        \/ \E n \in Counts, in \in {Cur, 1}, out \in {Cur, 0} : CopyFileRange(t, in, out, n)
        \/ \E whence \in {"start", "current", "end"}, o \in {-1, 0, 1} : Seek(t, whence, o)

Spec == Init /\ [][Next]_fivars
-----------------------------------------------------------------------------
(* PROPERTIES *)

\* A call that used the position of a file has moved it by what it returns and by nothing
\* else, whatever positional calls of other tasks ran between its steps.
PositionMoved ==
    \A t \in Tasks : ftpc[t] = "done" /\ fcall[t].count > 0 =>
        /\ UsesIn(fcall[t]) /\ fcall[t].kind # "copy" => fpos = fcall[t].in0 + fcall[t].ret
        /\ UsesOut(fcall[t]) => opos = fcall[t].out0 + fcall[t].ret

\* sendfile() and copy_file_range() copy one piece of the input, in order and without a
\* hole, to one piece of the output, and their answer and the offset they leave behind
\* are its length and its end.
CopyExact ==
    \A t \in Tasks : ftpc[t] = "done" /\ fcall[t].kind \in {"sendfile", "copy"} =>
        LET c == fcall[t] IN
        /\ c.srcs = Numbers(c.in0, c.ret)
        /\ c.dsts = Numbers(c.out0, c.ret)
        /\ (IF c.in = Cur THEN fpos ELSE c.in) = c.in0 + c.ret
        /\ (IF c.out = Cur THEN opos ELSE c.out) = c.out0 + c.ret
=============================================================================
