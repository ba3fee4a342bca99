----------------------------- MODULE PathNames -----------------------------
(***************************************************************************)
(* The paths of umifs (mizu/lib/umifs/src/path.rs): text that is taken     *)
(* apart from either end into components, and the operations that build    *)
(* one path from others.  Text is a sequence of characters: the separator, *)
(* the dot and a letter are the ones the code tells apart.  The state is   *)
(* a PathBuf that is pushed to, popped and renamed.                        *)
(***************************************************************************)
EXTENDS Naturals, Sequences, SequencesExt

CONSTANTS MaxLen,    \* bound: length of the PathBuf
          MaxArg     \* bound: length of the paths it is combined with

VARIABLE pbuf

Sep == "/"
Dot == "."
Chars == {Sep, Dot, "a"}
Text(n) == UNION {[1..k -> Chars] : k \in 0..n}
Args == Text(MaxArg)
Names == {n \in Args : n # <<>> /\ Sep \notin ToSet(n)}

CurDir == <<Dot>>
ParentDir == <<Dot, Dot>>
Normal(c) == c \notin {CurDir, ParentDir}
Nothing == "nothing"    \* Option::None

\* str::trim_start_matches, trim_end_matches
Places(s) == {i \in DOMAIN s : s[i] # Sep}
TrimStart(s) ==
    IF Places(s) = {} THEN <<>>
    ELSE SubSeq(s, CHOOSE i \in Places(s) : \A j \in Places(s) : i <= j, Len(s))
TrimEnd(s) ==
    IF Places(s) = {} THEN <<>>
    ELSE SubSeq(s, 1, CHOOSE i \in Places(s) : \A j \in Places(s) : i >= j)

\* Components::next and next_back: the component (empty: None) and the rest of the source.
Seps(s) == {i \in DOMAIN s : s[i] = Sep}
NextOf(source) ==
    LET s == TrimStart(source)
        i == CHOOSE x \in Seps(s) : \A j \in Seps(s) : x <= j
    IN  IF Seps(s) = {} THEN [item |-> s, rest |-> <<>>]
        ELSE [item |-> SubSeq(s, 1, i - 1), rest |-> TrimStart(SubSeq(s, i, Len(s)))]
NextBack(source) ==
    LET s == TrimEnd(source)
        i == CHOOSE x \in Seps(s) : \A j \in Seps(s) : x >= j
    IN  IF Seps(s) = {} THEN [item |-> s, rest |-> <<>>]
        ELSE [item |-> SubSeq(s, i + 1, Len(s)), rest |-> TrimEnd(SubSeq(s, 1, i))]

RECURSIVE Components(_)
Components(s) ==
    LET c == NextOf(s) IN IF c.item = <<>> THEN <<>> ELSE <<c.item>> \o Components(c.rest)
RECURSIVE Backward(_)
Backward(s) ==
    LET c == NextBack(s) IN IF c.item = <<>> THEN <<>> ELSE <<c.item>> \o Backward(c.rest)
-----------------------------------------------------------------------------
\* PathBuf::push; Path::join is push on a copy.
Push(p, q) ==
    LET other == IF q # <<>> /\ q[1] = Sep THEN Tail(q) ELSE q
    IN  (IF p # <<>> /\ p[Len(p)] # Sep THEN Append(p, Sep) ELSE p) \o other

\* Path::parent (Nothing for the empty path), PathBuf::pop.
RECURSIVE SkipCurDirs(_)
SkipCurDirs(s) == LET c == NextBack(s) IN IF c.item = CurDir THEN SkipCurDirs(c.rest) ELSE c
Parent(p) == IF p = <<>> THEN Nothing ELSE SkipCurDirs(p).rest
Pop(p) == IF Parent(p) = Nothing THEN p ELSE Parent(p)

\* Path::file_name, PathBuf::set_file_name
FileName(p) ==
    LET c == SkipCurDirs(p).item IN IF c # <<>> /\ Normal(c) THEN c ELSE Nothing
SetFileName(p, n) == Push(IF FileName(p) # Nothing THEN Pop(p) ELSE p, n)

\* split_file_at_dot, file_stem, extension and set_extension.
Dots(n) == {i \in DOMAIN n : n[i] = Dot}
LastDot(n) == CHOOSE i \in Dots(n) : \A j \in Dots(n) : i >= j
NoExtension(n) == n = ParentDir \/ Dots(n) = {} \/ LastDot(n) = 1
FileStem(n) == IF NoExtension(n) THEN n ELSE SubSeq(n, 1, LastDot(n) - 1)
Extension(n) == IF NoExtension(n) THEN Nothing ELSE SubSeq(n, LastDot(n) + 1, Len(n))

\* iter_after() and strip_prefix(): what is left of the source.
RECURSIVE StripPrefix(_, _)
StripPrefix(s, prefix) ==
    LET x == NextOf(s)
        y == NextOf(prefix)
    IN  IF y.item = <<>> THEN s
        ELSE IF x.item = y.item THEN StripPrefix(x.rest, y.rest)
        ELSE Nothing
StartsWith(p, base) == StripPrefix(p, base) # Nothing

\* relative_traversal(), normalize(), join_normalized(), is_normalized()
RECURSIVE Traverse(_, _)
Traverse(buf, cs) ==
    IF cs = <<>> THEN buf
    ELSE LET c == Head(cs)
             top == NextBack(buf).item
         IN  Traverse(CASE c = CurDir -> buf
                        [] c = ParentDir /\ top \in {ParentDir, <<>>} -> Push(buf, ParentDir)
                        [] c = ParentDir /\ top \notin {ParentDir, <<>>} -> Pop(buf)
                        [] OTHER -> Push(buf, c), Tail(cs))
Normalize(p) == Traverse(<<>>, Components(p))
JoinNormalized(p, q) == Traverse(Normalize(p), Components(q))
IsNormalized(p) ==
    LET cs == Components(p)
    IN  \E k \in 0..Len(cs) :
            \A i \in DOMAIN cs : IF i <= k THEN cs[i] = ParentDir ELSE Normal(cs[i])

\* Path::relative
RECURSIVE PushAll(_, _)
PushAll(buf, cs) == IF cs = <<>> THEN buf ELSE PushAll(Push(buf, Head(cs)), Tail(cs))
CommonLen(f, t) ==
    CHOOSE k \in 0..Len(f) :
        /\ k <= Len(t) /\ SubSeq(f, 1, k) = SubSeq(t, 1, k)
        /\ k = Len(f) \/ k = Len(t) \/ f[k + 1] # t[k + 1]
Relative(p, q) ==
    LET f == Components(Normalize(p))
        t == Components(Normalize(q))
        k == CommonLen(f, t)
    IN  IF k < Len(f) /\ f[k + 1] = ParentDir THEN <<>>
        ELSE PushAll(<<>>, [i \in 1..(Len(f) - k) |-> ParentDir] \o SubSeq(t, k + 1, Len(t)))
-----------------------------------------------------------------------------
Init == pbuf = <<>>
Next ==
    /\ \/ \E q \in Args : pbuf' = Push(pbuf, q)
       \/ pbuf' = Pop(pbuf)
       \/ \E n \in Names : pbuf' = SetFileName(pbuf, n)
       \/ pbuf' = Normalize(pbuf)
    /\ Len(pbuf') <= MaxLen
Spec == Init /\ [][Next]_pbuf
-----------------------------------------------------------------------------
(* PROPERTIES *)

\* The two iterators agree: from the back come the same components in reverse, however
\* many separators are at the ends or in a row.
BothEnds == Components(pbuf) = Reverse(Backward(pbuf))

\* push() appends the components of its argument, which an absolute argument does not
\* change; strip_prefix() takes them off again.
JoinSound ==
    \A q \in Args :
        /\ Components(Push(pbuf, q)) = Components(pbuf) \o Components(q)
        /\ Components(StripPrefix(Push(pbuf, q), pbuf)) = Components(q)
        /\ StartsWith(pbuf, q) <=> IsPrefix(Components(q), Components(pbuf))

\* A file name that was set is the one that is read, the directory around it is the
\* same, and its stem and extension make it up again.
FileNameSound ==
    \A n \in Names :
        /\ Normal(n) =>
              LET p == SetFileName(pbuf, n)
              IN  FileName(p) = n
                  /\ (FileName(pbuf) # Nothing => Components(Parent(p)) = Components(Parent(pbuf)))
        /\ Extension(n) # Nothing => n = FileStem(n) \o <<Dot>> \o Extension(n)

\* What a path means: how many times up from where it starts, then which names down.
RECURSIVE MeaningOf(_, _, _)
MeaningOf(cs, ups, names) ==
    IF cs = <<>> THEN <<ups, names>>
    ELSE LET c == Head(cs)
             t == Tail(cs)
         IN  IF c = CurDir THEN MeaningOf(t, ups, names)
             ELSE IF c = ParentDir /\ names = <<>> THEN MeaningOf(t, ups + 1, names)
             ELSE IF c = ParentDir THEN MeaningOf(t, ups, SubSeq(names, 1, Len(names) - 1))
             ELSE MeaningOf(t, ups, Append(names, c))
Meaning(p) == MeaningOf(Components(p), 0, <<>>)

\* normalize() gives a normalized path of the same meaning, and relative() a path that
\* leads from one to the other wherever one can be named: joined to the first it means
\* the second.
NormalSound ==
    /\ IsNormalized(Normalize(pbuf)) /\ Meaning(Normalize(pbuf)) = Meaning(pbuf)
    /\ Normalize(Normalize(pbuf)) = Normalize(pbuf)
    /\ \A q \in Args :
          \/ Meaning(JoinNormalized(pbuf, Relative(pbuf, q))) = Meaning(q)
          \/ Meaning(pbuf)[1] > Meaning(q)[1] /\ Relative(pbuf, q) = <<>>
=============================================================================
