------------------------------ MODULE FatNames ------------------------------
(***************************************************************************)
(* The names of the FAT file system (mizu/lib/afat32/src/dir.rs,           *)
(* dirent.rs): a name is cut into long-name entries and put together from  *)
(* them, and gets a short name that no entry of the directory has.  The    *)
(* sizes of the parts and of the counters are parameters.                  *)
(***************************************************************************)
EXTENDS Naturals, Sequences, FiniteSets, FiniteSetsExt

CONSTANTS Names,            \* long names: [base, ext], ext = <<>> without a dot
          Code,             \* code point of every character
          LFN_PART_LEN,     \* characters of a long-name entry (13)
          BaseLen,          \* size of the base of a short name (8)
          LongLen,          \* prefix kept by the form TEXTFI~1 (6)
          ShortLen,         \* prefix kept by the form TE021F~1 (2)
          LongTries,        \* numbers of the first form (4)
          ShortTries,       \* numbers of the second form (9)
          ChkBits           \* width of the checksum (16); a digit stands for it

VARIABLES files     \* the directory: long name -> short name

fnvars == <<files>>

Pad == " "
Tilde == "~"
Digit(n) == <<"0", "1", "2", "3", "4", "5", "6", "7", "8", "9">>[n + 1]
Prefix(s, n) == SubSeq(s, 1, n)
Padded(s, n) == s \o [i \in 1..(n - Len(s)) |-> Pad]
Trimmed(s) == Prefix(s, Max({0} \cup {i \in 1..Len(s) : s[i] # Pad}))

Init == files = [n \in {} |-> <<>>]
-----------------------------------------------------------------------------
\* The characters of a name, as the long-name entries hold them.
Units(n) == IF n.ext = <<>> THEN n.base ELSE n.base \o <<".">> \o n.ext

\* LfnEntriesGenerator: the parts from the last to the first, the last one ended by a
\* zero and padded unless it is full.
LfnEntries(u) ==
    LET num == (Len(u) + LFN_PART_LEN - 1) \div LFN_PART_LEN
        part(k) == [i \in 1..LFN_PART_LEN |->
                       LET j == (k - 1) * LFN_PART_LEN + i
                       IN  IF j <= Len(u) THEN u[j] ELSE IF j = Len(u) + 1 THEN "0x0000" ELSE "0xFFFF"]
    IN  [i \in 1..num |-> [order |-> num + 1 - i, last |-> i = 1, part |-> part(num + 1 - i)]]

\* LongNameBuilder: process() of each entry, then into_buf() with truncate().
Built(entries) ==
    LET b[k \in 0..Len(entries)] ==
            IF k = 0 THEN [index |-> 0, buf |-> <<>>]
            ELSE LET e == entries[k] IN
                 LET at == LFN_PART_LEN * (e.order - 1)
                     put(buf) == [i \in 1..Len(buf) |->
                                     IF i \in (at + 1)..(at + LFN_PART_LEN) THEN e.part[i - at] ELSE buf[i]]
                 IN  IF e.last
                     THEN [index |-> e.order, buf |-> put([i \in 1..(e.order * LFN_PART_LEN) |-> "0x0000"])]
                     ELSE IF b[k - 1].index = 0 \/ e.order # b[k - 1].index - 1
                     THEN [index |-> 0, buf |-> <<>>]
                     ELSE [index |-> e.order, buf |-> put(b[k - 1].buf)]
        r == b[Len(entries)]
    IN  IF r.index # 1 THEN <<>>
        ELSE Prefix(r.buf, Max({0} \cup {i \in 1..Len(r.buf) : r.buf[i] \notin {"0x0000", "0xFFFF"}}))
-----------------------------------------------------------------------------
\* copy_short_name_part(): what it copies to at most max characters, whether all of it
\* fits, and whether something was dropped or replaced.
Fixed(c) == IF c = "+" THEN "_" ELSE c
ShortPart(s, max) ==
    LET kept == SelectSeq(s, LAMBDA c : c \notin {Pad, "."})
        full == {i \in 1..Len(s) : Cardinality({j \in 1..(i - 1) : s[j] \notin {Pad, "."}}) = max}
        end  == IF full = {} THEN Len(s) ELSE Min(full) - 1
    IN  [ part  |-> [i \in 1..Min({Len(kept), max}) |-> Fixed(kept[i])],
          fits  |-> full = {},
          lossy |-> \E i \in 1..end : s[i] \in {Pad, ".", "+"} ]

\* ShortNameGenerator::checksum, the BSD checksum.
Checksum(u) ==
    LET c[k \in 0..Len(u)] ==
            IF k = 0 THEN 0
            ELSE ((c[k - 1] \div 2) + (c[k - 1] % 2) * 2 ^ (ChkBits - 1) + Code[u[k]]) % 2 ^ ChkBits
    IN  c[Len(u)]

\* ShortNameGenerator::new
Generator(n) ==
    LET base == ShortPart(n.base, BaseLen)
        ext  == ShortPart(n.ext, 1)
    IN  [ chksum |-> Checksum(Units(n)), len |-> Len(base.part),
          asis |-> base.fits /\ ext.fits /\ ~base.lossy /\ ~ext.lossy,
          short |-> [base |-> Padded(base.part, BaseLen), ext |-> Padded(ext.part, 1)] ]

\* build_prefixed_name()
LongForm(g, i) ==
    LET p == Prefix(g.short.base, Min({g.len, LongLen}))
    IN  [base |-> Padded(p \o <<Tilde, Digit(i)>>, BaseLen), ext |-> g.short.ext]
ShortForm(g, chksum, i) ==
    LET p == Prefix(g.short.base, Min({g.len, ShortLen}))
    IN  [base |-> Padded(p \o <<Digit(chksum), Tilde, Digit(i)>>, BaseLen), ext |-> g.short.ext]

\* The numbers add_existing() found taken: the characters up to the digit are compared,
\* what follows it is not.
TakenLong(g, shorts) ==
    LET p == Min({g.len, LongLen})
    IN  {i \in 0..9 : \E s \in shorts : s.ext = g.short.ext /\ Prefix(s.base, p + 2) = Prefix(LongForm(g, i).base, p + 2)}
TakenShort(g, chksum, shorts) ==
    LET p == Min({g.len, ShortLen}) + 1
    IN  {i \in 0..9 : \E s \in shorts : s.ext = g.short.ext /\ Prefix(s.base, p + 2) = Prefix(ShortForm(g, chksum, i).base, p + 2)}

\* generate(), and next_iteration() with the next checksum as long as it fails.
Generate(n, shorts) ==
    LET g     == Generator(n)
        long  == (1..LongTries) \ TakenLong(g, shorts)
        free(k) == (1..ShortTries) \ TakenShort(g, (g.chksum + k) % 2 ^ ChkBits, shorts)
        turn  == Min({k \in 0..(2 ^ ChkBits - 1) : free(k) # {}})
    IN  IF g.asis /\ g.short \notin shorts THEN g.short
        ELSE IF long # {} THEN LongForm(g, Min(long))
        ELSE ShortForm(g, (g.chksum + turn) % 2 ^ ChkBits, Min(free(turn)))

\* ShortName::new, the name a short entry shows.
Display(s) == [base |-> Trimmed(s.base), ext |-> Trimmed(s.ext)]

\* DirEntry::eq_name
Matches(n) == {m \in DOMAIN files : m = n \/ Display(files[m]) = n}

Shorts == {files[m] : m \in DOMAIN files}

\* create_file() and create_dir() of a name no entry answers to; the numbers do not run out.
Create(n) ==
    /\ Matches(n) = {} /\ Cardinality(DOMAIN files) < LongTries + ShortTries * 2 ^ ChkBits
    /\ files' = [m \in DOMAIN files \cup {n} |-> IF m = n THEN Generate(n, Shorts) ELSE files[m]]

\* remove()
Delete(n) ==
    /\ n \in DOMAIN files
    /\ files' = [m \in DOMAIN files \ {n} |-> files[m]]

Next == \E n \in Names : Create(n) \/ Delete(n)

Spec == Init /\ [][Next]_fnvars
-----------------------------------------------------------------------------
\* What the long-name entries of a name are put together to is the name.
LongNameKept == \A n \in DOMAIN files : Built(LfnEntries(Units(n))) = Units(n)

\* A name, long or short, is answered by one entry of a directory at most, whatever names
\* were created and removed before: generated short names collide with no other name.
Unambiguous == \A n \in Names \cup {Display(s) : s \in Shorts} : Cardinality(Matches(n)) <= 1
=============================================================================
