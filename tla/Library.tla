------------------------------ MODULE Library ------------------------------
(* The string functions of libc/systrix_libc.c, copies as user/libc.c does *)
(* them, and what the commands of the kernel's shell (kernel.c) make of    *)
(* names, dates and texts.  A string is the sequence of its characters,    *)
(* without the NUL; what a function writes into a buffer is the string     *)
(* found there afterwards.  A pointer into a string is the rest of the     *)
(* string from there, in a sequence that is empty for NULL.                *)
(*                                                                         *)
(* The second half is arithmetic on words of W bits, the conversions       *)
(* between numbers and digits, checksums, the range of random numbers, and *)
(* how the libraries print numbers.  There a character is its digit value; *)
(* the signs and whatever else ends a number have values no base reaches.  *)
EXTENDS Integers, Sequences, Bitwise

LOCAL INSTANCE SequencesExt
LOCAL INSTANCE FiniteSetsExt
LOCAL INSTANCE FiniteSets

CONSTANTS
    Spaces, Slash, Dot, \* isspace, '/' and '.'
    Blank, Newline,     \* ' ' and '\n'
    Nul,                \* '\0'
    Upper,              \* the capital of each character
    BASE, EXT,          \* characters of a name and of its extension (8, 3)
    W,                  \* bits of a word, a multiple of 8
    Minus, Plus, Space, Hex, \* '-', '+', ' ' and 'x' beside the digits
    BITS, POLY,         \* bits of a byte of the CRC, and its polynomial
    PRIME               \* the modulus of Adler's checksum

Take(s, n) == SubSeq(s, 1, Min({n, Len(s)}))
Drop(s, n) == SubSeq(s, n + 1, Len(s))
First(s, C) == Min({i \in 1 .. Len(s) : s[i] \in C} \union {Len(s) + 1})
At(s, c) == s # <<>> /\ s[1] = c

-----------------------------------------------------------------------------
(* Copies that fit: the text, and the length the caller should have had    *)
(* room for.                                                               *)
strlcpy(src, sz) == [text |-> Take(src, sz - 1), ret |-> Len(src)]

strlcat(dst, src, sz) ==
    LET dl == Min({Len(dst), sz}) IN
    [text |-> dst \o Take(src, sz - 1 - dl), ret |-> dl + Len(src)]

(* A pair of strings is compared up to the first difference.               *)
strncmp(a, b, n) == Take(a, n) = Take(b, n)

(* Where the needle is found first.                                        *)
RECURSIVE strstr(_, _)
strstr(hay, needle) ==
    IF strncmp(hay, needle, Len(needle)) THEN <<hay>>
    ELSE IF hay = <<>> THEN <<>>
    ELSE strstr(Tail(hay), needle)

(* The next token and what is left after it; without one, an empty token.  *)
strtok_r(s, delim) ==
    LET p == Drop(s, First(s, {s[i] : i \in DOMAIN s} \ delim) - 1)
        n == First(p, delim)
    IN  [tok |-> Take(p, n - 1), rest |-> Drop(p, n)]

RECURSIVE Tokens(_, _)
Tokens(s, delim) ==
    LET t == strtok_r(s, delim) IN
    IF t.tok = <<>> THEN <<>> ELSE <<t.tok>> \o Tokens(t.rest, delim)

-----------------------------------------------------------------------------
(* The copies of user/libc.c.  Memory m is copied byte after byte, upwards *)
(* or, when that would overwrite what is still to be read, downwards.      *)
Copied(m, d, s, offsets) ==
    FoldLeft(LAMBDA x, i : [x EXCEPT ![d + i] = x[s + i]], m, offsets)
memcpy(m, d, s, n) == Copied(m, d, s, [k \in 1 .. n |-> k - 1])
memmove(m, d, s, n) ==
    IF d < s \/ d >= s + n THEN memcpy(m, d, s, n)
    ELSE Copied(m, d, s, [k \in 1 .. n |-> n - k])

(* What is left of the n bytes is filled with NUL; a text of n bytes or    *)
(* more is not ended.                                                      *)
strncpy(src, n) == [i \in 1 .. n |-> IF i <= Len(src) THEN src[i] ELSE Nul]
strncat(dst, src, n) == dst \o Take(src, n)

(* From the last c on.                                                     *)
strrchr(s, c) ==
    LET at == {i \in 1 .. Len(s) : s[i] = c} IN
    IF at = {} THEN <<>> ELSE <<Drop(s, Max(at) - 1)>>

-----------------------------------------------------------------------------
slibc_ltrim(s) ==
    Drop(s, First(s, {s[i] : i \in DOMAIN s} \ Spaces) - 1)
(* Blanks are cut from the end, down to the first character.               *)
slibc_rtrim(s) ==
    Take(s, Max({i \in 1 .. Len(s) : s[i] \notin Spaces} \union {0}))
slibc_strtrim(s) == slibc_rtrim(slibc_ltrim(s))

slibc_str_starts_with(s, x) == Len(x) <= Len(s) /\ Take(s, Len(x)) = x
slibc_str_ends_with(s, x) ==
    Len(x) <= Len(s) /\ Drop(s, Len(s) - Len(x)) = x

(* Occurrences that do not overlap.                                        *)
RECURSIVE slibc_str_count(_, _)
slibc_str_count(hay, needle) ==
    LET p == strstr(hay, needle) IN
    IF needle = <<>> \/ p = <<>> THEN 0
    ELSE 1 + slibc_str_count(Drop(p[1], Len(needle)), needle)

(* What is in the buffer when src is worked off or the buffer is full; the *)
(* length is returned.                                                     *)
RECURSIVE Replaced(_, _, _, _, _)
Replaced(src, from, to, buf, sz) ==
    CASE src = <<>> \/ Len(buf) + 1 >= sz -> buf
      [] from # <<>> /\ slibc_str_starts_with(src, from) ->
             Replaced(Drop(src, Len(from)), from, to,
                      buf \o Take(to, sz - 1 - Len(buf)), sz)
      [] OTHER -> Replaced(Tail(src), from, to, Append(buf, src[1]), sz)
slibc_str_replace(src, from, to, sz) == Replaced(src, from, to, <<>>, sz)

(* The last part keeps the delimiters that were not cut at.                *)
RECURSIVE slibc_str_split(_, _, _)
slibc_str_split(src, delim, max) ==
    LET n == First(src, {delim}) IN
    IF max <= 1 \/ n > Len(src) THEN <<src>>
    ELSE <<Take(src, n - 1)>> \o slibc_str_split(Drop(src, n), delim, max - 1)

slibc_str_join(parts, sep, sz) ==
    FoldLeftDomain(LAMBDA buf, i :
                       Take(buf \o (IF i > 1 THEN <<sep>> ELSE <<>>) \o parts[i],
                            sz - 1),
                   <<>>, parts)

(* Cut to the width, filled up to it, all of it cut to the buffer.         *)
slibc_str_pad(str, sz, width, pad_char, left_align) ==
    LET slen  == Min({Len(str), sz, width})
        total == Min({width, sz - 1})
        cut   == Take(str, Min({slen, total}))
        pad   == [i \in 1 .. total - Len(cut) |-> pad_char]
    IN  IF left_align THEN cut \o pad ELSE pad \o cut

-----------------------------------------------------------------------------
(* Paths.                                                                  *)
slibc_path_join(sz, base, name) ==
    IF At(name, Slash)
    THEN [text |-> Take(name, sz - 1), ok |-> Len(name) < sz]
    ELSE LET slash == base # <<>> /\ name # <<>> /\ Last(base) # Slash
             dir   == IF slash THEN Append(base, Slash) ELSE base
         IN  IF Len(base) >= sz THEN [text |-> Take(base, sz - 1), ok |-> FALSE]
             ELSE IF slash /\ Len(dir) >= sz THEN [text |-> base, ok |-> FALSE]
             ELSE [text |-> dir \o strlcpy(name, sz - Len(dir)).text,
                   ok |-> Len(dir) + Len(name) < sz \/ name = <<>>]

(* One component less: its slash, then its characters.                     *)
RECURSIVE Back(_, _)
Back(dst, abs) ==
    IF Len(dst) > abs /\ Last(dst) # Slash THEN Back(Front(dst), abs) ELSE dst
(* The slash in front of the component stays, and so does the component.   *)
Climb_Slash(dst, abs) == IF Len(dst) > abs THEN Front(dst) ELSE dst
Climb(dst, abs) == IF Len(dst) > abs THEN Back(Front(dst), abs) ELSE dst

RECURSIVE Normal(_, _, _)
Normal(src, dst, abs) ==
    LET n == First(src, {Slash})
        c == Take(src, n - 1)
    IN  CASE src = <<>> -> dst
          [] n = 1 -> Normal(Tail(src),
                             IF dst = <<>> \/ Last(dst) # Slash
                             THEN Append(dst, Slash) ELSE dst, abs)
          [] c = <<Dot>> -> Normal(Drop(src, n), dst, abs)
          [] c = <<Dot, Dot>> -> Normal(Drop(src, n), Climb(dst, abs), abs)
          [] OTHER -> Normal(Drop(src, n - 1), dst \o c, abs)

slibc_path_normalize(path) ==
    LET abs == IF At(path, Slash) THEN 1 ELSE 0
        dst == Normal(path, <<>>, abs)
        cut == IF Len(dst) > abs /\ Last(dst) = Slash THEN Front(dst) ELSE dst
    IN  IF path = <<>> THEN path
        ELSE IF cut = <<>> THEN <<Dot>> ELSE cut

(* From the last component on: slashes behind it stay.                     *)
slibc_path_basename(path) ==
    LET end == Max({i \in 1 .. Len(path) : path[i] # Slash} \union {1})
        beg == Max({i \in 1 .. end - 1 : path[i] = Slash} \union {0})
    IN  IF path = <<>> THEN <<Dot>>
        ELSE IF end = 1 /\ path[1] = Slash THEN <<Slash>>
        ELSE Drop(path, beg)

(* It says 0 only when nothing is behind the directory.                    *)
slibc_path_dirname(path, sz) ==
    LET len  == Max({i \in 1 .. Len(path) : path[i] # Slash} \union {1})
        last == Max({i \in 1 .. Min({len, Len(path)}) : path[i] = Slash}
                    \union {0})
        n    == IF last > 1 THEN last - 1 ELSE last
    IN  IF last = 0 THEN [text |-> Take(<<Dot>>, sz - 1), ret |-> 0]
        ELSE [text |-> Take(path, Min({n, sz - 1})),
              ret  |-> IF Len(path) <= n THEN 0 ELSE -1]
-----------------------------------------------------------------------------
(* Names on the FAT32 volume.                                              *)
Capital(s) == [i \in 1 .. Len(s) |-> Upper[s[i]]]
Fill(s, n) == Capital(s) \o [i \in 1 .. n - Len(s) |-> Blank]

(* Up to the first dot, and what follows it.                               *)
to_83(s) ==
    LET dot == First(s, {Dot})
    IN  Fill(Take(s, Min({dot - 1, BASE})), BASE) \o
        Fill(Take(Drop(s, dot), EXT), EXT)

(* Both parts end at a blank, but the dot is looked for behind it as well. *)
format_83_name(s) ==
    LET ext == Take(Drop(s, First(s, {Dot})), EXT)
    IN  Fill(Take(s, Min({First(s, {Dot, Blank}) - 1, BASE})), BASE) \o
        Fill(Take(ext, First(ext, {Blank}) - 1), EXT)

(* How find shows an entry, and whether it is one that was looked for.     *)
Shown(n) ==
    LET base == Take(n, BASE)
        ext == Drop(n, BASE)
    IN  Take(base, First(base, {Blank}) - 1) \o
        (IF ext[1] = Blank THEN <<>>
         ELSE <<Dot>> \o Take(ext, First(ext, {Blank}) - 1))
cmd_find(n, pattern) ==
    \E k \in 0 .. Len(Shown(n)) :
        strncmp(Capital(Drop(Shown(n), k)), Capital(pattern), Len(pattern))

(* The clock gives two decimal digits in a byte.  A date and a time of an  *)
(* entry, and what stat reads from them.                                   *)
rtc_read_reg(v) == (v \div 16) * 10 + (v % 16)
fat_date_now(y, m, d) ==
    LET Bounded(x, hi) == Max({1, Min({x, hi})})
    IN  (rtc_read_reg(y) + 20) * 512 + Bounded(rtc_read_reg(m), 12) * 32
        + Bounded(rtc_read_reg(d), 31)
fat_time_now(h, m, s) ==
    rtc_read_reg(h) * 2048 + rtc_read_reg(m) * 32 + (rtc_read_reg(s) \div 2)
cmd_stat(date, time) ==
    [year |-> 1980 + ((date \div 512) % 128), mon |-> (date \div 32) % 16,
     day |-> date % 32, hour |-> (time \div 2048) % 32,
     min |-> (time \div 32) % 64]

-----------------------------------------------------------------------------
(* Texts on the screen.                                                    *)
Ends(s) == {i \in 1 .. Len(s) : s[i] = Newline}

cmd_head(s, lines) ==
    Take(s, Min({i \in Ends(s) : Cardinality(Ends(Take(s, i))) = lines}
                \union {Len(s)}))

(* Back to the newline before the last lines; the one at the end of the    *)
(* text is not counted, and one at its beginning is not skipped.           *)
cmd_tail(s, lines) ==
    LET at == {i \in Ends(s) :
                   Cardinality(Ends(s) \cap (i .. Len(s) - 1)) = lines}
    IN  IF at \subseteq {1} THEN s ELSE Drop(s, Max(at))

cmd_wc(s) ==
    FoldLeft(LAMBDA t, c :
                 LET word == c \notin Spaces \cup {Newline}
                 IN  [lines |-> IF c = Newline THEN t.lines + 1 ELSE t.lines,
                      words |-> IF word /\ ~t.in THEN t.words + 1 ELSE t.words,
                      bytes |-> t.bytes + 1, in |-> word],
             [lines |-> 0, words |-> 0, bytes |-> 0, in |-> FALSE], s)

(* The words of wget's line; the last is the rest of it.                   *)
cmd_wget(s, ip_sz, path_sz, out_sz) ==
    LET Blanks(t) == Drop(t, First(t, {t[i] : i \in DOMAIN t} \ {Blank}) - 1)
        Word(t, sz) == Take(t, Min({First(t, {Blank}) - 1, sz - 1}))
        p1 == Blanks(Drop(s, First(s, {Blank}) - 1))
        p2 == Blanks(Drop(p1, First(p1, {Blank}) - 1))
    IN  <<Word(s, ip_sz), Word(p1, path_sz), Take(p2, out_sz - 1)>>

-----------------------------------------------------------------------------
M == 2^W
UMAX == M - 1
MAX == 2^(W - 1) - 1
MIN == - 2^(W - 1)
U(x) == x % M
S(x) == IF U(x) > MAX THEN U(x) - M ELSE U(x)
Abs(x) == IF x < 0 THEN -x ELSE x
(* Division as C does it, towards zero.                                    *)
Quot(a, b) == IF (a < 0) = (b < 0) THEN Abs(a) \div Abs(b)
              ELSE - (Abs(a) \div Abs(b))
Shl(v, n) == U(v * 2^n)
Shr(v, n) == v \div 2^n
(* A byte repeated over the word, as the masks are.                        *)
Mask(b) == b * ((M - 1) \div 255)

-----------------------------------------------------------------------------
(* Each answers whether the result did not fit, and the result.            *)
slibc_add_overflow_u64(a, b) ==
    LET out == U(a + b) IN [over |-> out < a, out |-> out]
slibc_mul_overflow_u64(a, b) ==
    [over |-> a # 0 /\ b > UMAX \div a, out |-> U(a * b)]
slibc_add_overflow_i64(a, b) ==
    LET out == S(U(a) + U(b)) IN
    [over |-> (b > 0 /\ out < a) \/ (b < 0 /\ out > a), out |-> out]
slibc_mul_overflow_i64(a, b) ==
    [over |-> \/ a > 0 /\ b > 0 /\ a > Quot(MAX, b)
              \/ a < 0 /\ b < 0 /\ a < Quot(MAX, b)
              \/ a > 0 /\ b < 0 /\ b < Quot(MIN, a)
              \/ a < 0 /\ b > 0 /\ a < Quot(MIN, b),
     out  |-> S(a * b)]

gcd[a \in 0 .. UMAX, b \in 0 .. UMAX] == IF b = 0 THEN a ELSE gcd[b, a % b]
slibc_lcm(a, b) ==
    IF a = 0 \/ b = 0 THEN 0
    ELSE LET p == slibc_mul_overflow_u64(a \div gcd[a, b], b) IN
         IF p.over THEN 0 ELSE p.out

slibc_sat_add_u64(a, b) == IF U(a + b) < a THEN UMAX ELSE U(a + b)
slibc_sat_sub_u64(a, b) == IF a < b THEN 0 ELSE a - b
slibc_sat_add_i64(a, b) ==
    LET r == slibc_add_overflow_i64(a, b) IN
    IF r.over THEN IF b > 0 THEN MAX ELSE MIN ELSE r.out
slibc_sat_sub_i64(a, b) ==
    LET r == slibc_add_overflow_i64(a, S(-b)) IN
    IF r.over THEN IF b < 0 THEN MAX ELSE MIN ELSE r.out
slibc_div_round_up(n, d) == Quot(S(n + d - 1), d)

(* Squares of the base for the bits of the exponent.                       *)
RECURSIVE Power(_, _, _)
Power(base, exp, result) ==
    IF exp = 0 THEN result
    ELSE Power(U(base * base), exp \div 2,
               IF exp % 2 = 1 THEN U(result * base) ELSE result)
slibc_pow_u64(base, exp) == Power(base, exp, 1)

slibc_log2_u64(v) == IF v = 0 THEN -1 ELSE Max({i \in 0 .. W - 1 : 2^i <= v})
slibc_round_down_pow2(v) == IF v = 0 THEN 0 ELSE 2^slibc_log2_u64(v)
(* The bits below the highest are all set, and one is added.               *)
slibc_round_up_pow2(v) ==
    IF v = 0 THEN 1
    ELSE U(1 + FoldLeft(LAMBDA x, i : x | Shr(x, i), v - 1, <<1, 2, 4, 8>>))

slibc_popcount(v) ==
    LET pairs == v - (Shr(v, 1) & Mask(85))
        fours == (pairs & Mask(51)) + (Shr(pairs, 2) & Mask(51))
        bytes == (fours + Shr(fours, 4)) & Mask(15)
    IN  Shr(U(bytes * Mask(1)), W - 8)
slibc_reverse_byte(v) ==
    LET a == Shr(v & 240, 4) | Shl(v & 15, 4)
        b == Shr(a & 204, 2) | Shl(a & 51, 2)
    IN  Shr(b & 170, 1) | Shl(b & 85, 1)
slibc_reverse_bits(v) ==
    FoldLeft(LAMBDA r, i : U(2 * r) + (Shr(v, i - 1) % 2), 0,
             [i \in 1 .. W |-> i])
(* A rotation by 0 shifts by the whole width as well, which the processor  *)
(* takes for a shift by 0.                                                 *)
slibc_rotl64(v, n) ==
    LET k == n % W IN Shl(v, k) | Shr(v, IF k = 0 THEN 0 ELSE W - k)

-----------------------------------------------------------------------------
(* Digits, highest first.                                                  *)
RECURSIVE Digits(_, _)
Digits(v, base) ==
    IF v < base THEN <<v>> ELSE Append(Digits(v \div base, base), v % base)
slibc_u64_to_dec(v) == Digits(v, 10)
slibc_u64_to_hex(v) == Digits(v, 16)

RECURSIVE Value(_, _, _)
Value(s, base, v) ==
    IF s # <<>> /\ s[1] < base THEN Value(Tail(s), base, S(v * base + s[1]))
    ELSE [v |-> v, rest |-> s]
(* The prefix that gives or repeats the base, and the base.                *)
Prefix(d, base) ==
    CASE Len(d) >= 2 /\ d[1] = 0 /\ d[2] = Hex /\ base \in {0, 16} ->
             [base |-> 16, rest |-> SubSeq(d, 3, Len(d))]
      [] OTHER -> IF base # 0 THEN [base |-> base, rest |-> d]
                  ELSE IF d # <<>> /\ d[1] = 0 THEN [base |-> 8, rest |-> Tail(d)]
                  ELSE [base |-> 10, rest |-> d]
Unblanked(text) ==
    LET t == SelectInSeq(text, LAMBDA c : c # Space) IN
    IF t = 0 THEN <<>> ELSE SubSeq(text, t, Len(text))
(* Blanks, a sign, the prefix, digits; the rest is where they end.         *)
strtoll(text, base) ==
    LET s   == Unblanked(text)
        neg == s # <<>> /\ s[1] = Minus
        d   == Prefix(IF s # <<>> /\ s[1] \in {Minus, Plus} THEN Tail(s) ELSE s, base)
        r   == Value(d.rest, d.base, 0)
    IN  [v |-> IF neg THEN S(- r.v) ELSE r.v, rest |-> r.rest]

(* user/libc.c: a number without a sign may not be written with one, and   *)
(* the end goes back one character when a sign is not followed by digits.  *)
__strtoll_base(text, base, is_unsigned) ==
    LET s    == Unblanked(text)
        sign == ~is_unsigned /\ s # <<>> /\ s[1] \in {Minus, Plus}
        neg  == sign /\ s[1] = Minus
        d    == Prefix(IF sign THEN Tail(s) ELSE s, base)
        r    == Value(d.rest, d.base, 0)
        n    == Len(r.rest) + IF r.rest = d.rest /\ neg THEN 1 ELSE 0
    IN  [v |-> IF neg THEN S(- r.v) ELSE r.v,
         rest |-> SubSeq(text, Len(text) - n + 1, Len(text))]

(* Two digits for a byte.                                                  *)
slibc_hex_encode(src) ==
    [i \in 1 .. 2 * Len(src) |-> IF i % 2 = 1 THEN src[(i + 1) \div 2] \div 16
                                 ELSE src[i \div 2] % 16]
(* What is no digit ends it without a result, here <<-1>>; a digit left    *)
(* over is dropped.                                                        *)
slibc_hex_decode(hex, outlen) ==
    LET n == Min({Len(hex) \div 2, outlen}) IN
    IF \E i \in 1 .. 2 * n : hex[i] >= 16 THEN <<-1>>
    ELSE [i \in 1 .. n |-> 16 * hex[2 * i - 1] + hex[2 * i]]

-----------------------------------------------------------------------------
(* Checksums that go on where they were left.                              *)
crc32_tab[i \in 0 .. 2^BITS - 1] ==
    FoldLeft(LAMBDA c, k : Shr(c, 1) ^^ (IF c % 2 = 1 THEN POLY ELSE 0),
             i, [k \in 1 .. BITS |-> k])
slibc_crc32_update(crc, data) ==
    FoldLeft(LAMBDA c, p : Shr(c, BITS) ^^ crc32_tab[(c ^^ p) % 2^BITS],
             crc ^^ UMAX, data) ^^ UMAX

slibc_adler32_update(adler, data) ==
    LET half == 2^(W \div 2)
        sum  == FoldLeft(LAMBDA s, p : <<(s[1] + p) % PRIME,
                                         (s[1] + s[2] + p) % PRIME>>,
                         <<adler % half, (adler \div half) % half>>, data)
    IN  sum[2] * half + sum[1]

(* What a number drawn becomes: a small one is thrown away and drawn       *)
(* again.                                                                  *)
slibc_rng_range(x, lo, hi) ==
    IF lo >= hi THEN <<lo>>
    ELSE IF x < U(-(hi - lo)) % (hi - lo) THEN <<>>
    ELSE <<lo + (x % (hi - lo))>>

-----------------------------------------------------------------------------
(* The two printf cores: slibc_vprintf_cb and vsnprintf of user/libc.c.  A *)
(* conversion is a record of what its text between % and the letter says:  *)
(* conv (the letter), left, zero, plus, space, hash (its flags), width,    *)
(* and prec (-1 without one).                                              *)
Times(c, n) == [i \in 1 .. n |-> c]
Base(conv) == CASE conv = "x" -> 16 [] conv = "o" -> 8 [] OTHER -> 10

(* Noughts in front of the sign.                                           *)
Field_Outside(f, prefix, digits) ==
    LET n == f.width - Len(prefix) - Len(digits) IN
    CASE f.left   -> prefix \o digits \o Times(Space, n)
      [] ~f.left  -> Times(IF f.zero THEN 0 ELSE Space, n) \o prefix \o digits
(* A sign or prefix, digits, and the padding: blanks on one side of both,  *)
(* or noughts between them.                                                *)
Field(f, prefix, digits) ==
    LET n == f.width - Len(prefix) - Len(digits) IN
    CASE f.left              -> prefix \o digits \o Times(Space, n)
      [] ~f.left /\ f.zero   -> prefix \o Times(0, n) \o digits
      [] ~f.left /\ ~f.zero  -> Times(Space, n) \o prefix \o digits

Sign(f, neg) == IF neg THEN <<Minus>> ELSE IF f.plus THEN <<Plus>>
                ELSE IF f.space THEN <<Space>> ELSE <<>>

(* A string cut to its precision.                                          *)
_emit_str(f, s) ==
    LET n == IF f.prec < 0 THEN Len(s) ELSE f.prec
        t == SubSeq(s, 1, IF n < Len(s) THEN n ELSE Len(s))
        b == Times(Space, f.width - Len(t))
    IN  IF f.left THEN t \o b ELSE b \o t

(* slibc: a sign for every number, a prefix for every number but 0.        *)
slibc_vprintf_cb(f, v) ==
    LET neg    == f.conv = "d" /\ v < 0
        uval   == IF neg THEN U(- v) ELSE v
        prefix == IF ~f.hash \/ uval = 0 THEN <<>>
                  ELSE CASE f.conv = "x" -> <<0, Hex>> [] f.conv = "o" -> <<0>>
                         [] OTHER -> <<>>
    IN  Field(f, Sign(f, neg) \o prefix, Digits(uval, Base(f.conv)))

(* user/libc.c: a sign only for %d, 0x also in front of 0.                 *)
_emit_uint(f, v) ==
    LET prefix == IF ~f.hash THEN <<>>
                  ELSE CASE f.conv = "x" -> <<0, Hex>>
                         [] f.conv = "o" /\ v # 0 -> <<0>>
                         [] OTHER -> <<>>
    IN  Field(f, prefix, Digits(v, Base(f.conv)))
_emit_int(f, v) ==
    Field(f, Sign(f, v < 0), Digits(IF v < 0 THEN U(- v) ELSE v, 10))
_emit_ptr(f, v) ==
    <<0, Hex>> \o _emit_uint([f EXCEPT !.conv = "x", !.hash = FALSE,
                                       !.zero = TRUE, !.width = @ - 2], v)
vsnprintf_One(f, v) ==
    CASE f.conv = "d" -> _emit_int(f, v)
      [] f.conv = "p" -> _emit_ptr(f, v)
      [] OTHER        -> _emit_uint(f, v)

(* What a call leaves in a buffer of size bytes, and what it returns.      *)
vsnprintf(out, size) ==
    [text |-> SubSeq(out, 1, IF Len(out) < size THEN Len(out) ELSE size - 1),
     ret  |-> Len(out)]
=============================================================================
