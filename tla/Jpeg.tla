-------------------------------- MODULE Jpeg --------------------------------
(***************************************************************************)
(* The baseline decoder of kernel/jpeg.c.  A file is the sequence of its   *)
(* bytes, and places in it count from 0.  A component's plane is kept as   *)
(* the coefficients of its blocks; samples are computed from them where    *)
(* they are looked at.  The heap has room for the planes.                  *)
(***************************************************************************)
EXTENDS Integers, Sequences

LOCAL INSTANCE SequencesExt
LOCAL INSTANCE FiniteSetsExt
LOCAL INSTANCE FiniteSets
LOCAL INSTANCE Functions
LOCAL INSTANCE TLC

IMG_OK == 0
IMG_ERR_FORMAT == -1
IMG_ERR_UNSUPPORTED == -2
IMG_ERR_CORRUPT == -3
IMG_ERR_TRUNCATED == -5
IMG_ERR_TOOBIG == -6
IMG_MAX_DIM == 4096
JMAX_COMP == 4
NONE == -1

-----------------------------------------------------------------------------
(* The next bit: a byte 255 is followed by a zero byte or is a marker.     *)
jb_bit(d, b) ==
    LET c == d[b.p + 1]
        stuffed == b.p + 1 < Len(d) /\ d[b.p + 2] = 0
        byte == [i \in 1 .. 8 |-> (c \div 2^(8 - i)) % 2]
    IN  CASE b.buf # <<>> -> [v |-> Head(b.buf), b |-> [b EXCEPT !.buf = Tail(@)]]
          [] b.buf = <<>> /\ b.p >= Len(d) -> [v |-> NONE, b |-> b]
          [] b.buf = <<>> /\ c = 255 /\ ~stuffed -> [v |-> NONE, b |-> b]
          [] OTHER -> [v |-> byte[1],
                       b |-> [p |-> b.p + (IF c = 255 THEN 2 ELSE 1),
                              buf |-> Tail(byte)]]
RECURSIVE Take(_, _, _, _)
Take(d, b, k, v) ==
    LET x == jb_bit(d, b) IN
    IF k = 0 THEN [v |-> v, b |-> b]
    ELSE IF x.v = NONE THEN x ELSE Take(d, x.b, k - 1, 2 * v + x.v)
jb_bits(d, b, k) == Take(d, b, k, 0)

(* Codes of a length are numbered on from twice the last of the length     *)
(* before.                                                                 *)
jh_build(count) ==
    LET m[l \in 1 .. 16] == IF l = 1 THEN 0 ELSE 2 * (m[l - 1] + count[l - 1])
        k[l \in 1 .. 16] == IF l = 1 THEN 0 ELSE k[l - 1] + count[l - 1]
    IN  [l \in 1 .. 16 |-> [mincode |-> m[l], maxcode |-> m[l] + count[l] - 1,
                           valptr |-> k[l]]]
(* `x` is the bit that makes the code one of length l.                     *)
RECURSIVE Find(_, _, _, _, _)
Find(d, x, h, before, l) ==
    LET t == h.t[l]
        code == 2 * before + x.v
    IN  CASE x.v = NONE \/ l > 16 -> [v |-> NONE, b |-> x.b]
          [] x.v # NONE /\ l <= 16 /\ h.count[l] > 0 /\ code <= t.maxcode ->
               [v |-> h.vals[t.valptr + code - t.mincode + 1], b |-> x.b]
          [] OTHER -> Find(d, jb_bit(d, x.b), h, code, l + 1)
jh_decode(d, b, h) == Find(d, jb_bit(d, b), h, 0, 1)

extend(v, n) == IF v < 2^(n - 1) THEN v - 2^n + 1 ELSE v

jzigzag == << 0,  1,  8, 16,  9,  2,  3, 10, 17, 24, 32, 25, 18, 11,  4,  5,
             12, 19, 26, 33, 40, 48, 41, 34, 27, 20, 13,  6,  7, 14, 21, 28,
             35, 42, 49, 56, 57, 50, 43, 36, 29, 22, 15, 23, 30, 37, 44, 51,
             58, 59, 52, 45, 38, 31, 39, 46, 53, 60, 61, 54, 47, 55, 62, 63>>

(* A block: the difference to the component's last one, then runs of zeros *)
(* and values up to the end of the block.                                  *)
RECURSIVE Values(_, _, _, _, _, _)
Values(d, b, h, q, k, coef) ==
    LET Ends(e, to) == [v |-> e, b |-> to, coef |-> coef]
        Put(at, wide, x) ==
            IF x.v = NONE THEN Ends(NONE, x.b)
            ELSE Values(d, x.b, h, q, at + 1,
                        [coef EXCEPT ![jzigzag[at + 1]] = extend(x.v, wide) * q[at + 1]])
        Meant(rs) ==
            CASE rs.v = NONE -> Ends(NONE, rs.b)
              [] rs.v = 240 -> Values(d, rs.b, h, q, k + 16, coef)
              [] rs.v # NONE /\ rs.v # 240
                 /\ (rs.v % 16 = 0 \/ k + (rs.v \div 16) > 63) -> Ends(0, rs.b)
              [] OTHER -> Put(k + (rs.v \div 16), rs.v % 16, jb_bits(d, rs.b, rs.v % 16))
    IN  IF k > 63 THEN Ends(0, b) ELSE Meant(jh_decode(d, b, h))
Block(d, b, dc, ac, q, pred) ==
    LET Of(x, new) ==
            IF x.v = NONE THEN [v |-> NONE, pred |-> pred]
            ELSE Values(d, x.b, ac, q, 1,
                        [i \in 0 .. 63 |-> IF i = 0 THEN new * q[1] ELSE 0])
                 @@ [pred |-> new]
        Sum(x, wide) == Of(x, pred + (IF wide = 0 THEN 0 ELSE extend(x.v, wide)))
        Meant(t) == IF t.v = NONE THEN [v |-> NONE, pred |-> pred]
                    ELSE Sum(jb_bits(d, t.b, t.v), t.v)
    IN  Meant(jh_decode(d, b, dc))

-----------------------------------------------------------------------------
(* The transform, for one sample of a block.  A factor of 4096 that both   *)
(* passes carry and the shift between them are left out, they cancel; the  *)
(* column sum is taken in two parts, as it exceeds a word of 32 bits.      *)
idct_cos == <<<<4096,  4017,  3784,  3406,  2896,  2276,  1567,   799>>,
              <<4096,  3406,  1567,  -799, -2896, -4017, -3784, -2276>>,
              <<4096,  2276, -1567, -4017, -2896,   799,  3784,  3406>>,
              <<4096,   799, -3784, -2276,  2896,  3406, -1567, -4017>>,
              <<4096,  -799, -3784,  2276,  2896, -3406, -1567,  4017>>,
              <<4096, -2276, -1567,  4017, -2896,  -799,  3784, -3406>>,
              <<4096, -3406,  1567,   799, -2896,  4017, -3784,  2276>>,
              <<4096, -4017,  3784, -3406,  2896, -2276,  1567,  -799>>>>
IDCT_C0 == 2896
Factor(x, u) == IF u = 0 THEN IDCT_C0 ELSE idct_cos[x + 1][u + 1]
Sum8(f) == f[0] + f[1] + f[2] + f[3] + f[4] + f[5] + f[6] + f[7]
Clamp(v) == Max({0, Min({255, v})})
jidct8x8(coef, x, y) ==
    LET tmp == [v \in 0 .. 7 |-> Sum8([u \in 0 .. 7 |-> coef[8 * v + u] * Factor(x, u)])]
        hi == Sum8([v \in 0 .. 7 |-> (tmp[v] \div 4096) * Factor(y, v)])
        lo == Sum8([v \in 0 .. 7 |-> (tmp[v] % 4096) * Factor(y, v)])
    IN  Clamp(((hi + ((lo + 2^25) \div 4096)) \div 2^14) + 128)

-----------------------------------------------------------------------------
(* The scan: MCU after MCU, in each the blocks of each component.          *)
Up(n, k) == (n + k - 1) \div k
Frame(f) == [mcux |-> Up(f.w, 8 * f.hmax), mcuy |-> Up(f.h, 8 * f.vmax)]
BlocksOf(f, m) ==
    LET g == Frame(f)
        mx == m % g.mcux
        my == m \div g.mcux
    IN  FlattenSeq([c \in 1 .. Len(f.comps) |->
            LET k == f.comps[c] IN
            [i \in 1 .. k.vs * k.hs |->
               [c |-> c, first |-> c = 1 /\ i = 1,
                at |-> <<mx * k.hs + ((i - 1) % k.hs), my * k.vs + ((i - 1) \div k.hs)>>]]])
AllBlocks(f) == LET g == Frame(f)
                IN  FlattenSeq([m \in 1 .. g.mcux * g.mcuy |-> BlocksOf(f, m - 1)])

(* Mutant: the components keep their last values.                          *)
Restart_Keeps(d, st) ==
    LET found == {q \in st.b.p .. Len(d) - 2 : d[q + 1] = 255 /\ d[q + 2] \in 208 .. 215}
    IN  [st EXCEPT !.b = [p |-> IF found = {} THEN Max({@.p, Len(d) - 1})
                                ELSE Min(found) + 2, buf |-> <<>>],
                   !.since = 0]
(* A restart: on behind the next of its markers, with nothing before.      *)
Restart(d, st) ==
    LET found == {q \in st.b.p .. Len(d) - 2 : d[q + 1] = 255 /\ d[q + 2] \in 208 .. 215}
    IN  [st EXCEPT !.b = [p |-> IF found = {} THEN Max({@.p, Len(d) - 1})
                                ELSE Min(found) + 2, buf |-> <<>>],
                   !.pred = [c \in DOMAIN @ |-> 0], !.since = 0]

(* The end of the data leaves the rest of the planes grey.  The data begin *)
(* at place `at`.                                                          *)
Scan(w, d, at) ==
    LET Put(s, k, r) ==
            IF r.v = NONE THEN [s EXCEPT !.done = TRUE]
            ELSE [s EXCEPT !.b = r.b, !.pred[k.c] = r.pred,
                           !.planes[k.c] = (k.at :> r.coef) @@ @,
                           !.since = IF k.first THEN @ + 1 ELSE @]
        One(st, k) ==
            LET s == IF k.first /\ w.interval > 0 /\ st.since = w.interval
                     THEN Restart(d, st) ELSE st
                c == w.frame.comps[k.c]
            IN  CASE st.done -> st
                  [] ~st.done /\ (c.td \notin DOMAIN w.hdc \/ c.ta \notin DOMAIN w.hac) ->
                       [st EXCEPT !.done = TRUE, !.ret = IMG_ERR_CORRUPT]
                  [] OTHER -> Put(s, k, Block(d, s.b, w.hdc[c.td], w.hac[c.ta],
                                              w.jquant[c.tq], s.pred[k.c]))
    IN  FoldLeft(One, [done |-> FALSE, ret |-> IMG_OK, b |-> [p |-> at, buf |-> <<>>],
                       since |-> 0, pred |-> [c \in 1 .. Len(w.frame.comps) |-> 0],
                       planes |-> [c \in 1 .. Len(w.frame.comps) |-> <<>>]],
                 AllBlocks(w.frame))

(* The header of a frame; the largest factors of an earlier frame stay.    *)
FrameOf(w, s) ==
    LET comps == [i \in 1 .. s[6] |->
                    [id |-> s[3 * i + 4], hs |-> s[3 * i + 5] \div 16,
                     vs |-> s[3 * i + 5] % 16, tq |-> s[3 * i + 6]]]
    IN  [w |-> 256 * s[4] + s[5], h |-> 256 * s[2] + s[3], comps |-> comps,
         hmax |-> Max({w.frame.hmax} \union {c.hs : c \in Range(comps)}),
         vmax |-> Max({w.frame.vmax} \union {c.vs : c \in Range(comps)})]
FrameError(s, f) ==
    CASE Len(s) < 6 -> IMG_ERR_CORRUPT
      [] s[1] # 8 -> IMG_ERR_UNSUPPORTED
      [] s[6] \notin 1 .. JMAX_COMP -> IMG_ERR_CORRUPT
      [] s[2] + s[3] = 0 \/ s[4] + s[5] = 0 -> IMG_ERR_CORRUPT
      [] Max({256 * s[2] + s[3], 256 * s[4] + s[5]}) > IMG_MAX_DIM -> IMG_ERR_TOOBIG
      [] Len(s) < 6 + 3 * s[6] -> IMG_ERR_CORRUPT
      [] \E c \in Range(f.comps) : c.hs \notin 1 .. 4 \/ c.vs \notin 1 .. 4 \/ c.tq > 3
           -> IMG_ERR_CORRUPT
      [] OTHER -> IMG_OK

(* Tables one behind the other, from place q of the segment on.  Those of  *)
(* quantisation stay from one picture to the next.                         *)
Ends(w, e) == [w EXCEPT !.end = TRUE, !.ret = e]
RECURSIVE Codes(_, _, _)
Codes(w, s, q) ==
    LET tc == s[q + 1] \div 16
        th == s[q + 1] % 16
        count == SubSeq(s, q + 2, q + 17)
        total == FoldLeft(LAMBDA n, k : n + k, 0, count)
        h == [count |-> count, vals |-> SubSeq(s, q + 18, q + 17 + total),
              t |-> jh_build(count)]
    IN  CASE q + 17 > Len(s) -> w
          [] tc > 1 \/ th > 3 -> Ends(w, IMG_ERR_CORRUPT)
          [] total > 256 \/ q + 17 + total > Len(s) -> Ends(w, IMG_ERR_CORRUPT)
          [] OTHER -> Codes(IF tc = 1 THEN [w EXCEPT !.hac = (th :> h) @@ @]
                            ELSE [w EXCEPT !.hdc = (th :> h) @@ @],
                            s, q + 17 + total)
RECURSIVE Quantisation(_, _, _)
Quantisation(w, s, q) ==
    LET tq == s[q + 1] % 16
        wide == s[q + 1] >= 16
        to == q + 1 + (IF wide THEN 128 ELSE 64)
        vals == [i \in 1 .. 64 |-> IF wide THEN 256 * s[q + 2 * i] + s[q + 2 * i + 1]
                                   ELSE s[q + 1 + i]]
    IN  CASE q >= Len(s) -> w
          [] tq > 3 \/ to > Len(s) -> Ends(w, IMG_ERR_CORRUPT)
          [] OTHER -> Quantisation([w EXCEPT !.jquant[tq] = vals], s, to)

(* The tables of the components; one that the scan does not name has none  *)
(* that anybody chose.                                                     *)
Named(s, k) == {i \in 1 .. s[1] : s[2 * i] = k.id}
Chosen(comps, s) ==
    [c \in 1 .. Len(comps) |->
        LET named == Named(s, comps[c])
            t == s[2 * Max(named) + 1]
        IN  comps[c] @@ (IF named = {} THEN [td |-> NONE, ta |-> NONE]
                         ELSE [td |-> t \div 16, ta |-> t % 16])]
StartOfScan(d, w, s, at) ==
    LET comps == w.frame.comps
        chosen == [w EXCEPT !.frame.comps = Chosen(@, s)]
        wrong == \E c \in Range(comps) : \E i \in Named(s, c) :
                    s[2 * i + 1] \div 16 > 3 \/ s[2 * i + 1] % 16 > 3
        r == Scan(chosen, d, at)
    IN  IF \/ comps = <<>> \/ s = <<>>
           \/ s[1] # Len(comps) \/ Len(s) < 4 + 2 * s[1] \/ wrong
        THEN Ends(w, IMG_ERR_CORRUPT)
        ELSE [chosen EXCEPT !.end = TRUE, !.ret = r.ret, !.planes = r.planes]

(* The segment s of marker m, with what follows it at place `at`.          *)
Segment(d, w, m, s, at) ==
    CASE m \in {192, 193} ->
           IF FrameError(s, FrameOf(w, s)) # IMG_OK
           THEN Ends(w, FrameError(s, FrameOf(w, s)))
           ELSE [w EXCEPT !.frame = FrameOf(w, s)]
      [] m = 194 -> Ends(w, IMG_ERR_UNSUPPORTED)
      [] m = 196 -> Codes(w, s, 0)
      [] m = 219 -> Quantisation(w, s, 0)
      [] m = 221 /\ Len(s) >= 2 -> [w EXCEPT !.interval = 256 * s[1] + s[2]]
      [] m = 238 /\ Len(s) >= 11 /\ IsPrefix(<<65, 100, 111, 98, 101>>, s) ->
           [w EXCEPT !.transform = Last(s)]
      [] m = 218 -> StartOfScan(d, w, s, at)
      [] OTHER -> w
RECURSIVE Segments(_, _, _)
Segments(d, p, w) ==
    LET m == d[p + 2]
        at == p + 2 + 256 * d[p + 3] + d[p + 4]
    IN  CASE w.end \/ p + 1 >= Len(d) -> w
          [] d[p + 1] # 255 \/ m = 255 -> Segments(d, p + 1, w)
          [] m \in {1, 216} \union 208 .. 215 -> Segments(d, p + 2, w)
          [] m = 217 \/ p + 4 > Len(d) -> w
          [] at < p + 4 \/ at > Len(d) -> w
          [] OTHER -> Segments(d, at, Segment(d, w, m, SubSeq(d, p + 5, at), at))
jpeg_decode(d, jquant) ==
    LET w == [end |-> FALSE, ret |-> IMG_ERR_TRUNCATED,
              frame |-> [w |-> 0, h |-> 0, comps |-> <<>>, hmax |-> 1, vmax |-> 1],
              hdc |-> <<>>, hac |-> <<>>, jquant |-> jquant,
              interval |-> 0, transform |-> NONE, planes |-> <<>>]
    IN  CASE Len(d) < 4 -> w
          [] ~IsPrefix(<<255, 216>>, d) -> Ends(w, IMG_ERR_FORMAT)
          [] OTHER -> Segments(d, 2, w)

(* A pixel: the samples of the components at its place, each in its own    *)
(* resolution.                                                             *)
ToRGB(y, cb, cr) ==
    <<Clamp(y + ((91881 * cr) \div 65536)),
      Clamp(y - ((22554 * cb + 46802 * cr) \div 65536)),
      Clamp(y + ((116130 * cb) \div 65536))>>
Shown(w, x, y) ==
    LET n == Len(w.frame.comps)
        S(c) == LET k == w.frame.comps[c]
                    sx == (x * k.hs) \div w.frame.hmax
                    sy == (y * k.vs) \div w.frame.vmax
                    at == <<sx \div 8, sy \div 8>>
                IN  IF at \notin DOMAIN w.planes[c] THEN 128
                    ELSE jidct8x8(w.planes[c][at], sx % 8, sy % 8)
    IN  CASE n = 3 -> ToRGB(S(1), S(2) - 128, S(3) - 128)
          [] n = 1 \/ (n = 4 /\ w.transform = 0) -> <<S(1)>>
          [] OTHER -> <<S(1), S(1), S(1)>>

-----------------------------------------------------------------------------
(* What the decoder should give.  The order of the coefficients runs along *)
(* the diagonals, up and down in turn.                                     *)
Diagonal(i) == (i % 8) + (i \div 8)
Earlier(i, j) ==
    \/ Diagonal(i) < Diagonal(j)
    \/ Diagonal(i) = Diagonal(j) /\ IF Diagonal(i) % 2 = 0 THEN i > j ELSE i < j
ZigzagRight ==
    /\ Range(jzigzag) = 0 .. 63
    /\ \A k \in 1 .. 63 : Earlier(jzigzag[k], jzigzag[k + 1])

(* The factors are cosines of the angles they stand for, by the sum of two *)
(* of them; a block turns with its coefficients, is mirrored with the sign *)
(* of the odd ones, is the mean when nothing else is there, and is never   *)
(* off a shade.                                                            *)
Near(a, b, e) == a - b \in -e .. e
CosinesRight ==
    \A x \in 1 .. 8, u \in 2 .. 7 :
        Near((idct_cos[x][2] * idct_cos[x][u]) \div 2048,
             idct_cos[x][u + 1] + idct_cos[x][u - 1], 3)
IdctRight(dc, k, v) ==
    LET F == [i \in 0 .. 63 |-> IF i = 0 THEN dc ELSE IF i = k THEN v ELSE 0]
        T == [i \in 0 .. 63 |-> F[8 * (i % 8) + (i \div 8)]]
        M == [i \in 0 .. 63 |-> IF i % 2 = 1 THEN - F[i] ELSE F[i]]
        At(G, x, y) == jidct8x8(G, x, y)
        mean == Clamp(((dc + 4) \div 8) + 128)
    IN  \A x \in {0, 1, 3, 4, 6, 7}, y \in {0, 2, 5, 7} :
            /\ At(F, x, y) = At(T, y, x)
            /\ At(F, x, y) = At(M, 7 - x, y)
            /\ k = 0 => Near(At(F, x, y), mean, 1)
            /\ k > 0 /\ dc \in -500 .. 500 =>
                   Near(At(F, x, y) + At([F EXCEPT ![k] = -v], x, y), 2 * mean, 2)

(* The three colours, by the weights of the standard in thousandths.       *)
ColourRight(y, cb, cr) ==
    LET rgb == ToRGB(y, cb, cr)
        Is(v, exact) == Near(v, Clamp(exact \div 1000), 1)
    IN  /\ Is(rgb[1], 1000 * y + 1402 * cr)
        /\ Is(rgb[2], 1000 * y - 344 * cb - 714 * cr)
        /\ Is(rgb[3], 1000 * y + 1772 * cb)

(* Codes: numbered in the order of their lengths, as far apart as shorter  *)
(* ones need.                                                              *)
MsbFirst(v, n) == [i \in 1 .. n |-> (v \div 2^(n - i)) % 2]
CodeOf(h, v) ==
    LET i == CHOOSE j \in 1 .. Len(h.vals) : h.vals[j] = v
        l == h.lens[i]
    IN  MsbFirst(FoldLeft(LAMBDA n, j : n + 2^(l - j), 0, SubSeq(h.lens, 1, i - 1)), l)
Table(lens, vals) ==
    [lens |-> lens, vals |-> vals,
     count |-> [l \in 1 .. 16 |-> Cardinality({i \in 1 .. Len(lens) : lens[i] = l})]]
DcTable == Table(<<2, 2, 2, 2>>, <<0, 2, 1, 8>>)
AcTable == Table(<<2, 2, 3, 3, 5, 5, 5>>, <<0, 1, 240, 17, 2, 225, 8>>)

(* A value: its width, then its bits, less one if it is negative.          *)
Width(v) == Min({n \in 0 .. 15 : v \in 1 - 2^n .. 2^n - 1})
Magnitude(v) == MsbFirst(IF v < 0 THEN v + 2^Width(v) - 1 ELSE v, Width(v))
(* A block of a difference and of one value at place k.                    *)
CoefficientBits(diff, k, v) ==
    CodeOf(DcTable, Width(diff)) \o Magnitude(diff)
    \o (IF v = 0 THEN <<>>
        ELSE FlattenSeq([i \in 1 .. (k - 1) \div 16 |-> CodeOf(AcTable, 240)])
             \o CodeOf(AcTable, 16 * ((k - 1) % 16) + Width(v)) \o Magnitude(v))
    \o (IF v # 0 /\ k = 63 THEN <<>> ELSE CodeOf(AcTable, 0))

(* Bits as bytes, filled up with ones; a zero behind each byte 255.        *)
Stuffed(b) ==
    LET B(i) == IF i > Len(b) THEN 1 ELSE b[i]
        Byte(k) == FoldLeftDomain(LAMBDA n, j : 2 * n + B(8 * k + j), 0, [j \in 1 .. 8 |-> 0])
    IN  FlattenSeq([k \in 1 .. Up(Len(b), 8) |->
            IF Byte(k - 1) = 255 THEN <<255, 0>> ELSE <<Byte(k - 1)>>])

(* A file of these tables and this frame, by its segments.                 *)
Be2(v) == <<v \div 256, v % 256>>
Parts(f, q, interval) ==
    LET n == Len(f.comps)
        Codes2(c, t) == <<c>> \o t.count \o t.vals
        C(i) == LET k == f.comps[i] IN <<k.id, 16 * k.hs + k.vs, k.tq>>
    IN  <<<<219, <<0>> \o q \o <<1>> \o Reverse(q)>>,
          <<192, <<8>> \o Be2(f.h) \o Be2(f.w) \o <<n>>
                 \o FlattenSeq([i \in 1 .. n |-> C(i)])>>,
          <<196, Codes2(0, DcTable) \o Codes2(17, AcTable)>>,
          <<221, Be2(interval)>>,
          <<218, <<n>> \o FlattenSeq([i \in 1 .. n |-> <<i, 1>>]) \o <<0, 63, 0>> >> >>
Written(parts) ==
    <<255, 216>> \o FlattenSeq([i \in 1 .. Len(parts) |->
        <<255, parts[i][1]>> \o Be2(Len(parts[i][2]) + 2) \o parts[i][2]])
File(f, q, interval, data) == Written(Parts(f, q, interval)) \o data

(* A file that lacks its frame, its codes or its scan is refused, and so   *)
(* is one whose frame is no baseline one, one with a segment that is too   *)
(* short for what it says and one that ends before its scan.               *)
RefusesRight(f, lacks) ==
    LET q == [i \in 1 .. 64 |-> 1]
        all == Parts(f, q, 0)
        some == SelectSeq(all, LAMBDA s : s[1] # lacks)
        Short(i) == [all EXCEPT ![i][2] = SubSeq(@, 1, Len(@) - 1)]
        whole == Written(all)
        Cases ==
            CASE lacks \in {192, 196} -> {<<Written(some) \o <<255, 217>>, IMG_ERR_CORRUPT>>}
              [] lacks = 218 -> {<<Written(some) \o <<255, 217>>, IMG_ERR_TRUNCATED>>}
              [] OTHER ->
                   {<<whole \o <<255, 217>>, IMG_OK>>,
                    <<Written(<<<<194, <<>>>>>> \o all), IMG_ERR_UNSUPPORTED>>,
                    <<Tail(whole), IMG_ERR_FORMAT>>,
                    <<File([f EXCEPT !.w = 0], q, 0, <<>>), IMG_ERR_CORRUPT>>,
                    <<File([f EXCEPT !.h = 4097], q, 0, <<>>), IMG_ERR_TOOBIG>>}
                   \union {<<Written(Short(i)), IMG_ERR_CORRUPT>> : i \in {1, 2, 3, 5}}
                   \union {<<SubSeq(whole, 1, 9 * i), IMG_ERR_TRUNCATED>> :
                             i \in 0 .. (Len(whole) - 1) \div 9}
    IN  \A x \in Cases : jpeg_decode(x[1], [t \in 0 .. 3 |-> q]).ret = x[2]

(* A picture with component i sampled as sampling[i], of which each block  *)
(* has a mean from dcs and a value at one of the places; with restarts     *)
(* after `interval` MCUs, `cut` bytes short of its end.                    *)
JpegRight(w, h, sampling, dcs, place, value, interval, cut) ==
    LET n == Len(sampling)
        comps == [c \in 1 .. n |-> [id |-> c, hs |-> sampling[c][1], vs |-> sampling[c][2],
                                   tq |-> IF c = 1 THEN 0 ELSE 1]]
        f == [w |-> w, h |-> h, comps |-> comps,
              hmax |-> Max({k[1] : k \in Range(sampling)}),
              vmax |-> Max({k[2] : k \in Range(sampling)})]
        q == [i \in 1 .. 64 |-> i + 1]
        blocks == AllBlocks(f)
        per == Len(BlocksOf(f, 0))
        Dc(i) == dcs[(i % Len(dcs)) + 1]
        Starts(i) == interval > 0 /\ (i - 1) % (per * interval) = 0
        Before(i) ==
            LET same == {j \in 1 .. i - 1 : blocks[j].c = blocks[i].c
                           /\ \A k \in j + 1 .. i : ~Starts(k)}
            IN  IF same = {} THEN 0 ELSE Dc(Max(same))
        Bits(i) == CoefficientBits(Dc(i) - Before(i), place, IF i % 2 = 0 THEN value ELSE 0)
        segment == IF interval = 0 THEN Len(blocks) ELSE per * interval
        Part(k) == Stuffed(FlattenSeq([i \in 1 .. Min({segment, Len(blocks) - k * segment}) |->
                                         Bits(k * segment + i)]))
        data == FlattenSeq([k \in 1 .. Up(Len(blocks), segment) |->
                    (IF k > 1 THEN <<255, 208 + ((k - 2) % 8)>> ELSE <<>>) \o Part(k - 1)])
                \o <<255, 217>>
        Means(i) ==
            LET t == IF blocks[i].c = 1 THEN q ELSE Reverse(q) IN
            [z \in 0 .. 63 |->
               CASE z = 0 -> Dc(i) * t[1]
                 [] z = jzigzag[place + 1] /\ i % 2 = 0 -> value * t[place + 1]
                 [] OTHER -> 0]
        Is(r, i) == /\ blocks[i].at \in DOMAIN r.planes[blocks[i].c]
                    /\ r.planes[blocks[i].c][blocks[i].at] = Means(i)
        Missing(r, i) == blocks[i].at \notin DOMAIN r.planes[blocks[i].c]
        Exact(c, x, y) ==
            LET fx == f.hmax \div comps[c].hs
                fy == f.vmax \div comps[c].vs
                i == CHOOSE j \in 1 .. Len(blocks) :
                        blocks[j].c = c /\ blocks[j].at = <<x \div (8 * fx), y \div (8 * fy)>>
            IN  jidct8x8(Means(i), (x \div fx) % 8, (y \div fy) % 8)
        Whole(r) ==
            /\ r.ret = IMG_OK
            /\ cut <= 2 => \A i \in 1 .. Len(blocks) : Is(r, i)
            /\ \E i \in 0 .. Len(blocks) :
                   /\ \A j \in 1 .. i : Is(r, j)
                   /\ \A j \in i + 1 .. Len(blocks) : Missing(r, j)
            /\ cut = 0 => \A x \in {0, 7, 8, w - 1} \cap 0 .. w - 1, y \in {6, h - 1} :
                   Shown(r, x, y) = IF n = 1 THEN <<Exact(1, x, y)>>
                                    ELSE ToRGB(Exact(1, x, y), Exact(2, x, y) - 128,
                                               Exact(3, x, y) - 128)
    IN  /\ Whole(jpeg_decode(File(f, q, interval, SubSeq(data, 1, Len(data) - cut)),
                             [t \in 0 .. 3 |-> [i \in 1 .. 64 |-> 1]]))
        /\ Cardinality({<<blocks[i].c, blocks[i].at>> : i \in 1 .. Len(blocks)}) = Len(blocks)
=============================================================================
