------------------------------- MODULE Images -------------------------------
(***************************************************************************)
(* The decoders of kernel/png.c, bmp.c and tga_pcx_qoi.c, and what image.c *)
(* does with pictures.  A PNG is the sequence of its chunks, the data in   *)
(* bits as inflate wants them; the others are the bytes of the file.  A    *)
(* picture is a function from <<x, y>> to the samples of the pixel.  The   *)
(* heap has room for it.                                                   *)
(***************************************************************************)
EXTENDS Integers, Sequences, Inflate

LOCAL INSTANCE SequencesExt
LOCAL INSTANCE FiniteSetsExt
LOCAL INSTANCE FiniteSets
LOCAL INSTANCE TLC

IMG_OK == 0
IMG_ERR_FORMAT == -1
IMG_ERR_UNSUPPORTED == -2
IMG_ERR_CORRUPT == -3
IMG_ERR_MEMORY == -4
IMG_ERR_TRUNCATED == -5
IMG_ERR_TOOBIG == -6
IMG_MAX_DIM == 4096
MAX_RAW == 128 * 1024 * 1024

Area(w, h) == (0 .. w - 1) \X (0 .. h - 1)
Refused(e) == [ret |-> e, px |-> <<>>]
SizeError(w, h) == IF w = 0 \/ h = 0 THEN IMG_ERR_CORRUPT
                   ELSE IF Max({w, h}) > IMG_MAX_DIM THEN IMG_ERR_TOOBIG
                   ELSE IMG_OK

(* Byte i of a file or a row, and numbers of several bytes.  Behind the    *)
(* end, and in tables that were not filled, is Junk; a number nearly as    *)
(* large as a word is as good as 2^30, no file has as many bytes.          *)
Junk == -1
ByteAt(d, i) == IF i < Len(d) THEN d[i + 1] ELSE Junk
le16(d, i) == ByteAt(d, i) + 256 * ByteAt(d, i + 1)
le32(d, i) == IF ByteAt(d, i + 3) >= 64 THEN 2^30 ELSE le16(d, i) + 65536 * le16(d, i + 2)
be32(d, i) == LET B(k) == ByteAt(d, i + k) IN
              IF B(0) >= 64 THEN 2^30 ELSE 2^24 * B(0) + 2^16 * B(1) + 256 * B(2) + B(3)

(* Sample i of the row at `base`, the first in the highest bits.           *)
SampleAt(d, base, i, depth) ==
    LET per == 8 \div depth IN
    (ByteAt(d, base + i \div per) \div 2^(8 - depth * ((i % per) + 1))) % 2^depth
get_sample(row, i, depth) ==
    IF depth = 16 THEN 256 * row[2 * i + 1] + row[2 * i + 2]
    ELSE SampleAt(row, 0, i, depth)
scale_to8(v, depth) ==
    IF depth = 16 THEN v \div 256 ELSE v * (255 \div (2^depth - 1))

-----------------------------------------------------------------------------
(* Rows of a PNG.                                                          *)
paeth(a, b, c) ==
    LET pa == Max({b - c, c - b})
        pb == Max({a - c, c - a})
        pc == Max({a + b - 2 * c, 2 * c - a - b})
    IN  IF pa <= pb /\ pa <= pc THEN a ELSE IF pb <= pc THEN b ELSE c

Predicted(filter, a, b, c) ==
    CASE filter = 0 -> 0 [] filter = 1 -> a [] filter = 2 -> b
      [] filter = 3 -> (a + b) \div 2 [] filter = 4 -> paeth(a, b, c)
png_unfilter(filter, line, prev, bpp) ==
    FoldLeftDomain(LAMBDA out, i :
        LET Left(r) == IF i > bpp THEN r[i - bpp] ELSE 0
        IN  Append(out, (line[i] + Predicted(filter, Left(out), prev[i],
                                             Left(prev))) % 256),
        <<>>, line)

(* Adam7: the first column and row of each pass and its steps.             *)
Adam7 == <<[x0 |-> 0, y0 |-> 0, dx |-> 8, dy |-> 8],
           [x0 |-> 4, y0 |-> 0, dx |-> 8, dy |-> 8],
           [x0 |-> 0, y0 |-> 4, dx |-> 4, dy |-> 8],
           [x0 |-> 2, y0 |-> 0, dx |-> 4, dy |-> 4],
           [x0 |-> 0, y0 |-> 2, dx |-> 2, dy |-> 4],
           [x0 |-> 1, y0 |-> 0, dx |-> 2, dy |-> 2],
           [x0 |-> 0, y0 |-> 1, dx |-> 1, dy |-> 2]>>
Passes(h) == IF h.interlace = 1 THEN Adam7
             ELSE <<[x0 |-> 0, y0 |-> 0, dx |-> 1, dy |-> 1]>>
Wide(h, p) == (h.w + p.dx - 1 - p.x0) \div p.dx
High(h, p) == (h.h + p.dy - 1 - p.y0) \div p.dy
(* The rows in the order of the file.                                      *)
Rows(h) ==
    FlattenSeq([k \in 1 .. Len(Passes(h)) |->
        LET p == Passes(h)[k]
        IN  [j \in 1 .. (IF Wide(h, p) = 0 THEN 0 ELSE High(h, p)) |->
               [p |-> p, y |-> j - 1]]])

hdr_channels == (0 :> 1) @@ (2 :> 3) @@ (3 :> 1) @@ (4 :> 2) @@ (6 :> 4)
bits_per_px(h) == hdr_channels[h.type] * h.depth
filter_bpp(h) == (bits_per_px(h) + 7) \div 8
LineLen(h, p) == (Wide(h, p) * bits_per_px(h) + 7) \div 8

IhdrError(k) ==
    CASE k.short -> IMG_ERR_CORRUPT
      [] k.method # 0 -> IMG_ERR_UNSUPPORTED
      [] k.type \notin DOMAIN hdr_channels -> IMG_ERR_FORMAT
      [] k.interlace > 1 -> IMG_ERR_UNSUPPORTED
      [] SizeError(k.w, k.h) # IMG_OK -> SizeError(k.w, k.h)
      [] k.depth \notin (IF k.type = 0 THEN {1, 2, 4, 8, 16}
                         ELSE IF k.type = 3 THEN {1, 2, 4, 8} ELSE {8, 16})
           -> IMG_ERR_FORMAT
      [] OTHER -> IMG_OK

(* One chunk.  "huge" stands for one of 2^31 bytes or more, "cut" for      *)
(* another that does not end in the file.                                  *)
Over(new, old) == new \o SubSeq(old, Len(new) + 1, Len(old))
Word(d, i) == 256 * d[2 * i - 1] + d[2 * i]
Chunk(st, k) ==
    LET Fails(e) == [st EXCEPT !.ret = e] IN
    CASE st.ret # IMG_OK \/ st.end -> st
      [] k.type = "huge" -> Fails(IMG_ERR_CORRUPT)
      [] k.type = "cut" -> Fails(IMG_ERR_TRUNCATED)
      [] ~k.crc -> Fails(IMG_ERR_CORRUPT)
      [] k.type = "IHDR" ->
           IF IhdrError(k.data) # IMG_OK THEN Fails(IhdrError(k.data))
           ELSE [st EXCEPT !.h = k.data, !.got = TRUE]
      [] k.type = "PLTE" ->
           IF Len(k.data) % 3 # 0 \/ Len(k.data) > 768 THEN Fails(IMG_ERR_CORRUPT)
           ELSE [st EXCEPT !.palette = Over(k.data, @), !.plte = TRUE]
      [] k.type = "tRNS" /\ st.h.type = 3 ->
           IF Len(k.data) > 256 THEN Fails(IMG_ERR_CORRUPT)
           ELSE [st EXCEPT !.alpha = Over(k.data, Copies(255, 256))]
      [] k.type = "tRNS" /\ st.h.type = 0 /\ Len(k.data) >= 2 ->
           [st EXCEPT !.key = Copies(Word(k.data, 1), 2) \o <<0>>]
      [] k.type = "tRNS" /\ st.h.type = 2 /\ Len(k.data) >= 6 ->
           [st EXCEPT !.key = [i \in 1 .. 3 |-> Word(k.data, i)]]
      [] k.type = "IDAT" -> [st EXCEPT !.idat = @ \o k.data]
      [] k.type = "IEND" -> [st EXCEPT !.end = TRUE]
      [] OTHER -> st
Walk(chunks) ==
    FoldLeft(Chunk, [ret |-> IMG_OK, end |-> FALSE, got |-> FALSE,
                     h |-> [w |-> 0, h |-> 0, depth |-> 8, type |-> 6,
                            interlace |-> 0],
                     palette |-> Copies(Junk, 768), plte |-> FALSE, alpha |-> <<>>,
                     key |-> <<>>, idat |-> <<>>], chunks)

(* The samples of pixel i of a row.                                        *)
Pixel(st, row, i) ==
    LET h == st.h
        Raw(c) == get_sample(row, hdr_channels[h.type] * i + c, h.depth)
        S(c) == scale_to8(Raw(c), h.depth)
        grey == Copies(S(0), 3)
        Key(c) == IF h.depth = 16 THEN st.key[c + 1] ELSE st.key[c + 1] \div 256
    IN  CASE h.type = 3 ->
               SubSeq(st.palette, 3 * Raw(0) + 1, 3 * Raw(0) + 3)
               \o (IF st.alpha = <<>> THEN <<>> ELSE <<st.alpha[Raw(0) + 1]>>)
          [] h.type = 0 ->
               IF st.key # <<>> /\ st.key[1] = (IF h.depth = 16 THEN Raw(0) ELSE S(0))
               THEN <<0, 0, 0>> ELSE grey
          [] h.type = 4 -> Append(grey, S(1))
          [] h.type = 6 -> <<S(0), S(1), S(2), S(3)>>
          [] OTHER ->
               IF st.key # <<>> /\ \A c \in 0 .. 2 : S(c) = Key(c)
               THEN <<0, 0, 0>> ELSE <<S(0), S(1), S(2)>>

(* Row after row out of the inflated bytes.  The row above the first one   *)
(* of a pass is zero.                                                      *)
Row(st, raw, got, r) ==
    LET len == LineLen(st.h, r.p)
        prev == IF r.y = 0 THEN Copies(0, len) ELSE got.row
        line == png_unfilter(raw[got.rp + 1], SubSeq(raw, got.rp + 2, got.rp + 1 + len),
                             prev, filter_bpp(st.h))
        At(i) == <<r.p.x0 + i * r.p.dx, r.p.y0 + r.y * r.p.dy>>
        new == [q \in {At(i) : i \in 0 .. Wide(st.h, r.p) - 1} |->
                  Pixel(st, line, (q[1] - r.p.x0) \div r.p.dx)]
    IN  CASE got.ret # IMG_OK -> got
          [] got.rp + 1 + len > Len(raw) -> [got EXCEPT !.ret = IMG_ERR_TRUNCATED]
          [] raw[got.rp + 1] > 4 -> [got EXCEPT !.ret = IMG_ERR_CORRUPT]
          [] OTHER -> [got EXCEPT !.rp = @ + 1 + len, !.row = line,
                                  !.px = new @@ @]

(* The room for the inflated bytes: one row of all passes' widths for each *)
(* row of all passes.                                                      *)
max_raw(h) ==
    LET Sum(f(_, _)) == FoldLeft(LAMBDA n, p : n + f(h, p), 0, Passes(h))
    IN  Sum(High) * ((Sum(Wide) * bits_per_px(h) + 7) \div 8 + 1) + 64

png_decode(chunks) ==
    LET Blank(h, alpha) ==
            [q \in Area(h.w, h.h) |->
               Copies(255, IF h.type \in {4, 6} \/ (h.type = 3 /\ alpha # <<>>)
                           THEN 4 ELSE 3)]
        Shown(all) == IF all.ret # IMG_OK THEN Refused(all.ret)
                      ELSE [ret |-> IMG_OK, px |-> all.px]
        Inflated(st, z) ==
            IF z.ret < 0 THEN Refused(IF z.ret = ERR_OUTPUT THEN IMG_ERR_MEMORY
                                      ELSE IMG_ERR_CORRUPT)
            ELSE Shown(FoldLeft(LAMBDA got, r : Row(st, z.out, got, r),
                                [ret |-> IMG_OK, rp |-> 0, row |-> <<>>,
                                 px |-> Blank(st.h, st.alpha)], Rows(st.h)))
        Read(st) ==
            CASE st.ret # IMG_OK -> Refused(st.ret)
              [] ~st.got \/ st.idat = <<>> -> Refused(IMG_ERR_TRUNCATED)
              [] st.h.type = 3 /\ ~st.plte -> Refused(IMG_ERR_CORRUPT)
              [] max_raw(st.h) > MAX_RAW -> Refused(IMG_ERR_TOOBIG)
              [] OTHER -> Inflated(st, zlib_inflate(st.idat, max_raw(st.h)))
    IN  Read(Walk(chunks))

-----------------------------------------------------------------------------
(* The header of a BMP: the old one, of twelve bytes, or a newer one.      *)
Five(v, lo) == (((v \div 2^lo) % 32) * 255) \div 31
bmp_rd32(d, i) == LET hi == le16(d, i + 2)
                  IN  le16(d, i) + 65536 * (IF hi >= 32768 THEN hi - 65536 ELSE hi)
BmpHeader(d) ==
    LET size == le32(d, 14)
        core == size = 12
        sh == bmp_rd32(d, 22)
        bpp == le16(d, IF core THEN 24 ELSE 28)
        sent == IF core THEN 0 ELSE le32(d, 30)
        used == IF core THEN 0 ELSE le32(d, 46)
        entries == IF bpp \notin 0 .. 8 THEN 0 ELSE IF used > 0 THEN used ELSE 2^bpp
    IN  [d |-> d, size |-> size, bpp |-> bpp, sent |-> sent, entries |-> entries,
         w |-> IF core THEN le16(d, 18) ELSE le32(d, 18),
         h |-> IF core THEN le16(d, 20) ELSE Max({sh, - sh}),
         top_down |-> ~core /\ sh < 0,
         compression |-> IF size \in {64, 108, 124} THEN 3 ELSE sent,
         entry |-> IF core THEN 3 ELSE 4,
         off |-> IF le32(d, 10) = 0 THEN 14 + size + 4 * entries ELSE le32(d, 10)]
BmpError(f) ==
    CASE Len(f.d) < 14 -> IMG_ERR_TRUNCATED
      [] ~IsPrefix(<<66, 77>>, f.d) -> IMG_ERR_FORMAT
      [] f.size < 12 -> IMG_ERR_CORRUPT
      [] f.size = 12 /\ le16(f.d, 22) # 1 -> IMG_ERR_CORRUPT
      [] f.size > 12 /\ (f.size < 40 \/ Len(f.d) < 14 + f.size) -> IMG_ERR_TRUNCATED
      [] f.size >= 52 /\ f.sent \in {3, 6} -> IMG_ERR_UNSUPPORTED
      [] SizeError(f.w, f.h) # IMG_OK -> SizeError(f.w, f.h)
      [] f.entries > 256 -> IMG_ERR_CORRUPT
      [] f.bpp <= 8 /\ 14 + f.size + f.entry * f.entries > Len(f.d) -> IMG_ERR_TRUNCATED
      [] f.off >= Len(f.d) -> IMG_ERR_TRUNCATED
      [] f.compression \in {1, 2} /\ f.bpp \notin {4, 8} -> IMG_ERR_UNSUPPORTED
      [] f.compression \notin 0 .. 2 -> IMG_ERR_UNSUPPORTED
      [] OTHER -> IMG_OK

(* The colour of palette entry i, stored blue first.                       *)
Entry(f, i) ==
    LET base == 14 + f.size + i * f.entry
    IN  [c \in 1 .. 3 |-> IF i < f.entries THEN f.d[base + 4 - c] ELSE Junk]
(* One pixel of an uncompressed row.                                       *)
BmpPixel(f, base, x) ==
    LET S(k) == ByteAt(f.d, base + x * (f.bpp \div 8) + k)
        v == S(0) + 256 * S(1)
    IN  CASE f.bpp \in {1, 4, 8} -> Entry(f, SampleAt(f.d, base, x, f.bpp))
          [] f.bpp = 16 -> <<Five(v, 10), Five(v, 5), Five(v, 0)>>
          [] OTHER -> <<S(2), S(1), S(0)>>
BmpRow(f, q) == IF f.top_down THEN q[2] ELSE f.h - 1 - q[2]
row_size(f) == ((f.w * f.bpp + 31) \div 32) * 4

(* Runs: a count and a value; a zero and a length or an escape.  A byte is *)
(* left out behind every other end of line.                                *)
RECURSIVE Rle(_, _)
Rle(f, st) ==
    LET d == f.d
        count == d[st.p + 1]
        val == d[st.p + 2]
        p == st.p + 2
        Half(b, k) == IF k % 2 = 1 THEN b % 16 ELSE b \div 16
        bytes == IF f.bpp = 8 THEN val ELSE (val + 1) \div 2
        Index(k) == IF count > 0 THEN IF f.bpp = 8 THEN val ELSE Half(val, k)
                    ELSE IF f.bpp = 8 THEN d[p + k + 1]
                    ELSE Half(d[p + (k \div 2) + 1], k)
        Put(n) == [q \in {<<st.x + k, IF f.top_down THEN st.y ELSE f.h - 1 - st.y>> :
                            k \in 0 .. n - 1} \cap Area(f.w, f.h) |->
                     Entry(f, Index(q[1] - st.x))] @@ st.px
        pad == IF st.pad = 0 /\ p < Len(d) THEN 1 ELSE 0
        r == CASE count > 0 -> [st EXCEPT !.p = p, !.x = @ + count, !.px = Put(count)]
               [] val = 0 -> [st EXCEPT !.p = p + pad, !.x = 0, !.y = @ + 1,
                                        !.pad = 1 - @]
               [] val = 2 -> [st EXCEPT !.p = p + 2, !.x = @ + d[p + 1],
                                        !.y = @ + d[p + 2]]
               [] OTHER -> [st EXCEPT !.p = ((p + bytes + 1) \div 2) * 2,
                                      !.x = IF @ >= f.w THEN @ ELSE Min({@ + val, f.w}),
                                      !.px = Put(val)]
    IN  CASE p > Len(d) \/ (count = 0 /\ val = 1) -> st.px
          [] count = 0 /\ val = 2 /\ p + 1 >= Len(d) -> st.px
          [] count = 0 /\ val > 2 /\ p + bytes > Len(d) -> st.px
          [] r.y >= f.h -> r.px
          [] OTHER -> Rle(f, r)

bmp_decode(d) ==
    LET f == BmpHeader(d)
        black == [q \in Area(f.w, f.h) |-> <<0, 0, 0>>]
        Base(q) == f.off + BmpRow(f, q) * row_size(f)
        px == IF f.compression # 0
              THEN Rle(f, [p |-> f.off, x |-> 0, y |-> 0, pad |-> 0, px |-> black])
              ELSE [q \in Area(f.w, f.h) |->
                      IF Base(q) >= Len(d) THEN black[q] ELSE BmpPixel(f, Base(q), q[1])]
    IN  IF BmpError(f) # IMG_OK THEN Refused(BmpError(f))
        ELSE [ret |-> IMG_OK, px |-> px]

-----------------------------------------------------------------------------
(* A TGA, of at most 32 bits a pixel.  Types 2, 10 and 11 are taken for    *)
(* run-length coded.                                                       *)
TgaHeader(d) ==
    LET mapped == d[2] = 1
        entry == IF d[8] = 6 THEN 4 ELSE 3
    IN  [d |-> d, mapped |-> mapped, entry |-> entry, entries |-> le16(d, 5),
         type |-> d[3], w |-> le16(d, 12), h |-> le16(d, 14), bpp |-> d[17],
         top_down |-> (d[18] \div 32) % 2 = 1, right_left |-> (d[18] \div 16) % 2 = 1,
         pal |-> 18 + d[1],
         off |-> 18 + d[1] + (IF mapped THEN le16(d, 5) * entry ELSE 0)]
TgaEntry(f, i) ==
    LET base == f.pal + i * f.entry
        C(k) == f.d[base + k]
    IN  IF i >= f.entries THEN Copies(Junk, 4)
        ELSE <<C(3), C(2), C(1), IF f.entry = 4 THEN C(4) ELSE 255>>
TgaPixel(f, p) ==
    LET D(k) == ByteAt(f.d, p + k)
        v == D(0) + 256 * D(1)
    IN  CASE f.mapped -> TgaEntry(f, D(0))
          [] ~f.mapped /\ f.bpp = 24 -> <<D(2), D(1), D(0), 255>>
          [] ~f.mapped /\ f.bpp = 32 -> <<D(2), D(1), D(0), D(3)>>
          [] OTHER -> <<Five(v, 10), Five(v, 5), Five(v, 0), 255>>
(* The colour of a run is not looked up, and is not turned upside down.    *)
RunPixel(f, p) ==
    LET D(k) == IF k < f.bpp \div 8 THEN f.d[p + k + 1] ELSE Junk
    IN  <<D(2), D(1), D(0), IF f.bpp = 32 THEN D(3) ELSE 255>>
TgaAt(f, k, run) ==
    LET x == k % f.w
        y == k \div f.w
    IN  <<IF f.right_left THEN f.w - 1 - x ELSE x,
          IF f.top_down \/ run THEN y ELSE f.h - 1 - y>>

RECURSIVE Packets(_, _, _, _)
Packets(f, p, done, px) ==
    LET rle == f.type \in {2, 10, 11}
        size == f.bpp \div 8
        run == rle /\ f.d[p + 1] >= 128
        start == IF rle THEN p + 1 ELSE p
        asked == IF rle THEN (f.d[p + 1] % 128) + 1 ELSE 1
        there == IF run THEN asked ELSE Min({asked, (Len(f.d) - start) \div size})
        n == Min({there, (f.w * f.h) - done})
        new == [q \in {TgaAt(f, done + k, run) : k \in 0 .. n - 1} |->
                  LET k == CHOOSE i \in 0 .. n - 1 : TgaAt(f, done + i, run) = q
                  IN  IF run THEN RunPixel(f, start) ELSE TgaPixel(f, start + k * size)]
    IN  CASE done = f.w * f.h \/ (rle /\ p >= Len(f.d)) -> px
          [] run /\ start + size > Len(f.d) -> px
          [] ~run /\ n < Min({asked, (f.w * f.h) - done}) -> new @@ px
          [] OTHER -> Packets(f, start + (IF run THEN size ELSE n * size),
                              done + n, new @@ px)
tga_decode(d) ==
    LET f == TgaHeader(d)
    IN  CASE Len(d) < 18 -> Refused(IMG_ERR_TRUNCATED)
          [] SizeError(f.w, f.h) # IMG_OK -> Refused(SizeError(f.w, f.h))
          [] f.type \notin {1, 2, 3, 9, 10, 11} -> Refused(IMG_ERR_UNSUPPORTED)
          [] f.mapped /\ f.off > Len(d) -> Refused(IMG_ERR_TRUNCATED)
          [] f.bpp < 8 -> Refused(IMG_ERR_UNSUPPORTED)
          [] OTHER -> [ret |-> IMG_OK,
                       px |-> Packets(f, f.off, 0,
                                      [q \in Area(f.w, f.h) |-> Copies(255, 4)])]

(* A PCX: every byte with one of the two high bits set is a count.         *)
RECURSIVE Expand(_, _, _, _)
Expand(d, p, want, raw) ==
    LET b == d[p + 1] IN
    CASE Len(raw) >= want -> [ret |-> IMG_OK, raw |-> SubSeq(raw, 1, want)]
      [] p >= Len(d) -> Refused(IMG_ERR_TRUNCATED)
      [] b < 64 -> Expand(d, p + 1, want, Append(raw, b))
      [] p + 1 >= Len(d) -> Refused(IMG_ERR_TRUNCATED)
      [] OTHER -> Expand(d, p + 2, want, raw \o Copies(d[p + 2], b % 64))
(* Three planes are taken for interleaved samples, and a row of one plane  *)
(* for one bit a pixel; the colours are grey without a palette in the last *)
(* 769 bytes.                                                              *)
pcx_decode(d) ==
    LET Size(i) == le16(d, i + 4) - le16(d, i) + 1
        w == IF Size(4) < 0 THEN 2^30 ELSE Size(4)
        h == IF Size(6) < 0 THEN 2^30 ELSE Size(6)
        bpp == d[4]
        true24 == bpp = 8 /\ d[66] = 3
        stride == IF true24 THEN ((3 * w + 1) \div 2) * 2 ELSE (w + 7) \div 8
        r == Expand(d, 128, stride * h, <<>>)
        last == Len(d) - 768
        Colour(i) == IF last > 0 /\ d[last] = 12
                     THEN [c \in 1 .. 3 |-> d[last + 3 * i + c]] ELSE Copies(i, 3)
    IN  CASE Len(d) < 128 -> Refused(IMG_ERR_TRUNCATED)
          [] d[1] # 10 -> Refused(IMG_ERR_FORMAT)
          [] d[3] # 1 -> Refused(IMG_ERR_UNSUPPORTED)
          [] SizeError(w, h) # IMG_OK -> Refused(SizeError(w, h))
          [] ~true24 /\ (bpp \notin {1, 2, 4, 8} \/ d[66] # 1)
               -> Refused(IMG_ERR_UNSUPPORTED)
          [] (stride + 1) * h > Len(d) -> Refused(IMG_ERR_TRUNCATED)
          [] r.ret # IMG_OK -> Refused(r.ret)
          [] OTHER -> [ret |-> IMG_OK, px |-> [q \in Area(w, h) |->
                LET base == q[2] * stride IN
                IF true24 THEN [c \in 1 .. 3 |-> r.raw[base + 3 * q[1] + c]]
                ELSE Colour(SampleAt(r.raw, base, q[1], bpp))]]

(* A QOI: each byte changes the colour, recalls one or repeats it.         *)
Hash(c) == (c[1] * 3 + c[2] * 5 + c[3] * 7 + c[4] * 11) % 64
Moved(c, r, g, b) == <<(c[1] + r) % 256, (c[2] + g) % 256, (c[3] + b) % 256, c[4]>>
RECURSIVE Qoi(_, _, _)
Qoi(d, total, st) ==
    LET b1 == d[st.p + 1]
        long == CASE b1 = 254 -> 3 [] b1 = 255 -> 4 [] b1 \in 128 .. 191 -> 1
                  [] OTHER -> 0
        b2 == d[st.p + 2]
        vg == (b1 % 64) - 32
        cur == CASE b1 = 254 -> SubSeq(d, st.p + 2, st.p + 4) \o <<st.cur[4]>>
                 [] b1 = 255 -> SubSeq(d, st.p + 2, st.p + 5)
                 [] b1 < 64 -> st.index[b1]
                 [] b1 \in 64 .. 127 -> Moved(st.cur, ((b1 \div 16) % 4) - 2,
                                              ((b1 \div 4) % 4) - 2, (b1 % 4) - 2)
                 [] b1 \in 128 .. 191 -> Moved(st.cur, vg - 8 + (b2 \div 16), vg,
                                               vg - 8 + (b2 % 16))
                 [] OTHER -> st.cur
        n == IF b1 \in 192 .. 253 THEN (b1 % 64) + 1 ELSE 1
    IN  CASE Len(st.px) >= total -> [ret |-> IMG_OK, px |-> SubSeq(st.px, 1, total)]
          [] st.p >= Len(d) -> Refused(IMG_ERR_TRUNCATED)
          [] st.p + 1 + long > Len(d) -> Refused(IMG_ERR_TRUNCATED)
          [] OTHER -> Qoi(d, total, [p |-> st.p + 1 + long, cur |-> cur,
                                     index |-> [st.index EXCEPT ![Hash(cur)] = cur],
                                     px |-> st.px \o Copies(cur, n)])
qoi_decode(d) ==
    LET w == be32(d, 4)
        h == be32(d, 8)
        r == Qoi(d, w * h, [p |-> 14, cur |-> <<0, 0, 0, 255>>, px |-> <<>>,
                            index |-> [i \in 0 .. 63 |-> <<0, 0, 0, 0>>]])
    IN  CASE Len(d) < 14 -> Refused(IMG_ERR_TRUNCATED)
          [] ~IsPrefix(<<113, 111, 105, 102>>, d) -> Refused(IMG_ERR_FORMAT)
          [] SizeError(w, h) # IMG_OK -> Refused(SizeError(w, h))
          [] d[13] \notin {3, 4} -> Refused(IMG_ERR_FORMAT)
          [] r.ret # IMG_OK -> r
          [] OTHER -> [ret |-> IMG_OK,
                       px |-> [q \in Area(w, h) |-> r.px[q[2] * w + q[1] + 1]]]

-----------------------------------------------------------------------------
(* Which kind of file these bytes are, by the first of them; a TGA by its  *)
(* last ones or by a header that looks like one.                           *)
Footer == <<84, 82, 85, 69, 86, 73, 83, 73, 79, 78, 45, 88, 70, 73, 76, 69, 46, 0>>
image_probe(d) ==
    LET Begins(m) == IsPrefix(m, d)
        tga == /\ Len(d) >= 18 + d[1]
               /\ d[3] \in {1, 2, 3, 9, 10, 11} /\ d[2] <= 1
               /\ le16(d, 12) > 0 /\ le16(d, 14) > 0
    IN  CASE Begins(<<137, 80, 78, 71, 13, 10, 26, 10>>) -> "PNG"
          [] Begins(<<255, 216, 255>>) -> "JPEG"
          [] Begins(<<66, 77>>) -> "BMP"
          [] Begins(<<113, 111, 105, 102>>) -> "QOI"
          [] Len(d) >= 4 /\ \E v \in {0, 2, 3, 4, 5} : Begins(<<10, v>>) -> "PCX"
          [] Len(d) >= 26 /\ SubSeq(d, Len(d) - 17, Len(d)) = Footer -> "TGA"
          [] Len(d) >= 18 /\ tga -> "TGA"
          [] Begins(<<0, 0, 1, 0>>) -> "ICO"
          [] OTHER -> "unknown"

(* What the file holds.  `others` is what png_decode and jpeg_decode make  *)
(* of it, which take it as chunks and segments.                            *)
image_decode(d, others) ==
    LET kind == image_probe(d)
    IN  CASE kind \in {"PNG", "JPEG"} -> others[kind]
          [] kind = "BMP" -> bmp_decode(d)
          [] kind = "TGA" -> tga_decode(d)
          [] kind = "PCX" -> pcx_decode(d)
          [] kind = "QOI" -> qoi_decode(d)
          [] OTHER -> Refused(IMG_ERR_FORMAT)

(* The words of the screen: a pixel over the dark backdrop.                *)
Backdrop == <<26, 30, 36>>
image_to_xrgb32(s) ==
    CASE Len(s) = 3 -> s
      [] Len(s) = 4 -> [i \in 1 .. 3 |->
                          (s[i] * s[4] + Backdrop[i] * (255 - s[4])) \div 255]
      [] OTHER -> Copies(s[1], 3)

(* A smaller picture takes the mean of a box of pixels, a larger one the   *)
(* nearest pixel.                                                          *)
Box(i, n, from) ==
    LET lo == (i * from) \div n
        hi == ((i + 1) * from) \div n
    IN  lo .. Min({(IF hi <= lo THEN lo + 1 ELSE hi), from}) - 1
Mean(px, qs, c) ==
    FoldSet(LAMBDA q, n : n + px[q][c], 0, qs) \div Max({1, Cardinality(qs)})
image_scale(px, w, h, nw, nh) ==
    LET new == [q \in Area(nw, nh) |->
                  IF nw < w \/ nh < h
                  THEN [c \in DOMAIN px[<<0, 0>>] |->
                          Mean(px, Box(q[1], nw, w) \X Box(q[2], nh, h), c)]
                  ELSE px[<<(q[1] * w) \div nw, (q[2] * h) \div nh>>]]
    IN  CASE nw <= 0 \/ nh <= 0 -> Refused(IMG_ERR_FORMAT)
          [] nw > 0 /\ nh > (IMG_MAX_DIM * IMG_MAX_DIM) \div nw -> Refused(IMG_ERR_TOOBIG)
          [] OTHER -> [ret |-> IMG_OK, px |-> new]

-----------------------------------------------------------------------------
(* What the decoders should give.  A picture of samples that repeat the    *)
(* sequence s, the same pictures in each format, written as the formats    *)
(* say, and the colour each pixel should have.                             *)
Sample(s, x, y, c) == s[((x + 2 * y + 3 * c) % Len(s)) + 1]

(* Samples of `depth` bits one behind the other, filled up to a byte.      *)
Packed(samples, depth) ==
    LET all == FlattenSeq([i \in 1 .. Len(samples) |-> Reverse(Low(samples[i], depth))])
        size == (Len(all) + 7) \div 8
        B(i) == IF i > Len(all) THEN 0 ELSE all[i]
    IN  [k \in 1 .. size |->
           FoldLeftDomain(LAMBDA n, j : 2 * n + B(8 * (k - 1) + j), 0, Copies(0, 8))]

(* Of the pixels to the left and above, the nearest to where they point.   *)
Nearest(a, b, c) ==
    LET Off(v) == Max({a + b - c - v, v - (a + b - c)})
    IN  SelectSeq(<<a, b, c>>, LAMBDA v : Off(v) = Min({Off(a), Off(b), Off(c)}))[1]

(* The filters of the rows go round; each leaves what the prediction from  *)
(* the unfiltered bytes lacks.                                             *)
PngRaw(h, s, first) ==
    LET rows == Rows(h)
        Plain(r) == Packed(FlattenSeq([i \in 1 .. Wide(h, r.p) |->
                       [c \in 1 .. hdr_channels[h.type] |->
                          Sample(s, r.p.x0 + (i - 1) * r.p.dx, r.p.y0 + r.y * r.p.dy, c)]]),
                       h.depth)
        Filtered(f, line, prev) ==
            [i \in 1 .. Len(line) |->
               LET Left(r) == IF i > filter_bpp(h) THEN r[i - filter_bpp(h)] ELSE 0 IN
               (line[i] - (IF f = 4 THEN Nearest(Left(line), prev[i], Left(prev))
                           ELSE Predicted(f, Left(line), prev[i], Left(prev)))) % 256]
    IN  FlattenSeq([k \in 1 .. Len(rows) |->
            LET f == (first + k) % 5
                line == Plain(rows[k])
                prev == IF rows[k].y = 0 THEN Copies(0, Len(line)) ELSE Plain(rows[k - 1])
            IN  <<f>> \o Filtered(f, line, prev)])

(* The stream in two chunks; `bad` says what is wrong with the file.       *)
Png(h, head, s, first, trns, bad) ==
    LET K(t, d) == [type |-> t, crc |-> bad # t, data |-> d]
        at == 40
        InTwo(z) ==
            <<K("IDAT", SubSeq(z, 1, at)), K("tEXt", <<1>>),
              K(IF bad \in {"cut", "huge"} THEN bad ELSE "IDAT",
                SubSeq(z, at + 1, IF bad = "short" THEN Len(z) - 8 ELSE Len(z)))>>
    IN  <<K("IHDR", head), K("PLTE", [i \in 1 .. 9 |-> 20 * i])>>
        \o (IF trns = <<>> THEN <<>> ELSE <<K("tRNS", trns)>>)
        \o (IF bad = "none" THEN <<>>
            ELSE InTwo(Zlib(<<1, 0, 0>> \o StoredBits(PngRaw(h, s, first)))))
        \o <<K("IEND", <<>>)>>

(* Each pixel is the sample at its place, widened to eight bits and with   *)
(* the palette looked up, whatever filters and passes it went through.     *)
PngMeans(h, s, trns, x, y) ==
    LET S(c) == Sample(s, x, y, c)
        V(c) == IF h.depth = 16 THEN S(c) \div 256 ELSE (S(c) * 255) \div (2^h.depth - 1)
        i == S(1)
    IN  CASE h.type = 3 ->
               <<60 * i + 20, 60 * i + 40, 60 * i + 60>>
               \o (IF trns = <<>> THEN <<>> ELSE <<IF i = 0 THEN trns[1] ELSE 255>>)
          [] h.type = 0 -> Copies(V(1), 3)
          [] h.type = 4 -> <<V(1), V(1), V(1), V(2)>>
          [] OTHER -> [c \in 1 .. hdr_channels[h.type] |-> V(c)]
(* Of pixels of the grey level that tRNS names nothing is asked: png.c:11  *)
(* has them transparent, and the code, with no alpha to put, blackens them.*)
PngRight(h, head, s, first, trns, bad) ==
    LET Keyed(q) == /\ h.type = 0 /\ trns # <<>>
                    /\ Sample(s, q[1], q[2], 1) = trns[1] * 256 + trns[2]
        Is(r) ==
          IF bad # "" \/ head # h THEN r.ret < 0 /\ r.px = <<>>
          ELSE /\ r.ret = IMG_OK /\ DOMAIN r.px = Area(h.w, h.h)
               /\ \A q \in Area(h.w, h.h) :
                    ~Keyed(q) => r.px[q] = PngMeans(h, s, trns, q[1], q[2])
    IN  Is(png_decode(Png(h, head, s, first, trns, bad)))

(* The passes of an interlaced picture have every pixel once, and their    *)
(* rows fit into the room for them.                                        *)
PassesRight(w, hh, depth) ==
    LET h == [w |-> w, h |-> hh, depth |-> depth, type |-> 0, interlace |-> 1]
        At(r) == {<<r.p.x0 + i * r.p.dx, r.p.y0 + r.y * r.p.dy>> :
                    i \in 0 .. Wide(h, r.p) - 1}
        places == [k \in 1 .. Len(Rows(h)) |-> At(Rows(h)[k])]
        Total(f(_)) == FoldLeft(LAMBDA n, r : n + f(r), 0, Rows(h))
    IN  /\ UNION Range(places) = Area(w, hh)
        /\ Total(LAMBDA r : Wide(h, r.p)) = w * hh
        /\ Total(LAMBDA r : 1 + LineLen(h, r.p)) <= max_raw(h)

(* Files: numbers of two and four bytes, the lowest first, and headers.    *)
Le2(v) == <<v % 256, (v \div 256) % 256>>
Le4(v) == Le2(v % 65536) \o Le2((v \div 65536) % 65536)
Palette == [i \in 1 .. 4 |-> <<10 * i, 20 * i, 30 * i>>]
Bmp(w, h, bpp, top, compression, data) ==
    <<66, 77>> \o Copies(0, 8) \o Le4(70) \o Le4(40) \o Le4(w)
    \o Le4(IF top THEN - h ELSE h) \o Le2(1) \o Le2(bpp) \o Le4(compression)
    \o Copies(0, 12) \o Le4(4) \o Le4(0)
    \o FlattenSeq([i \in 1 .. 4 |-> Append(Palette[i], 0)]) \o data
Tga(w, h, bpp, type, mapped, desc, data) ==
    <<0, IF mapped THEN 1 ELSE 0, type, 0, 0>> \o Le2(4) \o <<24>> \o Copies(0, 4)
    \o Le2(w) \o Le2(h) \o <<bpp, desc>>
    \o (IF mapped THEN FlattenSeq(Palette) ELSE <<>>) \o data
Pcx(w, h, data) ==
    <<10, 5, 1, 1>> \o Copies(0, 4) \o Le2(w - 1) \o Le2(h - 1) \o Copies(0, 53) \o <<1>>
    \o Copies(0, 62) \o data \o <<12>> \o FlattenSeq(Palette) \o Copies(0, 756)
QoiFile(w, h, data) ==
    <<113, 111, 105, 102>> \o Reverse(Le4(w)) \o Reverse(Le4(h)) \o <<4, 0>> \o data

(* A file whose header is cut, or whose width is zero or too large, is     *)
(* refused, and so is one of a kind that has no decoder (image_decode).    *)
RefusedRight(kind, place) ==
    LET d == CASE kind = "BMP" -> Bmp(2, 1, 24, FALSE, 0, Copies(9, 8))
               [] kind = "TGA" -> Tga(2, 1, 24, 10, FALSE, 0, Copies(9, 8))
               [] kind = "PCX" -> Pcx(2, 1, <<9>>)
               [] kind = "QOI" -> QoiFile(2, 1, <<193>>)
        Sized(hi) == [d EXCEPT ![place] = hi,
                               ![IF kind = "QOI" THEN place + 1 ELSE place - 1] = 0]
        header == CASE kind = "BMP" -> 69 [] kind = "TGA" -> 17
                    [] kind = "PCX" -> 127 [] kind = "QOI" -> 13
        Cases == {<<d, {IMG_OK}>>, <<Sized(64), {IMG_ERR_TOOBIG}>>,
                  <<<<0, 0, 1, 0>>, {IMG_ERR_FORMAT}>>}
                 \union {<<SubSeq(d, 1, n), -6 .. -1>> : n \in 0 .. header}
                 \union (IF kind \in {"BMP", "QOI"}
                         THEN {<<Sized(0), {IMG_ERR_CORRUPT}>>} ELSE {})
        Is(r, rets) == r.ret \in rets /\ (r.ret < 0 => r.px = <<>>)
    IN  \A x \in Cases : Is(image_decode(x[1], <<>>), x[2])

(* A BMP: rows from below or from above, each filled up to four bytes.     *)
BmpRight(w, h, bpp, s, top) ==
    LET RGB(x, y) == [c \in 1 .. 3 |-> Sample(s, x, y, c) % (IF bpp = 16 THEN 32 ELSE 256)]
        One(x, y) ==
            LET k == RGB(x, y)
                v == k[1] * 1024 + k[2] * 32 + k[3]
            IN  CASE bpp <= 8 -> <<k[1]>>
                  [] bpp = 16 -> Le2(v)
                  [] OTHER -> Reverse(k) \o Copies(7, bpp \div 8 - 3)
        Line(y) == LET b == Packed(FlattenSeq([x \in 1 .. w |-> One(x - 1, y)]),
                                   IF bpp <= 8 THEN bpp ELSE 8)
                   IN  b \o Copies(0, (4 - (Len(b) % 4)) % 4)
        data == FlattenSeq([j \in 1 .. h |-> Line(IF top THEN j - 1 ELSE h - j)])
        Means(k) == CASE bpp <= 8 -> Reverse(Palette[k[1] + 1])
                      [] bpp = 16 -> [c \in 1 .. 3 |-> (k[c] * 255) \div 31]
                      [] OTHER -> k
    IN  bmp_decode(Bmp(w, h, bpp, top, 0, data)) =
            [ret |-> IMG_OK, px |-> [q \in Area(w, h) |-> Means(RGB(q[1], q[2]))]]

(* The same of run-length coded data without ends of lines: runs,          *)
(* literals and moves.                                                     *)
RleBytes(bpp, t) ==
    CASE t.op = "run" -> <<t.n, IF bpp = 8 THEN t.a ELSE 16 * t.a + t.b>>
      [] t.op = "abs" ->
           LET d == Packed([k \in 1 .. t.n |-> IF k % 2 = 1 THEN t.a ELSE t.b], bpp)
           IN  <<0, t.n>> \o d \o Copies(0, Len(d) % 2)
      [] t.op = "move" -> <<0, 2, t.a, t.b>>
RleMeans(bpp, w, h, tokens) ==
    FoldLeft(LAMBDA st, t :
        IF t.op = "move" THEN [st EXCEPT !.x = @ + t.a, !.y = @ + t.b]
        ELSE [st EXCEPT !.x = @ + t.n,
                        !.px = [q \in Area(w, h) |->
                                  IF q[2] = st.y /\ q[1] \in st.x .. st.x + t.n - 1
                                  THEN Reverse(Palette[1 + (IF (q[1] - st.x) % 2 = 1
                                           /\ ~(t.op = "run" /\ bpp = 8) THEN t.b ELSE t.a)])
                                  ELSE @[q]]],
        [x |-> 0, y |-> 0, px |-> [q \in Area(w, h) |-> <<0, 0, 0>>]], tokens)
RleRight(bpp, w, h, tokens) ==
    LET data == FlattenSeq([i \in 1 .. Len(tokens) |-> RleBytes(bpp, tokens[i])])
        m == RleMeans(bpp, w, h, tokens)
    IN  m.x <= w /\ m.y < h =>
            bmp_decode(Bmp(w, h, bpp, TRUE, 1, data \o <<0, 1>>)) =
                [ret |-> IMG_OK, px |-> m.px]

(* A TGA of run-length coded colours, from the top, or of plain palette    *)
(* indices, from either side.                                              *)
TgaRight(w, h, bpp, s, top, right) ==
    LET size == bpp \div 8
        V(k) == [c \in 1 .. size |-> Sample(s, k, 0, c)]
        Colour(k) == IF size = 1 THEN Reverse(Palette[V(k)[1] + 1]) \o <<255>>
                     ELSE <<V(k)[3], V(k)[2], V(k)[1], IF size = 4 THEN V(k)[4] ELSE 255>>
        half == (w * h) \div 2
        coded == <<127 + half>> \o V(0) \o <<(w * h) - half - 1>>
                 \o FlattenSeq([k \in 1 .. (w * h) - half |-> V(half + k - 1)])
        plain == FlattenSeq([k \in 1 .. w * h |-> V(k - 1)])
        f == Tga(w, h, bpp, IF size = 1 THEN 1 ELSE 10, size = 1,
                 (IF top THEN 32 ELSE 0) + (IF right THEN 16 ELSE 0),
                 IF size = 1 THEN plain ELSE coded)
        Place(q) == (IF top THEN q[2] ELSE h - 1 - q[2]) * w
                    + (IF right THEN w - 1 - q[1] ELSE q[1])
    IN  top \/ size = 1 =>
            tga_decode(f) = [ret |-> IMG_OK, px |-> [q \in Area(w, h) |->
                Colour(IF size > 1 /\ Place(q) < half THEN 0 ELSE Place(q))]]

(* A PCX of one bit a pixel in which all bytes from 64 on are runs.        *)
PcxRight(w, h, s) ==
    LET Line(y) == Packed([x \in 1 .. w |-> Sample(s, x - 1, y, 0)], 1)
        Coded(b) == IF b < 64 THEN <<b>> ELSE <<193, b>>
        lines == FlattenSeq([y \in 1 .. h |-> Line(y - 1)])
        f == Pcx(w, h, FlattenSeq([i \in 1 .. Len(lines) |-> Coded(lines[i])]))
    IN  pcx_decode(f) = [ret |-> IMG_OK, px |->
            [q \in Area(w, h) |-> Palette[Sample(s, q[1], q[2], 0) + 1]]]

(* A QOI written with the shortest code of each pixel; cut short it is     *)
(* refused.                                                                *)
RECURSIVE QoiBytes(_, _, _)
QoiBytes(px, prev, seen) ==
    LET c == px[1]
        D(i) == ((c[i] - prev[i] + 128) % 256) - 128
        n == Max({k \in 1 .. Len(px) : \A i \in 1 .. k : px[i] = c})
        code == CASE seen[Hash(c)] = c -> <<Hash(c)>>
                  [] c[4] # prev[4] -> <<255>> \o c
                  [] \A i \in 1 .. 3 : D(i) \in -2 .. 1 ->
                       <<64 + 16 * (D(1) + 2) + 4 * (D(2) + 2) + D(3) + 2>>
                  [] D(2) \in -32 .. 31 /\ \A i \in {1, 3} : D(i) - D(2) \in -8 .. 7 ->
                       <<128 + D(2) + 32, 16 * (D(1) - D(2) + 8) + D(3) - D(2) + 8>>
                  [] OTHER -> <<254>> \o SubSeq(c, 1, 3)
    IN  CASE px = <<>> -> <<>>
          [] c = prev -> <<191 + n>> \o QoiBytes(SubSeq(px, n + 1, Len(px)), prev,
                                                 [seen EXCEPT ![Hash(c)] = c])
          [] OTHER -> code \o QoiBytes(Tail(px), c, [seen EXCEPT ![Hash(c)] = c])
QoiRight(px, w) ==
    LET data == QoiBytes(px, <<0, 0, 0, 255>>, [i \in 0 .. 63 |-> <<0, 0, 0, 0>>])
        h == Len(px) \div w
    IN  w * h = Len(px) /\ h > 0 =>
          /\ qoi_decode(QoiFile(w, h, data)) =
                [ret |-> IMG_OK, px |-> [q \in Area(w, h) |-> px[q[2] * w + q[1] + 1]]]
          /\ qoi_decode(QoiFile(w, h, Front(data))).ret = IMG_ERR_TRUNCATED

(* A picture scaled up and down again is the same, one scaled down has no  *)
(* colours the picture has not, and what is opaque is shown as it is.      *)
ScaleRight(w, h, nw, nh, s) ==
    LET px == [q \in Area(w, h) |-> [c \in 1 .. 4 |-> Sample(s, q[1], q[2], c)]]
        Scaled(p, a, b, c, e) == image_scale(p, a, b, c, e).px
        small == Scaled(px, w, h, nw, nh)
        All(p, c) == {p[q][c] : q \in DOMAIN p}
    IN  /\ \A k \in 1 .. 3 : Scaled(Scaled(px, w, h, k * w, k * h), k * w, k * h, w, h) = px
        /\ \A c \in 1 .. 4 : /\ Max(All(small, c)) <= Max(All(px, c))
                              /\ Min(All(small, c)) >= Min(All(px, c))
        /\ w % nw = 0 /\ h % nh = 0 =>
             UNION {Box(i, nw, w) \X Box(j, nh, h) : i \in 0 .. nw - 1, j \in 0 .. nh - 1}
                 = Area(w, h)
        /\ \A q \in Area(w, h) :
             LET shown == image_to_xrgb32(px[q]) IN
             /\ px[q][4] = 255 => shown = SubSeq(px[q], 1, 3)
             /\ px[q][4] = 0 => shown = Backdrop
             /\ \A c \in 1 .. 3 : shown[c] \in Min({px[q][c], Backdrop[c]}) ..
                                               Max({px[q][c], Backdrop[c]})
=============================================================================
