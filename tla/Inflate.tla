------------------------------ MODULE Inflate -------------------------------
(***************************************************************************)
(* Decompression of kernel/inflate.c.  The input is the sequence of the    *)
(* bits of whole bytes, the lowest of each byte first; the output is a     *)
(* sequence of bytes.  A table of Huffman codes is the sequence of the     *)
(* code lengths of the symbols 0, 1, ..., 0 for one that is not used.  No  *)
(* caller gives a window, so matches are copied from the output.           *)
(***************************************************************************)
EXTENDS Integers, Sequences

LOCAL INSTANCE SequencesExt
LOCAL INSTANCE FiniteSetsExt

MAX_BITS == 15
ERR_DATA == -1
ERR_OUTPUT == -2
ERR_INPUT == -3
Copies(x, n) == [i \in 1 .. n |-> x]

-----------------------------------------------------------------------------
(* bits: a number of `need` bits and the place behind it.                  *)
bits(in, pos, need) ==
    LET val[i \in 0 .. need] == IF i = 0 THEN 0
                               ELSE val[i - 1] + in[pos + i] * 2^(i - 1)
    IN  IF pos + need > Len(in) THEN [v |-> ERR_INPUT, pos |-> Len(in)]
        ELSE [v |-> val[need], pos |-> pos + need]

(* huff_build: how many codes there are of each length, and the symbols in *)
(* the order of their codes.  Too many codes are refused, too few are not. *)
Symbols(lengths, l) ==
    SelectSeq([i \in 1 .. Len(lengths) |-> i - 1],
              LAMBDA x : lengths[x + 1] = l)
huff_build(lengths) ==
    LET counts == [l \in 0 .. MAX_BITS |-> Len(Symbols(lengths, l))]
        left[l \in 0 .. MAX_BITS] == IF l = 0 THEN 1
                                     ELSE 2 * left[l - 1] - counts[l]
    IN  [ok |-> \A l \in 1 .. MAX_BITS : left[l] >= 0,
         counts |-> counts,
         symbols |-> FlattenSeq([l \in 1 .. MAX_BITS |-> Symbols(lengths, l)])]

(* decode: bit by bit; codes of a length begin at `first`, their symbols   *)
(* behind `index` others.                                                  *)
RECURSIVE Descend(_, _, _, _, _, _, _)
Descend(in, pos, h, len, code, first, index) ==
    LET b == bits(in, pos, 1)
        c == code + b.v
        count == h.counts[len]
    IN  CASE len > MAX_BITS -> [v |-> ERR_DATA, pos |-> pos]
          [] b.v < 0 -> b
          [] c - first < count -> [v |-> h.symbols[index + c - first + 1],
                                   pos |-> b.pos]
          [] OTHER -> Descend(in, b.pos, h, len + 1, 2 * c, 2 * (first + count),
                              index + count)
decode(in, pos, h) == Descend(in, pos, h, 1, 0, 0, 0)

-----------------------------------------------------------------------------
(* Lengths and distances of matches, with their extra bits.                *)
len_base == <<3, 4, 5, 6, 7, 8, 9, 10, 11, 13, 15, 17, 19, 23, 27, 31, 35, 43,
              51, 59, 67, 83, 99, 115, 131, 163, 195, 227, 258>>
len_extra == <<0, 0, 0, 0, 0, 0, 0, 0, 1, 1, 1, 1, 2, 2, 2, 2, 3, 3, 3, 3, 4, 4,
               4, 4, 5, 5, 5, 5, 0>>
dist_extra == [i \in 1 .. 30 |-> IF i < 3 THEN 0 ELSE (i - 3) \div 2]
dist_base == [i \in 1 .. 30 |->
                IF i < 3 THEN i
                ELSE 1 + 2^((i - 1) \div 2) + (IF i % 2 = 0 THEN 2^((i - 3) \div 2)
                                               ELSE 0)]
clen_order == <<16, 17, 18, 0, 8, 7, 9, 6, 10, 5, 11, 4, 12, 3, 13, 2, 14, 1, 15>>

FixedLengths == Copies(8, 144) \o Copies(9, 112) \o Copies(7, 24) \o Copies(8, 8)
build_fixed(pos) == [err |-> 0, len |-> huff_build(FixedLengths),
                     dist |-> huff_build(Copies(5, 30)), pos |-> pos]

(* emit_match: the bytes come one by one, so a match may reach into what   *)
(* it has just written.                                                    *)
emit_match(out, dist, len) ==
    LET from == Len(out) - dist
    IN  out \o [i \in 1 .. len |-> out[from + 1 + ((i - 1) % dist)]]

(* The lengths of a dynamic table, runs of them in short.  A negative      *)
(* first element of `got` would be an error, kept apart in `err`.          *)
RECURSIVE Lengths(_, _, _, _, _)
Lengths(in, pos, h, total, got) ==
    LET Ends(e) == [err |-> e, got |-> got, pos |-> pos]
        Run(x, rep, least) ==
            CASE rep.v < 0 -> Ends(ERR_INPUT)
              [] rep.v >= 0 /\ Len(got) + rep.v + least > total -> Ends(ERR_DATA)
              [] OTHER -> Lengths(in, rep.pos, h, total,
                                  got \o Copies(x, rep.v + least))
        Meant(sym) ==
            CASE sym.v < 0 -> Ends(sym.v)
              [] sym.v \in 0 .. 15 -> Lengths(in, sym.pos, h, total, Append(got, sym.v))
              [] sym.v = 16 -> IF got = <<>> THEN Ends(ERR_DATA)
                               ELSE Run(Last(got), bits(in, sym.pos, 2), 3)
              [] sym.v = 17 -> Run(0, bits(in, sym.pos, 3), 3)
              [] OTHER -> Run(0, bits(in, sym.pos, 7), 11)
    IN  IF Len(got) >= total THEN Ends(0) ELSE Meant(decode(in, pos, h))

build_dynamic(in, pos) ==
    LET nlen  == bits(in, pos, 5)
        ndist == bits(in, pos + 5, 5)
        ncode == bits(in, pos + 10, 4)
        at    == pos + 14
        clens == [x \in 1 .. 19 |->
                    LET i == CHOOSE k \in 1 .. 19 : clen_order[k] = x - 1
                    IN  IF i > ncode.v + 4 THEN 0
                        ELSE bits(in, at + 3 * (i - 1), 3).v]
        all == nlen.v + 257 + ndist.v + 1
        Fails(e) == [err |-> e, len |-> <<>>, dist |-> <<>>, pos |-> pos]
        Tables(r, len, dist) ==
            CASE r.err # 0 -> Fails(r.err)
              [] r.err = 0 /\ (r.got[257] = 0 \/ ~len.ok \/ ~dist.ok) -> Fails(ERR_DATA)
              [] OTHER -> [err |-> 0, len |-> len, dist |-> dist, pos |-> r.pos]
        Split(r) == Tables(r, huff_build(SubSeq(r.got, 1, nlen.v + 257)),
                           huff_build(SubSeq(r.got, nlen.v + 258, all)))
        Sent(clcode) ==
            IF ~clcode.ok THEN Fails(ERR_DATA)
            ELSE Split(Lengths(in, at + 3 * (ncode.v + 4), clcode, all, <<>>))
    IN  CASE at > Len(in) -> Fails(ERR_INPUT)
          [] nlen.v + 257 > 286 \/ ndist.v + 1 > 30 -> Fails(ERR_DATA)
          [] at + 3 * (ncode.v + 4) > Len(in) -> Fails(ERR_INPUT)
          [] OTHER -> Sent(huff_build(clens))

-----------------------------------------------------------------------------
(* The symbols of a block up to its end.                                   *)
RECURSIVE Codes(_, _, _, _, _)
Codes(in, pos, t, out, cap) ==
    LET Ends(e, p) == [err |-> e, end |-> TRUE, pos |-> p, out |-> out]
        Goes(p, new) == [err |-> 0, end |-> FALSE, pos |-> p, out |-> new]
        Copy(length, dist, p) ==
            CASE dist > Len(out) -> Ends(ERR_DATA, pos)
              [] dist <= Len(out) /\ Len(out) + length > cap -> Ends(ERR_OUTPUT, pos)
              [] OTHER -> Goes(p, emit_match(out, dist, length))
        Extra(length, k, de) ==
            IF de.v < 0 THEN Ends(ERR_INPUT, pos)
            ELSE Copy(length, dist_base[k] + de.v, de.pos)
        Distance(length, ds) ==
            CASE ds.v < 0 -> Ends(ds.v, pos)
              [] ds.v >= 30 -> Ends(ERR_DATA, pos)
              [] OTHER -> Extra(length, ds.v + 1, bits(in, ds.pos, dist_extra[ds.v + 1]))
        Length(i, le) ==
            IF le.v < 0 THEN Ends(ERR_INPUT, pos)
            ELSE Distance(len_base[i] + le.v, decode(in, le.pos, t.dist))
        Meant(sym) ==
            CASE sym.v < 0 -> Ends(sym.v, pos)
              [] sym.v \in 0 .. 255 ->
                   IF Len(out) >= cap THEN Ends(ERR_OUTPUT, pos)
                   ELSE Goes(sym.pos, Append(out, sym.v))
              [] sym.v = 256 -> Ends(0, sym.pos)
              [] sym.v > 285 -> Ends(ERR_DATA, pos)
              [] OTHER -> Length(sym.v - 256, bits(in, sym.pos, len_extra[sym.v - 256]))
        On(r) == IF r.end THEN r ELSE Codes(in, r.pos, t, r.out, cap)
    IN  On(Meant(decode(in, pos, t.len)))

(* A stored block: from the next whole byte on, its length twice.          *)
Stored(in, pos, out, cap) ==
    LET at == ((pos + 7) \div 8) * 8
        Byte(k) == bits(in, at + 8 * k, 8).v
        len == Byte(0) + 256 * Byte(1)
        Fails(e) == [err |-> e, pos |-> pos, out |-> out]
    IN  CASE at + 32 > Len(in) -> Fails(ERR_INPUT)
          [] Byte(2) + 256 * Byte(3) # 65535 - len -> Fails(ERR_DATA)
          [] at + 32 + 8 * len > Len(in) -> Fails(ERR_INPUT)
          [] Len(out) + len > cap -> Fails(ERR_OUTPUT)
          [] OTHER -> [err |-> 0, pos |-> at + 32 + 8 * len,
                       out |-> out \o [k \in 1 .. len |-> Byte(3 + k)]]

(* Block after block until the last.                                       *)
RECURSIVE Blocks(_, _, _, _)
Blocks(in, pos, out, cap) ==
    LET last == bits(in, pos, 1)
        type == bits(in, pos + 1, 2)
        Coded(t) == IF t.err # 0 THEN [err |-> t.err, pos |-> pos, out |-> out]
                    ELSE Codes(in, t.pos, t, out, cap)
        Behind(r) == CASE r.err # 0 -> [ret |-> r.err, out |-> r.out]
                       [] r.err = 0 /\ last.v = 1 -> [ret |-> Len(r.out), out |-> r.out]
                       [] OTHER -> Blocks(in, r.pos, r.out, cap)
    IN  IF pos + 3 > Len(in) THEN [ret |-> ERR_INPUT, out |-> out]
        ELSE Behind(CASE type.v = 0 -> Stored(in, pos + 3, out, cap)
                      [] type.v \in 1 .. 2 -> Coded(IF type.v = 1 THEN build_fixed(pos + 3)
                                                   ELSE build_dynamic(in, pos + 3))
                      [] OTHER -> [err |-> ERR_DATA, pos |-> pos, out |-> out])
inflate_raw(in, cap) == Blocks(in, 0, <<>>, cap)

(* The two bytes in front; the checksum behind is not looked at.           *)
zlib_inflate(in, cap) ==
    LET cmf == bits(in, 0, 8).v
        flg == bits(in, 8, 8).v
        Fails(e) == [ret |-> e, out |-> <<>>]
    IN  CASE Len(in) < 16 -> Fails(ERR_INPUT)
          [] cmf % 16 # 8 \/ cmf \div 16 > 7 -> Fails(ERR_DATA)
          [] (cmf * 256 + flg) % 31 # 0 \/ (flg \div 32) % 2 = 1 -> Fails(ERR_DATA)
          [] OTHER -> inflate_raw(SubSeq(in, 17, Len(in)), cap)

-----------------------------------------------------------------------------
(* What a stream should give, by RFC 1951: a code is the sum of what the   *)
(* symbols before it take, by length and then by number; a match of length *)
(* n and distance d repeats the last d bytes.                              *)
Low(v, n) == [i \in 1 .. n |-> (v \div 2^(i - 1)) % 2]
Code(lengths, x) ==
    LET l == lengths[x + 1]
        before == {y \in 0 .. Len(lengths) - 1 :
                     /\ lengths[y + 1] > 0
                     /\ \/ lengths[y + 1] < l
                        \/ lengths[y + 1] = l /\ y < x}
    IN  Reverse(Low(FoldSet(LAMBDA y, n : n + 2^(l - lengths[y + 1]), 0, before),
                    l))

(* Kraft: how much of the room the codes of these lengths take.            *)
Taken(lengths) ==
    FoldLeft(LAMBDA n, l : IF l = 0 THEN n ELSE n + 2^(MAX_BITS - l), 0,
             lengths)

(* Every symbol is read from its code, up to the bit where it ends;        *)
(* lengths without room for their codes are refused, and those that use    *)
(* all of it are not (huff_build, decode).  Lengths that leave room are    *)
(* refused by the words of inflate.c:77 and taken by the code: the         *)
(* property asks neither, and that what is taken is read right.            *)
CodesRight(lengths) ==
    LET h == huff_build(lengths)
    IN  /\ Taken(lengths) > 2^MAX_BITS => ~h.ok
        /\ Taken(lengths) = 2^MAX_BITS => h.ok
        /\ h.ok => \A x \in 0 .. Len(lengths) - 1 :
              LET c == Code(lengths, x)
              IN  lengths[x + 1] > 0 =>
                    /\ decode(c \o <<1>>, 0, h) = [v |-> x, pos |-> Len(c)]
                    /\ decode(Front(c), 0, h).v < 0

(* A token is a byte, or a match of a length up to ten and a distance up   *)
(* to four.                                                                *)
TokenBits(t, len, dist) ==
    IF t[1] = 0 THEN Code(len, t[2])
    ELSE Code(len, 254 + t[1]) \o Code(dist, t[2] - 1)
BlockBits(tokens, len, dist) ==
    FlattenSeq([i \in 1 .. Len(tokens) |-> TokenBits(tokens[i], len, dist)])
    \o Code(len, 256)
RECURSIVE Meaning(_, _)
Meaning(tokens, out) ==
    LET t == Head(tokens)
        n == IF t[1] = 0 THEN 0 ELSE t[1]
    IN  IF tokens = <<>> THEN out
        ELSE IF t[1] = 0 THEN Meaning(Tail(tokens), Append(out, t[2]))
        ELSE IF n = 1 THEN Meaning(<< <<0, out[Len(out) - t[2] + 1]>> >>
                                   \o Tail(tokens), out)
        ELSE Meaning(<< <<n - 1, t[2]>> >> \o Tail(tokens),
                     Append(out, out[Len(out) - t[2] + 1]))
Valid(tokens) ==
    \A i \in 1 .. Len(tokens) :
        tokens[i][1] > 0 => Len(Meaning(SubSeq(tokens, 1, i - 1), <<>>)) >= tokens[i][2]

(* Two codes for literals 0 and 1, the end, matches of three and of four,  *)
(* and distances of one and two, sent with runs of each kind.              *)
SmallLen == <<2, 3>> \o Copies(0, 254) \o <<3, 2, 2>>
SmallDist == <<1, 1>>
SmallClens == [x \in 1 .. 19 |-> CASE x - 1 = 18 -> 2 [] x - 1 = 2 -> 2
                                   [] x - 1 = 3 -> 3 [] x - 1 = 16 -> 3
                                   [] x - 1 = 1 -> 2 [] OTHER -> 0]
DynamicBits ==
    LET C(x) == Code(SmallClens, x)
    IN  Low(2, 5) \o Low(1, 5) \o Low(14, 4)
        \o FlattenSeq([i \in 1 .. 18 |-> Low(SmallClens[clen_order[i] + 1], 3)])
        \o C(2) \o C(3) \o C(18) \o Low(127, 7) \o C(18) \o Low(105, 7)
        \o C(3) \o C(2) \o C(2) \o C(1) \o C(1)

StoredBits(data) ==
    Copies(0, 5) \o Low(Len(data), 16) \o Low(65535 - Len(data), 16)
    \o FlattenSeq([i \in 1 .. Len(data) |-> Low(data[i], 8)])

(* A stream behind its two bytes in front, filled up to whole bytes.       *)
Zlib(body) == LET z == Low(120, 8) \o Low(156, 8) \o body
              IN  z \o Copies(0, (8 - (Len(z) % 8)) % 8)

(* A stream of a stored, a fixed or a dynamic block gives what its tokens  *)
(* mean, or says that there is no room for it; a stream that lacks its     *)
(* last bytes, whose two bytes in front are wrong or whose match reaches   *)
(* before the beginning is refused.                                        *)
InflateRight(kind, tokens, cap, cut) ==
    LET data == Meaning(tokens, <<>>)
        Fixed == <<1, 1, 0>> \o BlockBits(tokens, FixedLengths, Copies(5, 30))
        z == Zlib(CASE kind = "stored" -> <<1, 0, 0>> \o StoredBits(data)
                    [] kind = "fixed" -> Fixed
                    [] kind = "dynamic" -> <<1, 0, 1>> \o DynamicBits \o
                                           BlockBits(tokens, SmallLen, SmallDist)
                    [] kind = "both" -> <<0, 0, 0>> \o StoredBits(<<1>>) \o Fixed)
        all == IF kind = "both" THEN <<1>> \o data ELSE data
        short == SubSeq(z, 1, Len(z) - 8 * Min({cut, Len(z) \div 8}))
        wrong == {[z EXCEPT ![i] = 1 - @] : i \in {1, 9, 14}}
                 \union {Zlib(<<1, 1, 0>> \o BlockBits(<< <<3, 1>> >> \o tokens,
                                                      FixedLengths, Copies(5, 30)))}
        Is(in, r) == CASE in \in wrong -> r.ret = ERR_DATA
                       [] in \notin wrong /\ cut > 0 -> r.ret < 0
                       [] OTHER -> IF Len(all) > cap THEN r.ret = ERR_OUTPUT
                                   ELSE r.ret = Len(all) /\ r.out = all
    IN  Valid(tokens) => \A in \in {short} \union wrong : Is(in, zlib_inflate(in, cap))
=============================================================================
