----------------------------- MODULE MCLibrary -----------------------------
(* The libraries of programs.  Functions are called with every argument of *)
(* a small set: `arg` is the call, and what the function gives is compared *)
(* with what it should give.  Containers, streams and the handshake are    *)
(* state machines.  `part` says which of them a behaviour is about.        *)
EXTENDS Integers, Sequences, SequencesExt, FiniteSetsExt, TLC

VARIABLES part, arg,
          lock, seq, done, retval, futex_table, place, saw, back, mine, whom, called,
          buf, head, tail, put, taken, pushed, popped,
          words, bits, next, prev, queue, sb, text,
          file, pos, fds, F, view, out, want, cut,
          c, server, up, down, broken,
          mode, y_offset, front_page_y, back_page_y, db_initialised, video, frame, shows, moved

threads == <<lock, seq, done, retval, futex_table, place, saw, back, mine, whom, called>>
ring == <<buf, head, tail, put, taken, pushed, popped>>
stores == <<words, bits, next, prev, queue, sb, text>>
stdio == <<file, pos, fds, F, view, out, want, cut>>
tls == <<c, server, up, down, broken>>
pages == <<mode, y_offset, front_page_y, back_page_y, db_initialised, video, frame, shows, moved>>

Letters == [x \in {"a", "A", "b", ".", " ", "n"} |->
                IF x = "a" THEN "A" ELSE x]
T == INSTANCE Library WITH Spaces <- {" "}, Slash <- "/", Dot <- ".",
         Blank <- " ", Newline <- "n", Nul <- "0", Upper <- Letters, BASE <- 2, EXT <- 1,
         W <- 8, Minus <- 40, Plus <- 41, Space <- 42, Hex <- 33, BITS <- 2, POLY <- 140,
         PRIME <- 13
(* Words of eight bits, and of sixteen where the width tells.              *)
N16 == INSTANCE Library WITH Spaces <- {" "}, Slash <- "/", Dot <- ".",
         Blank <- " ", Newline <- "n", Nul <- "0", Upper <- Letters, BASE <- 2, EXT <- 1,
         W <- 16, Minus <- 40, Plus <- 41, Space <- 42, Hex <- 33, BITS <- 2, POLY <- 140,
         PRIME <- 251
(* Two threads that join each other and one slot to sleep in, three and    *)
(* two slots; a ring whose indices wrap after two laps.                   *)
R == INSTANCE Threads WITH Threads <- {1, 2}, Joiners <- {1, 2}, SLOTS <- 1,
         MaxCalls <- 2, at <- place, c <- saw, cap <- 2, WORD <- 4, Elems <- {1, 2}, MaxPush <- 5
X == INSTANCE Threads WITH Threads <- {1, 2, 3}, Joiners <- {1}, SLOTS <- 2,
         MaxCalls <- 0, at <- place, c <- saw, cap <- 2, WORD <- 4, Elems <- {1, 2}, MaxPush <- 5
(* Two words and a half; three nodes; a builder that doubles twice.        *)
C == INSTANCE Containers WITH BITS <- 3, nbits <- 8, Nodes <- 1 .. 3,
         INIT_CAP <- 2, SMALL <- 2, QSORT_STACK <- 64,
         MaxText <- 8
(* A file of three bytes and buffers of two.                               *)
I == INSTANCE Stdio WITH BUFSIZ <- 2, Bytes <- {"a", "n"}, Newline <- "n",
         Chunks <- {<<"a">>, <<"n", "a">>}, MaxFile <- 3, MaxAsk <- 3
H == INSTANCE Tls
Z == INSTANCE Inflate
M == INSTANCE Images
J == INSTANCE Jpeg
(* A screen of two lines and one of three; the third mode is refused.      *)
D == INSTANCE Draw WITH fb_modes <- <<1, 2, 3>>, Accepted <- {2, 3}, Lines <- 6, MaxFrames <- 3

-----------------------------------------------------------------------------
Strings(S, n) == UNION {[1 .. k -> S] : k \in 0 .. n}
Values == {0, 1, 2, 3, 6, 7, 8, 16, 33, 64, 100, 127, 128, 129, 200, 254, 255}
Formats == [conv : {"d", "u", "x", "o", "p"}, left : BOOLEAN, zero : BOOLEAN,
            plus : BOOLEAN, space : BOOLEAN, hash : BOOLEAN,
            width : {0, 3, 6}, prec : {-1}]

(* What the functions are called with.                                     *)
TextCalls ==
    [move  |-> [op : {"move"}, d : 1 .. 4, s : 1 .. 4, n : 0 .. 4],
     copy  |-> [op : {"copy"}, s : Strings({"a", "b"}, 3), t : Strings({"a", "b"}, 3),
                n : 1 .. 7],
     split |-> [op : {"split"}, s : Strings({"a", "/", " "}, 5), n : 1 .. 3],
     replace |-> [op : {"replace"}, s : Strings({"a", "b"}, 4),
                  t : Strings({"a", "b"}, 2), u : Strings({"a", "b"}, 2), n : {3, 12}],
     path  |-> [op : {"path"}, s : Strings({"a", "/", "."}, 6)],
     join  |-> [op : {"join"}, s : Strings({"a", "/", "."}, 3),
                t : Strings({"a", "/"}, 2), n : 1 .. 7],
     lines |-> [op : {"lines"}, s : Strings({"a", "n", " "}, 6)],
     name  |-> [op : {"name"}, s : Strings({"a", ".", " "}, 5),
                t : Strings({"A", "."}, 2)],
     line  |-> [op : {"line"}, s : Strings({"a", "b", " "}, 6)],
     date  |-> [op : {"date"}, y : {0, 37, 153}, m : {0, 1, 18, 19}, d : {0, 37, 50},
                h : {0, 35}, s : {0, 89}]]
NumberCalls ==
    [sort |-> [op : {"sort"}, s : Strings(1 .. 3, 5)],
     pair |-> [op : {"pair"}, a : Values, b : Values],
     word |-> [op : {"word"}, v : {0, 1, 2, 3, 255, 256, 4097, 21845, 32767, 32768,
                                   32769, 43690, 65534, 65535}, n : {0, 1, 7, 15}],
     sum  |-> [op : {"sum"}, s : Strings({0, 1, 3}, 3), t : Strings({0, 2}, 2)],
     format |-> [op : {"format"}, f : Formats, v : {0, 5, 100, 255}],
     range |-> [op : {"range"}, n : 1 .. 20]]

(* Pictures: sizes on both sides of a byte and of a block, all kinds of    *)
(* pixels and depths, tokens and colours that use every code.              *)
Headers(t) == [w : {1, 3, 5}, h : {1, 2, 5}, type : {t}, interlace : {0, 1},
               short : {FALSE}, method : {0},
               depth : CASE t = 0 -> {1, 2, 4, 8, 16} [] t = 3 -> {2, 4, 8}
                         [] OTHER -> {8, 16}]
SamplesFor(h) ==
    CASE h.type = 3 -> {<<0, 1>>, <<2, 0, 1>>}
      [] h.depth = 16 -> {<<0, 511, 65535>>, <<256, 40000>>}
      [] OTHER -> {<<0, 2^h.depth - 1, 1>>, <<2^(h.depth - 1), 2^h.depth - 1, 0, 0, 1>>}
KeysFor(h) == CASE h.type = 3 -> {<<>>, <<100>>}
                [] h.type = 0 /\ h.depth >= 8 -> {<<>>, <<0, 1>>}
                [] OTHER -> {<<>>}
Plain == [w |-> 2, h |-> 2, depth |-> 8, type |-> 3, interlace |-> 0,
          short |-> FALSE, method |-> 0]
WrongHeaders == {[Plain EXCEPT !.depth = 16], [Plain EXCEPT !.w = 0],
                 [Plain EXCEPT !.h = 5000], [Plain EXCEPT !.type = 5],
                 [Plain EXCEPT !.interlace = 2], [Plain EXCEPT !.short = TRUE],
                 [Plain EXCEPT !.method = 1]}
Pngs == UNION {[op : {"png"}, h : {h}, head : {h}, s : SamplesFor(h), n : {0, 3},
                t : KeysFor(h), bad : {""}] : h \in UNION {Headers(t) : t \in {0, 2, 3, 4, 6}}}
        \union [op : {"png"}, h : {Plain}, head : {Plain}, s : {<<0, 1>>}, n : {0},
                t : {<<>>, <<1>>}, bad : {"IHDR", "PLTE", "IDAT", "none", "short", "cut", "huge"}]
        \union [op : {"png"}, h : {Plain}, head : WrongHeaders, s : {<<0, 1>>}, n : {0},
                t : {<<>>}, bad : {""}]
Bmps == [op : {"bmp"}, w : {1, 3, 5}, h : {1, 3}, bpp : {1, 4, 8, 16, 24, 32},
         s : {<<0, 1>>, <<1, 0, 0>>}, top : BOOLEAN]
        \union [op : {"bmp"}, w : {1, 3}, h : {1, 3}, bpp : {16, 24, 32},
                s : {<<0, 100, 255>>, <<31, 7>>}, top : BOOLEAN]
Runs == [op : {"run"}, n : {1, 2, 3}, a : {1, 3}, b : {0, 2}]
        \union [op : {"abs"}, n : {3, 4}, a : {1}, b : {2}]
        \union [op : {"move"}, n : {0}, a : {1}, b : {0, 1}]
Rles == [op : {"rle"}, bpp : {4, 8}, w : {5}, h : {2}, t : Strings(Runs, 2)]
        \union [op : {"rle"}, bpp : {4, 8}, w : {7}, h : {2},
                t : [1 .. 3 -> {r \in Runs : r.n \in {0, 3} /\ r.a = 1}]]
Samplings == {<< <<1, 1>> >>, << <<1, 1>>, <<1, 1>>, <<1, 1>> >>,
              << <<2, 2>>, <<1, 1>>, <<1, 1>> >>, << <<2, 1>>, <<1, 1>>, <<1, 1>> >>}
Jpegs == [op : {"jpeg"}, w : {8, 17}, h : {7, 18}, p : Samplings,
          d : {<<1, -2, 0>>, <<255, 0, 1>>}, k : {2, 17, 63}, v : {1, -1}, n : 0 .. 2,
          cut : {0}]
         \union [op : {"jpeg"}, w : {17}, h : {7}, p : Samplings, d : {<<0>>}, k : {1, 17},
                 v : {3, -2}, n : {0}, cut : {0}]
         \union [op : {"jpeg"}, w : {17}, h : {18}, p : Samplings, d : {<<1, -2, 0>>},
                 k : {2}, v : {-1}, n : {0}, cut : 1 .. 9]
Figures == {"fill", "across", "down", "frame", "line", "round", "full", "blit", "sprite"}
PictureCalls ==
    [codes |-> [op : {"codes"}, s : Strings(0 .. 3, 5)],
     inflate |-> [op : {"inflate"}, k : {"stored", "fixed", "dynamic", "both"},
                  s : Strings({<<0, 0>>, <<0, 1>>, <<3, 1>>, <<4, 2>>}, 3), n : {4, 12},
                  cut : {0, 1, 9}],
     png |-> Pngs,
     paeth |-> [op : {"paeth"}, a : {0, 1, 2, 7, 255}, b : {0, 1, 3, 100}, c : {0, 2, 4, 255}],
     passes |-> [op : {"passes"}, w : 1 .. 10, h : 1 .. 10, n : {1, 8}],
     bmp |-> Bmps, rle |-> Rles,
     tga |-> [op : {"tga"}, w : {2, 3}, h : {1, 2}, bpp : {8, 24, 32},
              s : {<<0, 1, 2>>, <<3, 1>>}, top : BOOLEAN, right : BOOLEAN],
     pcx |-> [op : {"pcx"}, w : {3, 8, 9, 18}, h : {1, 2}, s : Strings({0, 1}, 3) \ {<<>>}],
     qoi |-> [op : {"qoi"}, w : {1, 2},
              s : Strings({<<0, 0, 0, 255>>, <<255, 1, 0, 255>>, <<9, 12, 8, 255>>,
                           <<200, 0, 0, 255>>, <<200, 0, 0, 9>>}, 4) \ {<<>>}],
     scale |-> [op : {"scale"}, w : 1 .. 4, h : {1, 3}, a : 1 .. 5, b : {1, 2, 4},
                s : {<<0, 255>>, <<10, 90, 200>>}],
     jpeg |-> Jpegs,
     header |-> {[op |-> "header", k |-> "BMP", p |-> 20], [op |-> "header", k |-> "TGA", p |-> 14],
                 [op |-> "header", k |-> "PCX", p |-> 10], [op |-> "header", k |-> "QOI", p |-> 7]},
     refuse |-> [op : {"refuse"}, w : {3, 9}, h : {8}, p : Samplings,
                 lacks : {0, 192, 196, 218}],
     idct |-> [op : {"idct"}, dc : {0, 7, -300, 500, 1300, -2000}, k : 0 .. 63,
               v : {-200, 30, 150}],
     colour |-> [op : {"colour"}, y : {0, 1, 100, 255}, b : {-128, -1, 0, 60, 127},
                 r : {-128, 0, 33, 127}],
     edges |-> [op : {"edges"}, k : Figures, x : {-9, -3, 0, 2, 5}, y : {-4, 0, 3},
                w : {1, 2, 5, 9, 14}, h : {1, 3, 6, 11}],
     figure |-> [op : {"figure"}, k : Figures \ {"blit", "sprite"}, x : {3}, y : {2},
                 w : 1 .. 12, h : 1 .. 12],
     layer |-> [op : {"layer"}, x : -7 .. 8, y : -5 .. 6, w : 1 .. 3, h : {1, 2},
                key : {-1, 101}]]

Calls == TextCalls @@ NumberCalls @@ PictureCalls
Ask(o) == [op |-> "ask", about |-> o]

Init ==
    /\ part \in {"ring", "pair", "crowd", "bitmap", "list", "builder", "stdio", "tls",
                "pages", "calls"}
    /\ arg \in {Ask(o) : o \in DOMAIN Calls}
    /\ part # "calls" => arg = Ask("copy")
    /\ IF part = "crowd" THEN X!ThreadInit ELSE R!ThreadInit
    /\ R!RingInit /\ C!Init /\ I!Init /\ H!Init /\ D!DrawInit
    /\ part # "stdio" => F = I!Free
    /\ part # "tls" => server.key = 128

Call == arg.op = "ask" /\ arg' \in Calls[arg.about]

Next ==
    \/ /\ part = "calls" /\ Call
       /\ UNCHANGED <<part, threads, ring, stores, stdio, tls, pages>>
    \/ /\ part = "ring" /\ R!RingNext
       /\ UNCHANGED <<part, arg, threads, stores, stdio, tls, pages>>
    \/ /\ \/ part = "pair" /\ R!ThreadNext
          \/ part = "crowd" /\ X!ThreadNext
       /\ UNCHANGED <<part, arg, ring, stores, stdio, tls, pages>>
    \/ /\ \/ part = "bitmap" /\ C!Bitmap
          \/ part = "list" /\ C!List
          \/ part = "builder" /\ C!Builder
       /\ UNCHANGED <<part, arg, threads, ring, stdio, tls, pages>>
    \/ /\ part = "stdio" /\ I!Next
       /\ UNCHANGED <<part, arg, threads, ring, stores, tls, pages>>
    \/ /\ part = "tls" /\ H!Next
       /\ UNCHANGED <<part, arg, threads, ring, stores, stdio, pages>>
    \/ /\ part = "pages" /\ D!DrawNext
       /\ UNCHANGED <<part, arg, threads, ring, stores, stdio, tls>>

LibrarySpec == Init /\ [][Next]_<<part, arg, threads, ring, stores, stdio, tls, pages>>

-----------------------------------------------------------------------------
(* Two calls that copy leave the beginning of both texts, and all of it    *)
(* unless one of them returned that it needed more room.                   *)
CopyRight(s, t, n) ==
    LET a == T!strlcpy(s, n)
        b == T!strlcat(a.text, t, n)
    IN  /\ b.text = T!Take(a.text \o t, n - 1) /\ Len(b.text) < n
        /\ a.ret < n /\ b.ret < n => b.text = s \o t
        /\ \A left \in BOOLEAN :
               LET p == T!slibc_str_pad(s, n, 4, "b", left) IN
               /\ Len(p) = Min({4, n - 1})
               /\ IF left THEN T!slibc_str_starts_with(p, T!Take(s, Len(p)))
                  ELSE n > 4 => T!slibc_str_ends_with(p, s)
        /\ LET p == T!strncpy(s, n) IN
               /\ T!Take(p, T!First(p, {"0"}) - 1) = T!strncat(<<>>, s, n)
               /\ T!First(p, {"0"}) <= n <=> Len(s) < n

(* A move leaves what was there, also where source and destination meet;   *)
(* so does a copy to a lower or a separate place.                          *)
MoveRight(d, s, n) ==
    LET m == [i \in 1 .. 7 |-> i]
        r == [i \in 1 .. 7 |-> IF i \in d .. d + n - 1 THEN i - d + s ELSE i]
    IN  /\ T!memmove(m, d, s, n) = r
        /\ d <= s \/ d >= s + n => T!memcpy(m, d, s, n) = r

(* What is split is joined again, tokens are the parts that are not empty, *)
(* and trimming takes the blanks at both ends only.                        *)
SplitRight(s, n) ==
    LET all  == T!slibc_str_split(s, "/", 9)
        some == T!slibc_str_split(s, "/", n)
        trim == T!slibc_strtrim(s)
    IN  /\ T!slibc_str_join(some, "/", 9) = s
        /\ \A i \in 1 .. Len(some) - 1 : some[i] = all[i]
        /\ Len(some) = Min({n, Len(all)})
        /\ T!Tokens(s, {"/"}) = SelectSeq(all, LAMBDA x : x # <<>>)
        /\ FlattenSeq(T!Tokens(s, {"/", " "})) = SelectSeq(s, LAMBDA x : x = "a")
        /\ trim # <<>> => trim[1] # " " /\ Last(trim) # " "
        /\ \E i, j \in 0 .. Len(s) :
               s = [k \in 1 .. i |-> " "] \o trim \o [k \in 1 .. j |-> " "]

(* As many replacements as there are occurrences; a small buffer holds the *)
(* beginning of the result.                                                *)
ReplaceRight(s, t, u, n) ==
    LET all == T!slibc_str_replace(s, t, u, 99)
        k   == T!slibc_str_count(s, t)
    IN  /\ Len(all) = Len(s) + k * (Len(u) - Len(t))
        /\ k = 0 => all = s
        /\ T!slibc_str_replace(s, t, u, n) = T!Take(all, n - 1)
        /\ T!slibc_str_replace(s, t, t, 99) = s

(* Where a path leads: the components that are left, and whether some ..   *)
(* led out of where it started.                                            *)
Leads(p) ==
    FoldLeft(LAMBDA st, x :
                 CASE x = <<".", ".">> -> IF st.at = <<>>
                                          THEN [st EXCEPT !.out = TRUE]
                                          ELSE [st EXCEPT !.at = Front(@)]
                   [] x \in {<<>>, <<".">>} -> st
                   [] OTHER -> [st EXCEPT !.at = Append(@, x)],
             [at |-> <<>>, out |-> FALSE], T!slibc_str_split(p, "/", 9))
Absolute(p) == p # <<>> /\ p[1] = "/"
Doubled(p) == \E i \in 2 .. Len(p) : p[i - 1] = "/" /\ p[i] = "/"
Written(at) == T!slibc_str_join(at, "/", 9)

(* The normal form leads where the path led, without detours, for absolute *)
(* paths and for relative ones that stay below their start and have no     *)
(* doubled slash; directory and last component together are the path.      *)
PathRight(p) ==
    LET n == T!slibc_path_normalize(p)
        d == T!slibc_path_dirname(p, 9).text
        j == T!slibc_path_join(9, d, T!slibc_path_basename(p))
    IN  /\ Absolute(p) => n = <<"/">> \o Written(Leads(p).at)
        /\ p # <<>> /\ ~Absolute(p) /\ ~Leads(p).out /\ ~Doubled(p) =>
               n = IF Leads(p).at = <<>> THEN <<".">> ELSE Written(Leads(p).at)
        /\ p # <<>> /\ ~Doubled(p) =>
               /\ j.ok /\ Leads(j.text) = Leads(p)
               /\ Absolute(j.text) = Absolute(p)
        /\ p # <<>> /\ Last(p) # "/" /\ (\E i \in DOMAIN p : p[i] = "/") =>
               T!slibc_path_basename(p) = Tail(T!strrchr(p, "/")[1])
JoinRight(s, t, n) ==
    LET j == T!slibc_path_join(n, s, t) IN
    /\ Len(j.text) < n
    /\ j.ok => /\ ~Absolute(t) => Leads(j.text) = Leads(s \o <<"/">> \o t)
               /\ Absolute(t) => j.text = t

(* A sorted array of the same elements, in which every one is found.       *)
SortRight(s) ==
    LET a == C!qsort(s) IN
    /\ Len(a) = Len(s)
    /\ \A i \in 2 .. Len(a) : a[i - 1] <= a[i]
    /\ \A x \in 1 .. 3 :
           /\ Cardinality({i \in DOMAIN a : a[i] = x}) =
                  Cardinality({i \in DOMAIN s : s[i] = x})
           /\ LET i == C!bsearch(x, a) IN
              IF \E k \in DOMAIN a : a[k] = x THEN i # 0 /\ a[i] = x ELSE i = 0

(* What head leaves of a text tail shows, and wc counts: all lines, a last *)
(* one without a newline included, and the tokens.  Left out is a text     *)
(* that begins with a newline where tail would start behind it.            *)
LinesRight(s) ==
    LET count == T!cmd_wc(s)
        lines == count.lines + (IF s # <<>> /\ Last(s) # "n" THEN 1 ELSE 0)
    IN  /\ count.words = Len(T!Tokens(s, {" ", "n"})) /\ count.bytes = Len(s)
        /\ \A k \in 1 .. lines - 1 :
               k > 1 \/ s[1] # "n" =>
                   /\ T!cmd_head(s, k) \o T!cmd_tail(s, lines - k) = s
                   /\ T!cmd_wc(T!cmd_head(s, k)).lines = k
        /\ \A k \in lines .. 7 : T!cmd_tail(s, k) = s /\ T!cmd_head(s, k) = s

(* Both conversions agree on one word.  A word of one dot that fits is     *)
(* shown as it was typed, in capitals, and found by its parts.             *)
NameRight(s, t) ==
    LET n == T!to_83(s)
        dots == Cardinality({i \in DOMAIN s : s[i] = "."})
        fits == /\ \A i \in DOMAIN s : s[i] # " "
                /\ dots <= 1 /\ T!First(s, {"."}) <= 3
                /\ Len(s) - T!First(s, {"."}) <= 1 /\ (dots = 1 => Last(s) # ".")
    IN  /\ Len(n) = 3
        /\ T!First(s, {" "}) > Len(s) => T!format_83_name(s) = n
        /\ fits => /\ T!Shown(n) = T!Capital(s)
                   /\ T!to_83(T!Shown(n)) = n
        /\ T!cmd_find(n, t) <=> T!strstr(T!Shown(n), t) # <<>>

(* stat shows the day and the minute that the clock gave, if they exist.   *)
DateRight(y, m, d, h, s) ==
    LET r == T!cmd_stat(T!fat_date_now(y, m, d), T!fat_time_now(h, s, s))
    IN  /\ r.year = 2000 + T!rtc_read_reg(y)
        /\ m = 18 => r.mon = 12
        /\ r.mon \in 1 .. 12 /\ r.day \in 1 .. 31
        /\ d = 37 => r.day = 25
        /\ r.hour = T!rtc_read_reg(h) /\ r.min = T!rtc_read_reg(s)

(* wget finds the three words of its line.                                 *)
WgetRight(s) ==
    LET three == T!Tokens(s, {" "}) IN
    Len(three) = 3 /\ Last(s) # " " /\ s[1] # " " =>
        T!cmd_wget(s, 9, 9, 9) = three

(* The string functions do what their headers say: copies stay in their    *)
(* buffers and tell when they did not fit, splitting, counting, replacing, *)
(* paths and sorting agree with each other.                                *)
TextsRight ==
    CASE arg.op = "move"    -> MoveRight(arg.d, arg.s, arg.n)
      [] arg.op = "copy"    -> CopyRight(arg.s, arg.t, arg.n)
      [] arg.op = "split"   -> SplitRight(arg.s, arg.n)
      [] arg.op = "replace" -> ReplaceRight(arg.s, arg.t, arg.u, arg.n)
      [] arg.op = "path"    -> PathRight(arg.s)
      [] arg.op = "join"    -> JoinRight(arg.s, arg.t, arg.n)
      [] arg.op = "sort"    -> SortRight(arg.s)
      [] arg.op = "lines"   -> LinesRight(arg.s)
      [] arg.op = "name"    -> NameRight(arg.s, arg.t)
      [] arg.op = "line"    -> WgetRight(arg.s)
      [] arg.op = "date"    -> DateRight(arg.y, arg.m, arg.d, arg.h, arg.s)
      [] OTHER              -> TRUE

-----------------------------------------------------------------------------
Clamp(x, lo, hi) == IF x < lo THEN lo ELSE IF x > hi THEN hi ELSE x
Fits(r, exact, lo, hi) ==
    r.over = (exact \notin lo .. hi) /\ (~r.over => r.out = exact)
Power[a \in 0 .. 255, n \in 0 .. 300] ==
    IF n = 0 THEN 1 ELSE T!U(a * Power[a, n - 1])

(* The result is exact or reported, clamped where it should be, for words  *)
(* with and without a sign; the one pair left out is a number minus the    *)
(* smallest one.                                                           *)
PairRight(a, b) ==
    LET x == T!S(a)
        y == T!S(b)
        g == T!gcd[a, b]
    IN  /\ Fits(T!slibc_add_overflow_u64(a, b), a + b, 0, 255)
        /\ Fits(T!slibc_mul_overflow_u64(a, b), a * b, 0, 255)
        /\ Fits(T!slibc_add_overflow_i64(x, y), x + y, -128, 127)
        /\ Fits(T!slibc_mul_overflow_i64(x, y), x * y, -128, 127)
        /\ T!slibc_sat_add_u64(a, b) = Clamp(a + b, 0, 255)
        /\ T!slibc_sat_sub_u64(a, b) = Clamp(a - b, 0, 255)
        /\ T!slibc_sat_add_i64(x, y) = Clamp(x + y, -128, 127)
        /\ y # -128 => T!slibc_sat_sub_i64(x, y) = Clamp(x - y, -128, 127)
        /\ a > 0 /\ b > 0 =>
               /\ a % g = 0 /\ b % g = 0
               /\ T!slibc_lcm(a, b) * g = IF (a * b) \div g > 255 THEN 0 ELSE a * b
        /\ x >= 0 /\ y > 0 /\ x + y - 1 <= 127 =>
               LET q == T!slibc_div_round_up(x, y) IN
               q * y >= x /\ (q - 1) * y < x
        /\ b <= 16 => T!slibc_pow_u64(a, b) = Power[a, b]
        /\ T!slibc_reverse_byte(a) = T!slibc_reverse_bits(a)
        /\ T!slibc_hex_decode(T!slibc_hex_encode(<<a, b>>), 4) = <<a, b>>
        /\ T!strtoll(<<42, 40>> \o T!slibc_u64_to_dec(a), 10).v = T!S(- a)
        /\ T!strtoll(<<0, 33>> \o T!slibc_u64_to_hex(b), 0).v = y
        /\ T!__strtoll_base(<<42, 40>> \o T!slibc_u64_to_dec(a), 10, FALSE).v = T!S(- a)
        /\ T!U(T!__strtoll_base(<<0, 33>> \o T!slibc_u64_to_hex(b), 0, TRUE).v) = b
        /\ T!__strtoll_base(<<42, 40, 99>>, 10, FALSE) = [v |-> 0, rest |-> <<40, 99>>]

Ones(v) == {i \in 0 .. 15 : (v \div 2^i) % 2 = 1}
WordRight(v, n) ==
    LET hi == Max(Ones(v) \union {-1})
        r  == N16!slibc_rotl64(v, n)
    IN  /\ N16!slibc_popcount(v) = Cardinality(Ones(v))
        /\ N16!slibc_log2_u64(v) = hi
        /\ v > 0 => /\ N16!slibc_round_down_pow2(v) = 2^hi
                    /\ v <= 32768 => LET u == N16!slibc_round_up_pow2(v) IN
                                     u >= v /\ u \div 2 < v /\ Cardinality(Ones(u)) = 1
        /\ Ones(N16!slibc_reverse_bits(v)) = {15 - i : i \in Ones(v)}
        /\ Ones(r) = {(i + n) % 16 : i \in Ones(v)}

(* A checksum taken in two parts is that of the whole, and a CRC tells     *)
(* texts apart that differ in one place.                                   *)
SumRight(s, t) ==
    /\ T!slibc_crc32_update(T!slibc_crc32_update(0, s), t) =
           T!slibc_crc32_update(0, s \o t)
    /\ T!slibc_adler32_update(T!slibc_adler32_update(1, s), t) =
           T!slibc_adler32_update(1, s \o t)
    /\ \A i \in DOMAIN s, x \in 0 .. 3 :
           x # s[i] => T!slibc_crc32_update(0, [s EXCEPT ![i] = x]) #
                       T!slibc_crc32_update(0, s)

(* What is printed reads back as the number, is as wide as was asked for   *)
(* and no wider than it has to be, and for %d both libraries print the     *)
(* same.                                                                   *)
FormatRight(f, v) ==
    LET x     == IF f.conv = "d" THEN T!S(v) ELSE v
        base  == IF f.conv = "p" THEN 16 ELSE T!Base(f.conv)
        user  == T!vsnprintf_One(f, x)
        slibc == T!slibc_vprintf_cb(IF f.conv = "p"
                                    THEN [f EXCEPT !.conv = "x", !.hash = TRUE]
                                    ELSE f, x)
        thin  == [f EXCEPT !.width = 0]
    IN  /\ \A o \in {user, slibc} :
               LET r == T!strtoll(o, base) IN
               /\ r.v = T!S(v)
               /\ \A i \in DOMAIN r.rest : r.rest[i] = 42
               /\ T!vsnprintf(o, 4).text = T!Take(o, 3)
        /\ Len(user) = Max({f.width, Len(T!vsnprintf_One(thin, x))})
        /\ T!__strtoll_base(user, base, FALSE) = T!strtoll(user, base)
        /\ f.conv = "d" => user = slibc
        /\ \A p \in {-1, 1, 9} :
               LET s == T!_emit_str([f EXCEPT !.prec = p], <<1, 2>>) IN
               Len(s) = Max({f.width, IF p = 1 THEN 1 ELSE 2})

(* Every number of a range is drawn equally often from all words.          *)
RangeRight(n) ==
    LET Draws(y) == Cardinality({x \in 0 .. 255 : T!slibc_rng_range(x, 3, 3 + n) = <<y>>})
    IN  \A y \in 3 .. 2 + n : Draws(y) = Draws(3) /\ Draws(y) > 0

(* Arithmetic is exact or says so, and numbers, digits, checksums and      *)
(* random numbers agree with each other.                                   *)
NumbersRight ==
    CASE arg.op = "pair"   -> PairRight(arg.a, arg.b)
      [] arg.op = "word"   -> WordRight(arg.v, arg.n)
      [] arg.op = "sum"    -> SumRight(arg.s, arg.t)
      [] arg.op = "format" -> FormatRight(arg.f, arg.v)
      [] arg.op = "range"  -> RangeRight(arg.n)
      [] OTHER             -> TRUE

(* All of them at once.                                                    *)
CallsRight == TextsRight /\ NumbersRight

(* Pictures come out of their files as they were written, whatever the     *)
(* format, the depth and the way they were packed; what is cut short or    *)
(* damaged is refused, or shown as far as it goes; a picture that was      *)
(* scaled has no colours it had not (zlib_inflate, png_decode, bmp_decode, *)
(* tga_decode, pcx_decode, qoi_decode, jpeg_decode, image_scale).  Figures *)
(* on the screen are whole, and cut off at its edges (fbdev.c, gfx.c).     *)
(* Left open is what code and comments disagree on: codes that leave room  *)
(* (inflate.c:77) and the transparent grey of a PNG (png.c:11).            *)
PicturesRight ==
    CASE arg.op = "codes"   -> Z!CodesRight(arg.s)
      [] arg.op = "inflate" -> Z!InflateRight(arg.k, arg.s, arg.n, arg.cut)
      [] arg.op = "png"     -> M!PngRight(arg.h, arg.head, arg.s, arg.n, arg.t, arg.bad)
      [] arg.op = "paeth"   -> M!paeth(arg.a, arg.b, arg.c) = M!Nearest(arg.a, arg.b, arg.c)
      [] arg.op = "passes"  -> M!PassesRight(arg.w, arg.h, arg.n)
      [] arg.op = "bmp"     -> M!BmpRight(arg.w, arg.h, arg.bpp, arg.s, arg.top)
      [] arg.op = "rle"     -> M!RleRight(arg.bpp, arg.w, arg.h, arg.t)
      [] arg.op = "tga"     -> M!TgaRight(arg.w, arg.h, arg.bpp, arg.s, arg.top, arg.right)
      [] arg.op = "pcx"     -> M!PcxRight(arg.w, arg.h, arg.s)
      [] arg.op = "qoi"     -> M!QoiRight(arg.s, arg.w)
      [] arg.op = "scale"   -> M!ScaleRight(arg.w, arg.h, arg.a, arg.b, arg.s)
      [] arg.op = "header"  -> M!RefusedRight(arg.k, arg.p)
      [] arg.op = "jpeg"    -> J!JpegRight(arg.w, arg.h, arg.p, arg.d, arg.k, arg.v, arg.n,
                                           arg.cut)
      [] arg.op = "refuse"  -> J!RefusesRight(
                                  [w |-> arg.w, h |-> arg.h,
                                   hmax |-> 4, vmax |-> 4,
                                   comps |-> [i \in 1 .. Len(arg.p) |->
                                      [id |-> i, hs |-> arg.p[i][1], vs |-> arg.p[i][2],
                                       tq |-> 0]]], arg.lacks)
      [] arg.op = "idct"    -> J!IdctRight(arg.dc, arg.k, arg.v)
      [] arg.op = "colour"  -> J!ColourRight(arg.y, arg.b, arg.r)
      [] arg.op = "edges"   -> D!EdgesRight(arg.k, arg.x, arg.y, arg.w, arg.h)
      [] arg.op = "figure"  -> D!FigureRight(arg.k, arg.x, arg.y, arg.w, arg.h)
      [] arg.op = "layer"   -> D!LayerRight(arg.x, arg.y, arg.w, arg.h, arg.key)
      [] arg.op = "ask"     -> J!ZigzagRight /\ J!CosinesRight
      [] OTHER              -> TRUE

(* The ring is a queue for two threads; one thread at a time holds a lock, *)
(* and no wake-up that a sleeper waits for passes it by; bitmap, list and  *)
(* builder hold what was put into them, a stream reads back what was       *)
(* written to it, the server finds nothing wrong with the handshake, and a *)
(* frame that is shown stays whole while the next one is drawn.            *)
StoresRight ==
    CASE part = "ring"    -> R!RingTypeOK /\ R!FirstInFirstOut
      [] part = "pair"    -> /\ R!ThreadTypeOK /\ R!MutualExclusion /\ R!TableTrue
                             /\ R!WokenUp /\ R!SleepersKnown
      [] part = "crowd"   -> /\ X!ThreadTypeOK /\ X!MutualExclusion /\ X!TableTrue
                             /\ X!WokenUp /\ X!SleepersKnown
      [] part = "bitmap"  -> C!BitsFound
      [] part = "list"    -> C!ListLinked
      [] part = "builder" -> C!TextKept
      [] part = "stdio"   -> I!TypeOK /\ I!StreamTrue
      [] part = "tls"     -> H!HandshakeAgrees
      [] part = "pages"   -> D!PagesApart /\ D!FramesWhole
      [] OTHER            -> TRUE
=============================================================================
