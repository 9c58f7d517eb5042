-------------------------------- MODULE Draw --------------------------------
(***************************************************************************)
(* Drawing on the screen.  A surface is a screen of w columns and h rows   *)
(* that is on or not; px gives every pixel one colour channel (the three   *)
(* of a colour are computed alike).  The functions of fbdev.c and the      *)
(* sprite and tile calls of gfx.c are operators from surface to surface.   *)
(*                                                                         *)
(* The second part is what the two know of the display: fbdev.c sets its   *)
(* mode; gfx.c keeps two pages of it, draws on the one that is not shown   *)
(* and flips.                                                              *)
(***************************************************************************)
EXTENDS Integers, Sequences, SequencesExt, FiniteSetsExt

CONSTANTS
    fb_modes,   \* the modes fb_enable tries, in that order
    Accepted,   \* those the hardware takes
    Lines,      \* lines of video memory
    MaxFrames   \* bound: frames drawn

VARIABLES
    mode,       \* [on, h]: whether fb_enable has succeeded, and its height
    y_offset,   \* the first line the hardware shows
    front_page_y, back_page_y, db_initialised,
    video,      \* line -> the frame it was last painted with; 0: by others
    frame,      \* the frames drawn so far
    shows,      \* the frame the latest flip showed, or 0 if others drew since
    moved       \* the mode was set anew and the pages were not derived again

drawVars == <<mode, y_offset, front_page_y, back_page_y, db_initialised, video, frame,
              shows, moved>>

-----------------------------------------------------------------------------
(* The quotient of C, which rounds towards zero.                           *)
Quot(a, b) == IF a >= 0 THEN a \div b ELSE - ((- a) \div b)

Area(w, h) == (0 .. w - 1) \X (0 .. h - 1)

(* The part of a rectangle that is on the screen.                          *)
Clip(s, x, y, w, h) ==
    {p \in DOMAIN s.px : x <= p[1] /\ p[1] < x + w /\ y <= p[2] /\ p[2] < y + h}

(* Pixels of A get the colours of c.                                       *)
Painted(s, A, c) == [s EXCEPT !.px = [p \in DOMAIN @ |-> IF p \in A THEN c[p] ELSE @[p]]]
Plain(A, c) == [p \in A |-> c]

fb_blend(dst, src, alpha) == dst + ((src - dst) * alpha) \div 256

On(s, x, y) == s.on /\ <<x, y>> \in DOMAIN s.px
fb_put_pixel(s, x, y, c) == IF On(s, x, y) THEN [s EXCEPT !.px[<<x, y>>] = c] ELSE s
fb_get_pixel(s, x, y) == IF On(s, x, y) THEN s.px[<<x, y>>] ELSE 0

(* The two corners of the rectangle, each moved to the edge of the screen. *)
fb_fill_rect(s, x, y, w, h, c) ==
    IF ~s.on \/ x + w <= 0 \/ y + h <= 0 \/ x >= s.w \/ y >= s.h THEN s
    ELSE LET x0 == Max({x, 0})   x1 == Min({x + w, s.w})
             y0 == Max({y, 0})   y1 == Min({y + h, s.h})
         IN  Painted(s, (x0 .. x1 - 1) \X (y0 .. y1 - 1),
                     Plain((x0 .. x1 - 1) \X (y0 .. y1 - 1), c))
fb_draw_hline(s, x, y, w, c) == fb_fill_rect(s, x, y, w, 1, c)
fb_draw_vline(s, x, y, h, c) == fb_fill_rect(s, x, y, 1, h, c)

(* A gradient that ends one step short of its second colour.               *)
Between_Short(ca, cb, i, n) == IF n > 1 THEN ca + Quot((cb - ca) * i, n) ELSE ca
(* From ca to cb over n steps, at step i.                                  *)
Between(ca, cb, i, n) == IF n > 1 THEN ca + Quot((cb - ca) * i, n - 1) ELSE ca
fb_fill_gradient_h(s, x, y, w, h, ca, cb) ==
    IF ~s.on \/ w <= 0 \/ h <= 0 THEN s
    ELSE LET A == Clip(s, x, y, w, h) IN
         Painted(s, A, [p \in A |-> Between(ca, cb, p[1] - x, w)])
fb_fill_gradient_v(s, x, y, w, h, ca, cb) ==
    IF ~s.on \/ w <= 0 \/ h <= 0 THEN s
    ELSE LET A == Clip(s, x, y, w, h) IN
         Painted(s, A, [p \in A |-> Between(ca, cb, p[2] - y, h)])

(* Darkest in the first row that is on the screen.                         *)
fb_draw_shadow(s, x, y, w, h) ==
    LET A == Clip(s, x, y, w, h)
        inv(row) == 256 - Max({30, 140 - (row - Max({y, 0})) * 2})
    IN  IF s.on THEN Painted(s, A, [p \in A |-> (s.px[p] * inv(p[2])) \div 256]) ELSE s

fb_draw_rect(s, x, y, w, h, c) ==
    LET A == {p \in DOMAIN s.px :
                 \/ p[1] \in x .. x + w - 1 /\ p[2] \in {y, y + h - 1}
                 \/ p[2] \in y .. y + h - 1 /\ p[1] \in {x, x + w - 1}}
    IN  IF s.on THEN Painted(s, A, Plain(A, c)) ELSE s

(* Where Bresenham's line is after n pixels; it stays at its end.          *)
Steps(x0, y0, x1, y1) ==
    LET dx == Max({x1 - x0, x0 - x1})
        dy == Max({y1 - y0, y0 - y1})
        at[n \in 0 .. 2 * (dx + dy)] ==
            IF n = 0 THEN [x |-> x0, y |-> y0, err |-> dx - dy]
            ELSE LET o  == at[n - 1]
                     h  == 2 * o.err > - dy
                     v  == 2 * o.err < dx
                 IN  IF o.x = x1 /\ o.y = y1 THEN o
                     ELSE [x   |-> IF ~h THEN o.x ELSE IF x0 < x1 THEN o.x + 1 ELSE o.x - 1,
                           y   |-> IF ~v THEN o.y ELSE IF y0 < y1 THEN o.y + 1 ELSE o.y - 1,
                           err |-> o.err - (IF h THEN dy ELSE 0) + (IF v THEN dx ELSE 0)]
    IN  at
fb_draw_line(s, x0, y0, x1, y1, c) ==
    LET at == Steps(x0, y0, x1, y1)
        A  == {<<at[n].x, at[n].y>> : n \in DOMAIN at} \intersect DOMAIN s.px
    IN  IF s.on THEN Painted(s, A, Plain(A, c)) ELSE s

-----------------------------------------------------------------------------
(* Four pixels of radius, less in small rectangles.                        *)
Radius(w, h) ==
    LET a == IF w < 10 THEN Quot(w, 2) - 1 ELSE 4
        b == IF h < a * 2 + 2 THEN Quot(h, 2) - 1 ELSE a
    IN  Max({b, 1})

(* Pixels of q, one after the other, each mixed with c as it says.         *)
Mixed(s, q, c) ==
    FoldLeft(LAMBDA t, e : fb_put_pixel(t, e[1], e[2],
                               fb_blend(fb_get_pixel(t, e[1], e[2]), c, e[3])), s, q)

fb_draw_rounded_rect(s, x, y, w, h, c) ==
    LET r == Radius(w, h)
        e == fb_draw_vline(
                 fb_draw_vline(
                     fb_draw_hline(fb_draw_hline(s, x + r, y, w - r * 2, c),
                                   x + r, y + h - 1, w - r * 2, c),
                     x, y + r, h - r * 2, c),
                 x + w - 1, y + r, h - r * 2, c)
        Corners(i) ==
            LET outer == 255 - ((r - i) * 255) \div r
                inner == ((r - i) * 200) \div r
                l == x + i                 m == x + r - i - 1
                n == x + w - r + i         o == x + w - 1 - i
            IN  << <<l, y + r - i - 1, outer>>, <<m, y + i, inner>>,
                   <<o, y + r - i - 1, outer>>, <<n, y + i, inner>>,
                   <<l, y + h - r + i, outer>>, <<m, y + h - 1 - i, inner>>,
                   <<o, y + h - r + i, outer>>, <<n, y + h - 1 - i, inner>> >>
    IN  IF s.on THEN Mixed(e, FlattenSeq([i \in 1 .. r |-> Corners(i - 1)]), c) ELSE s

(* Three bands; then row by row of the corners, with the pixel at the edge *)
(* of each mixed with what was there.                                      *)
CornerRow(s, x, y, w, h, c, r, dy) ==
    LET fy == r - dy
        fx == Max({0} \union {f \in 1 .. r : f * f + fy * fy <= r * r})
        rx == r - fx
        t  == fb_fill_rect(fb_fill_rect(s, x + rx, y + dy, w - rx * 2, 1, c),
                           x + rx, y + h - 1 - dy, w - rx * 2, 1, c)
        Mix(u, a, b) == fb_put_pixel(u, a, b,
                            fb_blend(fb_get_pixel(t, a, b), c, (fx * 180) \div r))
    IN  Mix(Mix(Mix(Mix(t, x + rx - 1, y + dy), x + w - rx, y + dy),
                x + rx - 1, y + h - 1 - dy), x + w - rx, y + h - 1 - dy)
fb_fill_rounded_rect(s, x, y, w, h, c) ==
    LET r == Radius(w, h)
        t == fb_fill_rect(
                 fb_fill_rect(fb_fill_rect(s, x, y + r, w, h - r * 2, c),
                              x + r, y, w - r * 2, r, c),
                 x + r, y + h - r, w - r * 2, r, c)
    IN  IF s.on
        THEN FoldLeftDomain(LAMBDA u, i : CornerRow(u, x, y, w, h, c, r, i - 1), t,
                            [i \in 1 .. r |-> i])
        ELSE s

-----------------------------------------------------------------------------
(* Copies: what is cut off on the left and above is skipped in the source, *)
(* whose lines are stride pixels long; a pixel of the colour key (-1:      *)
(* none) is left out.                                                      *)
Copied(s, dx, dy, w, h, src, stride, key) ==
    LET left == Max({0, - dx})                  top == Max({0, - dy})
        x0 == dx + left                         y0 == dy + top
        cw == Min({w - left, s.w - x0})         ch == Min({h - top, s.h - y0})
        Source(p) == src[(top + p[2] - y0) * stride + left + p[1] - x0]
        A == {p \in (x0 .. x0 + cw - 1) \X (y0 .. y0 + ch - 1) : Source(p) # key}
    IN  Painted(s, A, [p \in A |-> Source(p)])
fb_blit(s, dx, dy, w, h, src, stride) ==
    IF ~s.on \/ dx + w <= 0 \/ dy + h <= 0 \/ dx >= s.w \/ dy >= s.h THEN s
    ELSE Copied(s, dx, dy, w, h, src, stride, -1)
(* The key of the call, or else the one that was set before.               *)
sys_gfx_blit(s, dx, dy, w, h, src, key, global) ==
    IF ~s.on \/ w <= 0 \/ h <= 0 THEN s
    ELSE Copied(s, dx, dy, w, h, src, w, IF key # -1 THEN key ELSE global)

(* A layer: tiles of tw by th pixels one after the other in tileset, and a *)
(* map of map_w by map_h of their numbers (-1: empty).                     *)
Tile(tm, id) == [i \in 0 .. tm.tw * tm.th - 1 |-> tm.tileset[id * tm.tw * tm.th + i]]
sys_gfx_draw_tile(s, tm, x, y, id, global) ==
    IF id >= tm.count THEN s
    ELSE sys_gfx_blit(s, x, y, tm.tw, tm.th, Tile(tm, id), -1, global)
sys_gfx_render_layer(s, tm, sx, sy, global) ==
    LET tx0 == Max({0, Quot(sx, tm.tw)})
        ty0 == Max({0, Quot(sy, tm.th)})
        tx1 == Min({tm.map_w, Quot(sx + s.w + tm.tw - 1, tm.tw)}) - 1
        ty1 == Min({tm.map_h, Quot(sy + s.h + tm.th - 1, tm.th)}) - 1
        Drawn(t, q) ==
            LET id == tm.map[q[2] * tm.map_w + q[1]] IN
            IF id = -1 THEN t
            ELSE sys_gfx_draw_tile(t, tm, q[1] * tm.tw - sx, q[2] * tm.th - sy, id, global)
    IN  FoldLeft(Drawn, s, SetToSeq((tx0 .. tx1) \X (ty0 .. ty1)))

-----------------------------------------------------------------------------
(* The display.                                                            *)
NoMode == [on |-> FALSE, h |-> 0]

Blank == [l \in 0 .. Lines - 1 |-> 0]

DrawInit ==
    /\ mode = NoMode /\ y_offset = 0
    /\ front_page_y = 0 /\ back_page_y = 0 /\ db_initialised = FALSE
    /\ video = Blank
    /\ frame = 0 /\ shows = 0 /\ moved = FALSE

Visible == {l \in 0 .. Lines - 1 : y_offset <= l /\ l < y_offset + mode.h}

(* A mode of another width cuts the memory into other lines.  Writing the  *)
(* enable register shows it from the first one on.                         *)
fb_enable ==
    LET ok == SelectSeq(fb_modes, LAMBDA h : h \in Accepted) IN
    /\ ~mode.on /\ ok # <<>>
    /\ mode' = [on |-> TRUE, h |-> ok[1]] /\ y_offset' = 0
    /\ video' = Blank /\ shows' = 0 /\ moved' = db_initialised
    /\ UNCHANGED <<front_page_y, back_page_y, db_initialised, frame>>
fb_disable ==
    /\ mode.on
    /\ mode' = NoMode /\ shows' = 0
    /\ UNCHANGED <<y_offset, front_page_y, back_page_y, db_initialised, video, frame, moved>>

fb_set_resolution(h) ==
    /\ mode.on /\ h # mode.h
    /\ y_offset' = 0 /\ shows' = 0
    /\ IF h \in Accepted
       THEN /\ mode' = [on |-> TRUE, h |-> h] /\ video' = Blank
            /\ front_page_y' = 0 /\ back_page_y' = 0 /\ db_initialised' = FALSE
            /\ moved' = FALSE
       ELSE /\ moved' = db_initialised
            /\ UNCHANGED <<mode, video, front_page_y, back_page_y, db_initialised>>
    /\ UNCHANGED frame

(* The pages as they are once db_init has run.                             *)
BackPage == IF db_initialised THEN back_page_y ELSE mode.h
FrontPage == IF db_initialised THEN front_page_y ELSE 0
db_init == db_initialised' = TRUE /\ moved' = (moved /\ db_initialised)

(* A frame is painted on the back page.                                    *)
sys_gfx_clear ==
    /\ mode.on /\ frame < MaxFrames
    /\ db_init /\ frame' = frame + 1
    /\ y_offset' = IF db_initialised THEN y_offset ELSE 0
    /\ video' = [l \in DOMAIN video |-> IF BackPage <= l /\ l < BackPage + mode.h THEN frame + 1
                                        ELSE video[l]]
    /\ front_page_y' = FrontPage /\ back_page_y' = BackPage
    /\ UNCHANGED <<mode, shows>>

(* A flip that keeps the page it has shown as the one that is drawn on.    *)
sys_gfx_flip_NoSwap ==
    /\ mode.on
    /\ db_init
    /\ y_offset' = BackPage /\ front_page_y' = FrontPage /\ back_page_y' = BackPage
    /\ shows' = video[BackPage]
    /\ UNCHANGED <<mode, video, frame>>

sys_gfx_flip ==
    /\ mode.on
    /\ db_init
    /\ y_offset' = BackPage /\ front_page_y' = BackPage /\ back_page_y' = FrontPage
    /\ shows' = video[BackPage]
    /\ UNCHANGED <<mode, video, frame>>

(* The windows are drawn again, always from the first line on.             *)
gui_redraw ==
    /\ mode.on /\ shows' = 0
    /\ video' = [l \in DOMAIN video |-> IF l < mode.h THEN 0 ELSE video[l]]
    /\ UNCHANGED <<mode, y_offset, front_page_y, back_page_y, db_initialised, frame, moved>>

DrawNext ==
    \/ fb_enable \/ fb_disable
    \/ \E h \in Accepted \union {fb_modes[i] : i \in DOMAIN fb_modes} : fb_set_resolution(h)
    \/ sys_gfx_clear \/ sys_gfx_flip \/ gui_redraw
DrawSpec == DrawInit /\ [][DrawNext]_drawVars

-----------------------------------------------------------------------------
(* Once the pages are derived from the mode, the hardware shows the front  *)
(* one and the other is the one that is drawn on.                          *)
PagesApart ==
    mode.on /\ db_initialised /\ ~moved =>
        y_offset = front_page_y /\ {front_page_y, back_page_y} = {0, mode.h}

(* What a flip has shown stays as it was while the next frame is drawn.    *)
FramesWhole == shows # 0 /\ ~moved => \A l \in Visible : video[l] = shows

-----------------------------------------------------------------------------
(* The pictures.  Screen(w, h, m): w by h pixels with m more on each side, *)
(* of colours that tell neighbours apart.                                  *)
Screen(w, h, m) ==
    [on |-> TRUE, w |-> w + 2 * m, h |-> h + 2 * m,
     px |-> [p \in Area(w + 2 * m, h + 2 * m) |->
                40 + (((p[1] - m) * 7 + (p[2] - m) * 13) % 50)]]
Middle(s, w, h, m) == [p \in Area(w, h) |-> s.px[<<p[1] + m, p[2] + m>>]]

(* What is cut off by the edges changes nothing of the rest: a figure on   *)
(* the screen is the middle of the figure on a larger one.                 *)
Figure(op, s, x, y, w, h) ==
    CASE op = "fill"   -> fb_fill_rect(s, x, y, w, h, 200)
      [] op = "across" -> fb_fill_gradient_h(s, x, y, w, h, 10, 250)
      [] op = "down"   -> fb_fill_gradient_v(s, x, y, w, h, 250, 10)
      [] op = "frame"  -> fb_draw_rect(s, x, y, w, h, 200)
      [] op = "line"   -> fb_draw_line(s, x, y, x + w - 3, y + h - 3, 200)
      [] op = "round"  -> fb_draw_rounded_rect(s, x, y, w, h, 200)
      [] op = "full"   -> fb_fill_rounded_rect(s, x, y, w, h, 200)
      [] op = "blit"   -> fb_blit(s, x, y, w, h, [i \in 0 .. 600 |-> 100 + (i % 91)], w + 1)
      [] op = "sprite" -> sys_gfx_blit(s, x, y, w, h, [i \in 0 .. 600 |-> 100 + (i % 5)], -1, 102)
EdgesRight(op, x, y, w, h) ==
    LET small == Figure(op, Screen(6, 5, 0), x, y, w, h)
        large == Figure(op, Screen(6, 5, 16), x + 16, y + 16, w, h)
    IN  small.px = Middle(large, 6, 5, 16)

(* On a screen that holds them: a rectangle changes its pixels only, a     *)
(* gradient goes from one colour to the other and never back, a line is a  *)
(* path from end to end without a gap or a detour, and a rounded rectangle *)
(* is the same from both sides and from above and below.                   *)
Even(n) == [on |-> TRUE, w |-> n, h |-> n, px |-> [p \in Area(n, n) |-> 40]]
Changed(s, t) == {p \in DOMAIN s.px : s.px[p] # t.px[p]}
FigureRight(op, x, y, w, h) ==
    LET s == Even(16)
        t == Figure(op, s, x, y, w, h)
        A == (x .. x + w - 1) \X (y .. y + h - 1)
        Row(i) == [j \in 1 .. w |-> t.px[<<x + j - 1, y + i - 1>>]]
        Column(j) == [i \in 1 .. h |-> t.px[<<x + j - 1, y + i - 1>>]]
        Rising(q) == \A i \in 2 .. Len(q) : q[i - 1] <= q[i]
    IN  CASE op = "fill"   -> Changed(s, t) = A
          [] op = "frame"  -> Changed(s, t) = {p \in A : \/ p[1] \in {x, x + w - 1}
                                                         \/ p[2] \in {y, y + h - 1}}
          [] op = "across" -> \A i \in 1 .. h : /\ Rising(Row(i)) /\ Row(i) = Row(1)
                                                /\ Row(i)[1] = 10
                                                /\ (w > 1 => Row(i)[w] = 250)
          [] op = "down"   -> \A j \in 1 .. w : /\ Rising(Reverse(Column(j)))
                                                /\ Column(j)[1] = 250
                                                /\ (h > 1 => Column(j)[h] = 10)
          [] op = "line"   ->
                 LET P == Changed(s, t)
                     u == x + w - 3
                     v == y + h - 3
                     n == Max({w - 3, 3 - w, h - 3, 3 - h})
                 IN  /\ {<<x, y>>, <<u, v>>} \subseteq P /\ Cardinality(P) = n + 1
                     /\ \A p \in P \ {<<u, v>>} : \E q \in P \ {p} :
                            /\ q[1] - p[1] \in {-1, 0, 1} /\ q[2] - p[2] \in {-1, 0, 1}
                            /\ Max({q[1] - u, u - q[1], q[2] - v, v - q[2]}) <
                               Max({p[1] - u, u - p[1], p[2] - v, v - p[2]})
          [] op \in {"round", "full"} ->
                 /\ Changed(s, t) \subseteq A
                 /\ \A i \in 1 .. h : Row(i) = Reverse(Row(i)) /\ Row(i) = Row(h + 1 - i)
          [] OTHER         -> TRUE

(* Each pixel of a layer is that of the tile that is there, unless there   *)
(* is none or the pixel is the colour key.                                 *)
LayerRight(sx, sy, tw, th, key) ==
    LET s  == Screen(5, 4, 0)
        tm == [tw |-> tw, th |-> th, map_w |-> 3, map_h |-> 2, count |-> 2,
               map |-> [i \in 0 .. 5 |-> <<0, 1, -1, 1, 7, 0>>[i + 1]],
               tileset |-> [i \in 0 .. 2 * tw * th - 1 |-> 100 + i]]
        t  == sys_gfx_render_layer(s, tm, sx, sy, key)
        Shown(p) ==
            LET u == p[1] + sx
                v == p[2] + sy
                id == tm.map[(v \div th) * 3 + (u \div tw)]
                c == tm.tileset[id * tw * th + (v % th) * tw + (u % tw)]
            IN  IF u \notin 0 .. 3 * tw - 1 \/ v \notin 0 .. 2 * th - 1 THEN s.px[p]
                ELSE IF id \notin {0, 1} THEN s.px[p]
                ELSE IF c = key THEN s.px[p] ELSE c
    IN  \A p \in DOMAIN s.px : t.px[p] = Shown(p)
=============================================================================
