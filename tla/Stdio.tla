------------------------------- MODULE Stdio -------------------------------
(* The buffered streams of user/libc.c on top of read, write and lseek,    *)
(* which may give less than was asked for, or fail.                        *)
EXTENDS Integers, Sequences

LOCAL INSTANCE SequencesExt
LOCAL INSTANCE FiniteSetsExt

CONSTANTS BUFSIZ,
          Bytes, Newline,     \* what a file is made of
          Chunks,             \* what a program writes at once
          MaxFile, MaxAsk     \* bounds: size of the file, bytes asked for

VARIABLES file, pos,      \* the file and the position of its descriptor
          fds,            \* descriptors that are open
          F,              \* the FILE: flags, bytes to write, bytes unread
          view,           \* the file and the position the program believes in
          out, want,      \* the last bytes read, and those at that position
          cut             \* a write was cut short, or failed

vars == <<file, pos, fds, F, view, out, want, cut>>

Free == [flags |-> {}, wbuf |-> <<>>, rbuf |-> <<>>]
Stream(flags) == [Free EXCEPT !.flags = flags]
isopen == F.flags # {}
(* Bytes over a text from a place on; a gap appears only after a write that*)
(* was cut short.                                                          *)
Over(text, at, s) ==
    SubSeq(text, 1, Min({at, Len(text)})) \o s \o SubSeq(text, at + Len(s) + 1, Len(text))
Rest(text, at, n) == SubSeq(text, at + 1, Min({at + n, Len(text)}))

(* Either stdout, which is not buffered, or nothing is open.               *)
Init ==
    /\ file = <<>> /\ pos = 0 /\ fds = 0
    /\ F \in {Free, Stream({"write", "strm"})}
    /\ view = [text |-> <<>>, pos |-> 0]
    /\ out = <<>> /\ want = <<>> /\ cut = FALSE

(* write: some of the bytes arrive, all of them, or none.                  *)
Written(s, n) ==
    /\ file' = Over(file, pos, SubSeq(s, 1, n))
    /\ pos' = pos + n
    /\ cut' = (cut \/ n < Len(s))
Counts(s) == {0, Len(s) - 1, Len(s)} \intersect 0 .. Len(s)

-----------------------------------------------------------------------------
(* The pool has one FILE here: without it the descriptor is closed again.  *)
fopen(modes) ==
    /\ "strm" \notin F.flags
    /\ IF isopen THEN UNCHANGED <<F, fds, pos, view>>
       ELSE /\ F' = Stream(modes)
            /\ fds' = fds + 1
            /\ pos' = 0
            /\ view' = [text |-> file, pos |-> 0]
    /\ out' = <<>> /\ want' = <<>>
    /\ cut' = (cut /\ isopen)
    /\ UNCHANGED file

(* What waits is handed over; whatever did not fit is given up, and only a *)
(* write that fails (n = 0) leaves a mark.                                 *)
Flushed(f, n) ==
    IF "write" \notin f.flags \/ f.wbuf = <<>> THEN f
    ELSE [f EXCEPT !.wbuf = <<>>,
                   !.flags = IF n = 0 THEN @ \union {"err"} ELSE @]
fflush ==
    \E n \in Counts(F.wbuf) :
        /\ F' = Flushed(F, n)
        /\ Written(F.wbuf, n)
        /\ UNCHANGED <<fds, view, out, want>>

fclose ==
    /\ isopen /\ "strm" \notin F.flags
    /\ \E n \in Counts(F.wbuf) : Written(F.wbuf, n)
    /\ F' = Free
    /\ fds' = fds - 1
    /\ UNCHANGED <<view, out, want>>

(* A stream writes at once.  Otherwise the buffer takes what it has room   *)
(* for and is flushed when it is full; a chunk is no longer than the       *)
(* buffer.  A program that has read ahead seeks before it writes.          *)
fwrite(s) ==
    /\ "write" \in F.flags /\ F.rbuf = <<>>
    /\ view.pos + Len(s) <= MaxFile
    /\ view' = [text |-> Over(view.text, view.pos, s),
                pos  |-> view.pos + Len(s)]
    /\ IF "strm" \in F.flags
       THEN \E n \in Counts(s) :
                /\ Written(s, n)
                /\ F' = [F EXCEPT !.flags = IF n = 0 THEN @ \union {"err"} ELSE @]
       ELSE LET all == F.wbuf \o s
                k   == (Len(all) \div BUFSIZ) * BUFSIZ
            IN  \E n \in Counts(SubSeq(all, 1, k)) :
                    /\ Written(SubSeq(all, 1, k), n)
                    /\ F' = [Flushed([F EXCEPT !.wbuf = SubSeq(all, 1, k)], n)
                             EXCEPT !.wbuf = IF k > 0 /\ n = 0 THEN <<>>
                                             ELSE SubSeq(all, k + 1, Len(all))]
    /\ UNCHANGED <<fds, out, want>>

-----------------------------------------------------------------------------
readable == "read" \in F.flags /\ "eof" \notin F.flags /\ F.wbuf = <<>>
(* The program has got s.                                                  *)
Got(s) ==
    /\ out' = s
    /\ want' = Rest(view.text, view.pos, Len(s))
    /\ view' = [view EXCEPT !.pos = @ + Len(s)]

(* First what is left in the buffer, then the file, read by read, to the   *)
(* end or an error.                                                        *)
fread(n) ==
    /\ readable
    /\ LET k == Min({n, Len(F.rbuf)})
           r == Rest(file, pos, n - k)
       IN  \E m \in {0, Len(r)} :
               /\ Got(SubSeq(F.rbuf, 1, k) \o SubSeq(r, 1, m))
               /\ pos' = pos + m
               /\ F' = [F EXCEPT !.rbuf = SubSeq(@, k + 1, Len(@)),
                                 !.flags = @ \union
                                     IF m < Len(r) THEN {"err"}
                                     ELSE IF m < n - k THEN {"eof"} ELSE {}]
    /\ UNCHANGED <<file, fds, cut>>

(* fgetc over and over, to a newline, the end or a full buffer: each refill*)
(* may bring less than the buffer holds.  What was asked for last decides  *)
(* how much more has been read.                                            *)
fgets(n) ==
    /\ readable /\ n > 1
    /\ LET all  == F.rbuf \o Rest(file, pos, Len(file))
           line == Min({i \in DOMAIN all : all[i] = Newline}
                       \union {n - 1, Len(all)})
           low  == Max({line - Len(F.rbuf), 0})
       IN  \E m \in low .. Min({low + BUFSIZ - 1, Len(file) - pos}) :
               /\ m = low \/ low > 0      \* nothing was read
               /\ Got(SubSeq(all, 1, line))
               /\ pos' = pos + m
               /\ F' = [F EXCEPT
                        !.rbuf = SubSeq(all, line + 1, Len(F.rbuf) + m),
                        !.flags = @ \union
                            IF line = Len(all) /\ line < n - 1
                               /\ (line = 0 \/ all[line] # Newline)
                            THEN {"eof"} ELSE {}]
    /\ UNCHANGED <<file, fds, cut>>

(* SEEK_SET and SEEK_END; the descriptor is moved, whatever was unread is  *)
(* forgotten.                                                              *)
fseek(offset, from_end) ==
    /\ isopen /\ "strm" \notin F.flags
    /\ \E n \in Counts(F.wbuf) :
           LET f == Over(file, pos, SubSeq(F.wbuf, 1, n))
               p == IF from_end THEN Len(f) + offset ELSE offset
           IN  /\ p \in 0 .. Len(f)
               /\ file' = f
               /\ pos' = p
               /\ cut' = (cut \/ n < Len(F.wbuf))
               /\ F' = [Flushed(F, n) EXCEPT !.rbuf = <<>>, !.flags = @ \ {"eof"}]
               /\ view' = [view EXCEPT !.pos = p]
    /\ UNCHANGED <<fds, out, want>>
ftell == pos - Len(F.rbuf)
clearerr ==
    /\ isopen
    /\ F' = [F EXCEPT !.flags = @ \ {"eof", "err"}]
    /\ UNCHANGED <<file, pos, fds, view, out, want, cut>>

Next ==
    \/ \E modes \in {{"read"}, {"write"}, {"read", "write"}} : fopen(modes)
    \/ fflush \/ fclose \/ clearerr
    \/ \E s \in Chunks : fwrite(s)
    \/ \E n \in 1 .. MaxAsk : fread(n) \/ fgets(n)
    \/ \E k \in 0 .. MaxFile, e \in BOOLEAN : fseek(IF e THEN - k ELSE k, e)

-----------------------------------------------------------------------------
TypeOK ==
    /\ file \in Seq(Bytes) /\ pos \in 0 .. Len(file)
    /\ F.flags \subseteq {"read", "write", "strm", "eof", "err"}
    /\ Len(F.wbuf) < BUFSIZ /\ Len(F.rbuf) < BUFSIZ
    /\ fds = IF isopen /\ "strm" \notin F.flags THEN 1 ELSE 0

(* As long as every write was taken in full, the program reads what it     *)
(* wrote, the file and the two buffers together are the file it believes   *)
(* in, and ftell tells its position when nothing waits to be written.      *)
StreamTrue ==
    ~cut => /\ out = want
            /\ Over(file, pos, F.wbuf) = view.text
            /\ isopen /\ F.wbuf = <<>> => ftell = view.pos
            /\ isopen => view.pos = pos + Len(F.wbuf) - Len(F.rbuf)
=============================================================================
