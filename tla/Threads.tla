------------------------------ MODULE Threads -------------------------------
(***************************************************************************)
(* What the threads of a program share.  The locks, conditions and joins   *)
(* of user/pthread.h are words that threads change with one instruction at *)
(* a time and sleep on in sys_futex (futex.c); a call of the kernel runs   *)
(* with interrupts masked, in one step.  SRing (libc/systrix_libc.c) is a  *)
(* ring between one thread that pushes and one that pops, without a lock:  *)
(* the order of the two accesses of each is all there is.                  *)
(*                                                                         *)
(* Nothing in the repository starts a second thread yet (sys_clone makes a *)
(* process with memory of its own); the model is of threads that share     *)
(* their memory, as pthread_create asks for.                               *)
(***************************************************************************)
EXTENDS Integers, Sequences, FiniteSets

CONSTANTS
    Threads,    \* the threads of the program
    Joiners,    \* those of them that join others
    SLOTS,      \* FUTEX_MAX_WAITERS (64)
    MaxCalls,   \* bound: signals and broadcasts
    cap,        \* slots of the ring, a power of two
    WORD,       \* where its 32-bit indices wrap
    Elems,      \* what is pushed
    MaxPush     \* bound: pushes

VARIABLES
    lock,       \* the word of the mutex: 0 free, 1 taken, 2 contended
    seq,        \* the word of the condition
    done,       \* thread -> its word for those who join it
    retval,     \* thread -> what it returned, or none
    futex_table,\* slot -> who sleeps there and on which word, or none
    at,         \* thread -> where it is
    c,          \* thread -> the word as it saw it last
    back,       \* thread -> where it goes on when it has woken others
    mine,       \* thread -> the number of its ticket or of its call
    whom,       \* thread -> whom it joins, or itself
    called      \* the latest broadcast that has woken its sleepers

lockVars == <<lock, c>>
condVars == <<seq, mine, called>>
joinVars == <<done, retval, whom>>
threadVars == <<lockVars, condVars, joinVars, futex_table, at, back>>

VARIABLES
    buf,        \* slot -> element
    head,       \* where the producer writes next, ever growing
    tail,       \* where the consumer reads next
    put,        \* the element the producer is about to publish, or none
    taken,      \* the element the consumer has copied, or none
    pushed, popped      \* everything that went in and came out

ringVars == <<buf, head, tail, put, taken, pushed, popped>>

-----------------------------------------------------------------------------
(* Sleeping and waking (sys_futex).  The word is read, the slot taken and  *)
(* the sleeper marked in one step; with another value in the word, or no   *)
(* slot, the call returns at once, and its callers do not look at why.     *)
(* The kernel compares eight bytes, where mutex and condition are four: by *)
(* what lies behind them it may return at once although they are right.    *)
(* Its timeout is what the system call entry left in rcx, an address and   *)
(* not the 0 of _futex: any sleep may end by itself.                       *)

Slots == 1 .. SLOTS
Words == {<<"lock">>, <<"seq">>} \union {<<"done", t>> : t \in Threads}
Nobody == [on |-> <<>>, who |-> {}]
Word(w) == IF w = <<"lock">> THEN lock ELSE IF w = <<"seq">> THEN seq ELSE done[w[2]]

(* Where threads sleep, on which word, and where they go on.               *)
Asleep == {"lockSleep", "condSleep", "joinSleep"}
WordOf(s, u) == IF s = "lockSleep" THEN <<"lock">>
                ELSE IF s = "condSleep" THEN <<"seq">> ELSE <<"done", u>>
After(s) == IF s = "lockSleep" THEN "again"
            ELSE IF s = "condSleep" THEN "relock" ELSE "join"

Goes(t, l) == at' = [at EXCEPT ![t] = l]

futex_alloc_slot(i) ==
    /\ futex_table[i] = Nobody
    /\ \A j \in Slots : j < i => futex_table[j] # Nobody

FutexWait(t, w, val, s) ==
    \/ /\ \/ Word(w) # val \/ w \in {<<"lock">>, <<"seq">>}
          \/ \A i \in Slots : futex_table[i] # Nobody
       /\ Goes(t, After(s)) /\ UNCHANGED futex_table
    \/ /\ Word(w) = val
       /\ \E i \in Slots :
              /\ futex_alloc_slot(i)
              /\ futex_table' = [futex_table EXCEPT ![i] = [on |-> w, who |-> {t}]]
       /\ Goes(t, s)

TimesOut(t) ==
    /\ at[t] \in Asleep
    /\ futex_table' = [i \in Slots |-> IF futex_table[i].who = {t} THEN Nobody
                                      ELSE futex_table[i]]
    /\ Goes(t, After(at[t]))
    /\ UNCHANGED <<lockVars, condVars, joinVars, back>>

(* The first of those who sleep on w, slot by slot, or all of them.        *)
Sleepers(w) == {i \in Slots : futex_table[i].on = w}
First(w) == {i \in Sleepers(w) : \A j \in Sleepers(w) : i <= j}

FutexWake(t, woken, l) ==
    /\ futex_table' = [i \in Slots |-> IF i \in woken THEN Nobody ELSE futex_table[i]]
    /\ at' = [u \in Threads |->
                 IF u = t THEN l
                 ELSE IF \E i \in woken : futex_table[i].who = {u} THEN After(at[u])
                 ELSE at[u]]

-----------------------------------------------------------------------------
(* The mutex.                                                              *)

(* lock cmpxchg from 0, which leaves in c what it found.                   *)
Cas(t, new, got, not) ==
    IF lock = 0 THEN lock' = new /\ Goes(t, got) /\ UNCHANGED c
    ELSE c' = [c EXCEPT ![t] = lock] /\ Goes(t, not) /\ UNCHANGED lock

pthread_mutex_trylock(t) ==
    /\ at[t] = "out" /\ lock = 0
    /\ lock' = 1 /\ Goes(t, "in")
    /\ UNCHANGED <<c, condVars, joinVars, futex_table, back>>

pthread_mutex_lock(t) ==
    /\ at[t] \in {"out", "relock"}
    /\ Cas(t, 1, "in", "slow")
    /\ UNCHANGED <<condVars, joinVars, futex_table, back>>

(* The slow path: trylock unless the word was 2 ...                        *)
Slow(t) ==
    /\ at[t] = "slow"
    /\ IF c[t] # 2 /\ lock = 0
       THEN lock' = 1 /\ Goes(t, "again")
       ELSE Goes(t, "mark") /\ UNCHANGED lock
    /\ UNCHANGED <<c, condVars, joinVars, futex_table, back>>
(* ... xchg with 2 ...                                                     *)
Mark(t) ==
    /\ at[t] = "mark"
    /\ lock' = 2 /\ c' = [c EXCEPT ![t] = lock]
    /\ Goes(t, IF lock # 0 THEN "sleep" ELSE "again")
    /\ UNCHANGED <<condVars, joinVars, futex_table, back>>
(* ... sleep while it is 2 ...                                             *)
Sleep(t) ==
    /\ at[t] = "sleep"
    /\ FutexWait(t, <<"lock">>, 2, "lockSleep")
    /\ UNCHANGED <<lockVars, condVars, joinVars, back>>
(* ... and cmpxchg from 0 to 2, or all over again.                         *)
Again(t) ==
    /\ at[t] = "again"
    /\ Cas(t, 2, "in", "slow")
    /\ UNCHANGED <<condVars, joinVars, futex_table, back>>

(* xadd of -1; a word that was not 1 is set to 0 and a sleeper woken.      *)
Release(t, l) ==
    /\ lock' = lock - 1
    /\ Goes(t, IF lock = 1 THEN l ELSE "zero")
    /\ back' = [back EXCEPT ![t] = l]
    /\ UNCHANGED <<c, condVars, joinVars, futex_table>>
pthread_mutex_unlock(t) == at[t] = "in" /\ Release(t, "out")
Zero(t) ==
    /\ at[t] = "zero"
    /\ lock' = 0 /\ Goes(t, "wake")
    /\ UNCHANGED <<c, condVars, joinVars, futex_table, back>>
Wake(t) ==
    /\ at[t] = "wake"
    /\ FutexWake(t, First(<<"lock">>), back[t])
    /\ UNCHANGED <<lockVars, condVars, joinVars, back>>

-----------------------------------------------------------------------------
(* The condition.  A thread that waits reads the counter, releases the     *)
(* mutex, sleeps while the counter is what it was and locks again.         *)
pthread_cond_wait(t) ==
    /\ at[t] = "in"
    /\ mine' = [mine EXCEPT ![t] = seq] /\ Goes(t, "release")
    /\ UNCHANGED <<lockVars, seq, called, joinVars, futex_table, back>>
LetGo(t) == at[t] = "release" /\ Release(t, "wait")
Wait(t) ==
    /\ at[t] = "wait"
    /\ FutexWait(t, <<"seq">>, mine[t], "condSleep")
    /\ UNCHANGED <<lockVars, condVars, joinVars, back>>

(* Both raise the counter first, and wake one or all.                      *)
Raise(t, l) ==
    /\ at[t] \in {"out", "in"} /\ seq < MaxCalls
    /\ seq' = seq + 1 /\ mine' = [mine EXCEPT ![t] = seq + 1]
    /\ back' = [back EXCEPT ![t] = at[t]] /\ Goes(t, l)
    /\ UNCHANGED <<lockVars, called, joinVars, futex_table>>
pthread_cond_signal(t) == Raise(t, "signal")
pthread_cond_broadcast(t) == Raise(t, "broadcast")
WakeOne(t) ==
    /\ at[t] = "signal"
    /\ FutexWake(t, First(<<"seq">>), back[t])
    /\ UNCHANGED <<lockVars, condVars, joinVars, back>>
WakeAll(t) ==
    /\ at[t] = "broadcast"
    /\ FutexWake(t, Sleepers(<<"seq">>), back[t])
    /\ called' = IF mine[t] > called THEN mine[t] ELSE called
    /\ UNCHANGED <<lockVars, seq, mine, joinVars, back>>

-----------------------------------------------------------------------------
(* The end of a thread (_pthread_trampoline): its value, the word, a call. *)
Returns(t) ==
    /\ at[t] = "out"
    /\ retval' = [retval EXCEPT ![t] = {t}] /\ Goes(t, "returned")
    /\ UNCHANGED <<lockVars, condVars, done, whom, futex_table, back>>
Done(t) ==
    /\ at[t] = "returned"
    /\ done' = [done EXCEPT ![t] = 1] /\ Goes(t, "call")
    /\ UNCHANGED <<lockVars, condVars, retval, whom, futex_table, back>>
Call(t) ==
    /\ at[t] = "call"
    /\ FutexWake(t, Sleepers(<<"done", t>>), "ended")
    /\ UNCHANGED <<lockVars, condVars, joinVars, back>>

(* It looks at the word, sleeps while that is 0, and looks again.          *)
pthread_join(t, u) ==
    /\ t \in Joiners /\ at[t] = "out" /\ u # t
    /\ whom' = [whom EXCEPT ![t] = u] /\ Goes(t, "join")
    /\ UNCHANGED <<lockVars, condVars, done, retval, futex_table, back>>
Look(t) ==
    /\ at[t] = "join"
    /\ Goes(t, IF done[whom[t]] = 0 THEN "await" ELSE "joined")
    /\ UNCHANGED <<lockVars, condVars, joinVars, futex_table, back>>
Await(t) ==
    /\ at[t] = "await"
    /\ FutexWait(t, <<"done", whom[t]>>, 0, "joinSleep")
    /\ UNCHANGED <<lockVars, condVars, joinVars, back>>
Joined(t) ==
    /\ at[t] = "joined"
    /\ whom' = [whom EXCEPT ![t] = t] /\ Goes(t, "out")
    /\ UNCHANGED <<lockVars, condVars, done, retval, futex_table, back>>

-----------------------------------------------------------------------------
ThreadInit ==
    /\ lock = 0 /\ seq = 0 /\ called = 0
    /\ done = [t \in Threads |-> 0] /\ retval = [t \in Threads |-> {}]
    /\ futex_table = [i \in Slots |-> Nobody]
    /\ at = [t \in Threads |-> "out"] /\ back = [t \in Threads |-> "out"]
    /\ c = [t \in Threads |-> 0] /\ mine = [t \in Threads |-> 0]
    /\ whom = [t \in Threads |-> t]

Steps(t) ==
    \/ pthread_mutex_trylock(t) \/ pthread_mutex_lock(t) \/ Slow(t) \/ Mark(t)
    \/ Sleep(t) \/ Again(t) \/ pthread_mutex_unlock(t) \/ Zero(t) \/ Wake(t)
    \/ pthread_cond_wait(t) \/ LetGo(t) \/ Wait(t)
    \/ pthread_cond_signal(t) \/ pthread_cond_broadcast(t) \/ WakeOne(t) \/ WakeAll(t)
    \/ Returns(t) \/ Done(t) \/ Call(t)
    \/ \E u \in Threads : pthread_join(t, u)
    \/ Look(t) \/ Await(t) \/ Joined(t) \/ TimesOut(t)

ThreadNext == \E t \in Threads : Steps(t)
ThreadSpec == ThreadInit /\ [][ThreadNext]_threadVars

-----------------------------------------------------------------------------
Places == {"out", "in", "slow", "mark", "sleep", "again", "zero", "wake", "release",
           "wait", "relock", "signal", "broadcast", "returned", "call", "ended",
           "join", "await", "joined"} \union Asleep

ThreadTypeOK ==
    /\ lock \in 0 .. 2 /\ c \in [Threads -> 0 .. 2]
    /\ seq \in 0 .. MaxCalls /\ called \in 0 .. MaxCalls
    /\ mine \in [Threads -> 0 .. MaxCalls]
    /\ done \in [Threads -> {0, 1}]
    /\ retval \in [Threads -> SUBSET Threads]
    /\ whom \in [Threads -> Threads]
    /\ futex_table \in [Slots -> [on : Words, who : {{t} : t \in Threads}]
                                 \union {Nobody}]
    /\ at \in [Threads -> Places] /\ back \in [Threads -> {"out", "in", "wait"}]

(* The thread has taken the lock and has not given it back: an unlock that *)
(* found waiters gives it back when it writes 0.                           *)
Holds(t) ==
    \/ at[t] \in {"in", "release", "zero"}
    \/ at[t] \in {"signal", "broadcast"} /\ back[t] = "in"

(* Never two at a time.                                                    *)
MutualExclusion == \A t, u \in Threads : Holds(t) /\ Holds(u) => t = u

(* Whoever sleeps is in one slot, for the word it waits for, and whoever   *)
(* is in a slot sleeps.                                                    *)
AsleepOn(t) == WordOf(at[t], whom[t])
TableTrue ==
    /\ \A t \in Threads :
           at[t] \in Asleep <=> \E i \in Slots : futex_table[i].who = {t}
    /\ \A i \in Slots, t \in Threads :
           futex_table[i].who = {t} =>
               /\ futex_table[i].on = AsleepOn(t)
               /\ \A j \in Slots : futex_table[j].who = {t} => i = j

(* No broadcast passes over a sleeper that read the counter before it, and *)
(* nobody sleeps for a thread that has ended and made its call; a join     *)
(* returns when the value is there.                                        *)
WokenUp ==
    \A t \in Threads :
        /\ at[t] = "condSleep" => mine[t] >= called
        /\ at[t] = "joinSleep" => LET u == whom[t] IN
                                  done[u] = 0 \/ at[u] = "call"
        /\ at[t] = "joined" => retval[whom[t]] = {whom[t]}

(* While somebody sleeps on the mutex the word says so, or another thread  *)
(* is on its way to give it back or to take it.                            *)
SleepersKnown ==
    \A t \in Threads :
        at[t] = "lockSleep" =>
            \/ lock = 2
            \/ \E u \in Threads : at[u] \in {"zero", "wake", "again", "slow", "mark"}

-----------------------------------------------------------------------------
(* The ring.                                                               *)

slibc_ring_empty == head = tail
slibc_ring_full  == (head - tail) % WORD = cap
slibc_ring_count == (head - tail) % WORD
slibc_ring_peek  == buf[tail % cap]

RingInit ==
    /\ buf = [i \in 0 .. cap - 1 |-> CHOOSE e \in Elems : TRUE]
    /\ head = 0 /\ tail = 0
    /\ put = <<>> /\ taken = <<>>
    /\ pushed = <<>> /\ popped = <<>>

-----------------------------------------------------------------------------
(* A full ring gets it in place of the oldest.                             *)
slibc_ring_push_Over(e) ==
    /\ put = <<>> /\ Len(pushed) < MaxPush
    /\ (head - tail) % WORD <= cap
    /\ buf' = [buf EXCEPT ![head % cap] = e]
    /\ put' = <<e>>
    /\ UNCHANGED <<head, tail, taken, pushed, popped>>
(* The element goes into its slot; nobody sees it yet.                     *)
slibc_ring_push(e) ==
    /\ put = <<>> /\ Len(pushed) < MaxPush
    /\ ~slibc_ring_full
    /\ buf' = [buf EXCEPT ![head % cap] = e]
    /\ put' = <<e>>
    /\ UNCHANGED <<head, tail, taken, pushed, popped>>

(* r->head++ behind the barrier.                                           *)
Published ==
    /\ put # <<>>
    /\ head' = (head + 1) % WORD
    /\ pushed' = pushed \o put
    /\ put' = <<>>
    /\ UNCHANGED <<buf, tail, taken, popped>>

(* The consumer copies the oldest element ...                              *)
slibc_ring_pop ==
    /\ taken = <<>>
    /\ ~slibc_ring_empty
    /\ taken' = <<slibc_ring_peek>>
    /\ UNCHANGED <<buf, head, tail, put, pushed, popped>>

(* ... and then gives its slot back.                                       *)
Released ==
    /\ taken # <<>>
    /\ tail' = (tail + 1) % WORD
    /\ popped' = popped \o taken
    /\ taken' = <<>>
    /\ UNCHANGED <<buf, head, put, pushed>>

(* Everything is discarded, by agreement of both sides.                    *)
slibc_ring_clear ==
    /\ put = <<>> /\ taken = <<>>
    /\ head' = 0 /\ tail' = 0
    /\ popped' = pushed
    /\ UNCHANGED <<buf, put, taken, pushed>>

RingNext ==
    \/ \E e \in Elems : slibc_ring_push(e)
    \/ Published \/ slibc_ring_pop \/ Released \/ slibc_ring_clear

RingSpec == RingInit /\ [][RingNext]_ringVars

(* The capacity is a power of two, so it divides 2^32; it is less.         *)
RingAssumption ==
    /\ cap \in Nat \ {0} /\ WORD \in Nat /\ WORD % cap = 0 /\ cap < WORD
    /\ Elems # {} /\ MaxPush \in Nat

-----------------------------------------------------------------------------
RingTypeOK ==
    /\ buf \in [0 .. cap - 1 -> Elems]
    /\ head \in 0 .. WORD - 1 /\ tail \in 0 .. WORD - 1
    /\ {Len(put), Len(taken)} \subseteq {0, 1}

(* What comes out is what went in, in that order, and the ring holds the   *)
(* rest: also while an element is written or copied, and when the indices  *)
(* have wrapped.                                                           *)
FirstInFirstOut ==
    LET n == Len(popped) IN
    /\ popped = SubSeq(pushed, 1, n)
    /\ slibc_ring_count = Len(pushed) - n
    /\ \A i \in 1 .. Len(pushed) - n :
           buf[(tail + i - 1) % cap] = pushed[n + i]
    /\ taken # <<>> => taken[1] = pushed[n + 1]
=============================================================================
