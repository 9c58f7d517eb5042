---------------------------- MODULE ThreadProofs ----------------------------
(***************************************************************************)
(* Proofs about Threads: the mutex lets one thread in, no wake-up of a     *)
(* broadcast or of the end of a thread is lost, for any number of threads  *)
(* and of slots of futex.c; and the ring is a first-in first-out queue for *)
(* any capacity and any word its indices wrap at.                          *)
(***************************************************************************)
EXTENDS Threads, SequenceTheorems, TLAPS

-----------------------------------------------------------------------------
(* Different sleeps are on different words.                                *)
LEMMA WordsDiffer ==
    /\ \A s, r \in Asleep : \A u, v : WordOf(s, u) = WordOf(r, v) => s = r
    /\ \A u, v : WordOf("joinSleep", u) = WordOf("joinSleep", v) => u = v
    /\ \A s \in Asleep, u \in Threads : WordOf(s, u) \in Words
    /\ <<>> \notin Words
<1>1. \A u : Len(<<"done", u>>) = 2 /\ Len(<<"lock">>) = 1 /\ Len(<<"seq">>) = 1
  OBVIOUS
<1>2. \A u : <<"done", u>> # <<"lock">> /\ <<"done", u>> # <<"seq">>
  BY <1>1
<1>3. <<"lock">> # <<"seq">>
  OBVIOUS
<1>4. \A u, v : <<"done", u>> = <<"done", v>> => u = v
  OBVIOUS
<1>5. <<>> \notin Words
  BY DEF Words
<1> QED BY <1>2, <1>3, <1>4, <1>5 DEF WordOf, Asleep, Words

(* The table and who sleeps.                                               *)
SleepOK ==
    /\ TableTrue
    /\ futex_table \in [Slots -> [on : Words, who : {{t} : t \in Threads}]
                                 \union {Nobody}]
    /\ at \in [Threads -> Places] /\ whom \in [Threads -> Threads]

(* Steps that touch no sleeper and leave nobody asleep.                    *)
LEMMA AwakeKeeps ==
    ASSUME SleepOK, NEW t \in Threads, at[t] \notin Asleep, NEW l \in Places \ Asleep,
           Goes(t, l), UNCHANGED futex_table,
           whom' \in [Threads -> Threads],
           \A u \in Threads \ {t} : whom'[u] = whom[u]
    PROVE  SleepOK' /\ at'[t] = l /\ \A u \in Threads \ {t} : at'[u] = at[u]
<1>1. at' \in [Threads -> Places] /\ at'[t] = l /\ \A u \in Threads \ {t} : at'[u] = at[u]
  BY DEF Goes, SleepOK
<1>2. \A i \in Slots : futex_table[i].who # {t}
  BY DEF SleepOK, TableTrue
<1>3. \A u \in Threads \ {t} : AsleepOn(u)' = AsleepOn(u)
  BY <1>1 DEF AsleepOn
<1>4. TableTrue'
  <2>1. ASSUME NEW u \in Threads
        PROVE  at'[u] \in Asleep <=> \E i \in Slots : futex_table'[i].who = {u}
    <3>1. CASE u = t
      BY <1>1, <1>2, <3>1
    <3>2. CASE u # t
      BY <1>1, <3>2 DEF SleepOK, TableTrue
    <3> QED BY <3>1, <3>2
  <2>2. ASSUME NEW i \in Slots, NEW u \in Threads, futex_table'[i].who = {u}
        PROVE  /\ futex_table'[i].on = AsleepOn(u)'
               /\ \A j \in Slots : futex_table'[j].who = {u} => i = j
    <3>1. u # t
      BY <1>2, <2>2
    <3> QED BY <1>3, <2>2, <3>1 DEF SleepOK, TableTrue
  <2> QED BY <2>1, <2>2 DEF TableTrue
<1> QED BY <1>1, <1>4 DEF SleepOK

(* A call that sleeps takes a free slot for the right word.                *)
LEMMA WaitKeeps ==
    ASSUME SleepOK, NEW t \in Threads, at[t] \notin Asleep, NEW s \in Asleep, NEW val,
           UNCHANGED whom, FutexWait(t, WordOf(s, whom[t]), val, s)
    PROVE  /\ SleepOK' /\ \A u \in Threads \ {t} : at'[u] = at[u]
           /\ \/ at'[t] = s /\ Word(WordOf(s, whom[t])) = val
              \/ at'[t] = After(s)
<1> DEFINE w == WordOf(s, whom[t])
<1>0. whom[t] \in Threads /\ w \in Words /\ s \in Places
      /\ After(s) \in Places \ Asleep
  BY WordsDiffer DEF SleepOK, Places, After, Asleep
<1>1. CASE Goes(t, After(s)) /\ UNCHANGED futex_table
  <2>1. After(s) \in Places \ Asleep
    BY <1>0
  <2>2. whom' \in [Threads -> Threads] /\ \A u \in Threads \ {t} : whom'[u] = whom[u]
    BY DEF SleepOK
  <2> QED BY <1>1, <2>1, <2>2, AwakeKeeps
<1>2. ASSUME NEW i \in Slots, futex_alloc_slot(i), Goes(t, s), Word(w) = val,
             futex_table' = [futex_table EXCEPT ![i] = [on |-> w, who |-> {t}]]
      PROVE  /\ SleepOK' /\ at'[t] = s
             /\ \A u \in Threads \ {t} : at'[u] = at[u]
  <2> HIDE DEF w
  <2>1. at' \in [Threads -> Places] /\ at'[t] = s
        /\ \A u \in Threads \ {t} : at'[u] = at[u]
    BY <1>0, <1>2 DEF Goes, SleepOK
  <2>2. \A j \in Slots : futex_table[j].who # {t}
    BY DEF SleepOK, TableTrue
  <2>3. futex_table'[i].on = w /\ futex_table'[i].who = {t}
        /\ \A j \in Slots \ {i} : futex_table'[j] = futex_table[j]
    BY <1>2 DEF SleepOK
  <2>4. \A u \in Threads : futex_table[i].who # {u}
    BY <1>2 DEF futex_alloc_slot, Nobody
  <2>5. \A u \in Threads \ {t} : AsleepOn(u)' = AsleepOn(u)
    BY <2>1 DEF AsleepOn
  <2>6. AsleepOn(t)' = w
    BY <2>1 DEF AsleepOn, w
  <2>7. TableTrue'
    <3>1. ASSUME NEW u \in Threads
          PROVE  at'[u] \in Asleep <=> \E j \in Slots : futex_table'[j].who = {u}
      <4>1. CASE u = t
        BY <2>1, <2>3, <4>1
      <4>2. CASE u # t
        <5>1. \A j \in Slots : futex_table'[j].who = {u} <=> futex_table[j].who = {u}
          BY <2>3, <2>4, <4>2
        <5> QED BY <2>1, <4>2, <5>1 DEF SleepOK, TableTrue
      <4> QED BY <4>1, <4>2
    <3>2. ASSUME NEW j \in Slots, NEW u \in Threads, futex_table'[j].who = {u}
          PROVE  /\ futex_table'[j].on = AsleepOn(u)'
                 /\ \A k \in Slots : futex_table'[k].who = {u} => j = k
      <4>1. CASE u = t
        <5>1. \A k \in Slots : futex_table'[k].who = {u} => k = i
          BY <2>2, <2>3, <4>1
        <5> QED BY <2>3, <2>6, <3>2, <4>1, <5>1
      <4>2. CASE u # t
        <5>1. \A k \in Slots : futex_table'[k].who = {u} =>
                  k # i /\ futex_table[k].who = {u}
          BY <2>3, <4>2
        <5>2. futex_table[j].on = AsleepOn(u)
              /\ \A k \in Slots : futex_table[k].who = {u} => j = k
          BY <3>2, <5>1 DEF SleepOK, TableTrue
        <5> QED BY <2>3, <2>5, <3>2, <4>2, <5>1, <5>2
      <4> QED BY <4>1, <4>2
    <3> QED BY <3>1, <3>2 DEF TableTrue
  <2>8. futex_table' \in [Slots -> [on : Words, who : {{u} : u \in Threads}]
                                   \union {Nobody}]
    BY <1>0, <1>2 DEF SleepOK
  <2> QED BY <2>1, <2>7, <2>8 DEF SleepOK
<1> HIDE DEF w
<1>3. FutexWait(t, w, val, s)
  BY DEF w
<1>4. \/ Goes(t, After(s)) /\ UNCHANGED futex_table
      \/ \E i \in Slots : /\ futex_alloc_slot(i) /\ Goes(t, s) /\ Word(w) = val
                          /\ futex_table' =
                                [futex_table EXCEPT ![i] = [on |-> w, who |-> {t}]]
  BY <1>3 DEF FutexWait
<1>5. at'[t] = After(s) \/ ~(Goes(t, After(s)) /\ UNCHANGED futex_table)
  BY <1>0 DEF Goes, SleepOK
<1> QED BY <1>1, <1>2, <1>4, <1>5 DEF w

(* Those who are woken go on, the others sleep where they slept.           *)
LEMMA WakeKeeps ==
    ASSUME SleepOK, NEW t \in Threads, at[t] \notin Asleep, NEW l \in Places \ Asleep,
           NEW woken \in SUBSET Slots, UNCHANGED whom, FutexWake(t, woken, l)
    PROVE  /\ SleepOK' /\ at'[t] = l
           /\ \A u \in Threads \ {t} :
                 \/ at'[u] = at[u] /\ \A i \in woken : futex_table[i].who # {u}
                 \/ at[u] \in Asleep /\ at'[u] = After(at[u])
<1>1. \A s \in Asleep : After(s) \in Places \ Asleep
  BY DEF After, Asleep, Places
<1>2. at'[t] = l /\ \A i \in Slots : futex_table[i].who # {t}
  BY DEF FutexWake, SleepOK, TableTrue
<1>3. ASSUME NEW u \in Threads \ {t}
      PROVE  \/ at'[u] = at[u] /\ \A i \in woken : futex_table[i].who # {u}
             \/ /\ at[u] \in Asleep /\ at'[u] = After(at[u])
                /\ \E i \in woken : futex_table[i].who = {u}
  <2>1. CASE \E i \in woken : futex_table[i].who = {u}
    <3>1. at'[u] = After(at[u])
      BY <2>1 DEF FutexWake
    <3> QED BY <2>1, <3>1 DEF SleepOK, TableTrue
  <2>2. CASE ~\E i \in woken : futex_table[i].who = {u}
    BY <2>2 DEF FutexWake
  <2> QED BY <2>1, <2>2
<1>4. at' \in [Threads -> Places]
  <2>1. \A u \in Threads : at'[u] \in Places
    BY <1>1, <1>2, <1>3 DEF SleepOK
  <2> QED BY <2>1 DEF FutexWake
<1>5. \A i \in Slots : futex_table'[i] = IF i \in woken THEN Nobody ELSE futex_table[i]
  BY DEF FutexWake
<1>6. \A u : Nobody.who # {u}
  BY DEF Nobody
<1>7. TableTrue'
  <2>1. ASSUME NEW u \in Threads
        PROVE  at'[u] \in Asleep <=> \E i \in Slots : futex_table'[i].who = {u}
    <3>1. CASE u = t
      BY <1>2, <1>5, <1>6, <3>1
    <3>2. CASE /\ u # t /\ at'[u] = at[u] /\ \A i \in woken : futex_table[i].who # {u}
      <4>1. \A i \in Slots : futex_table'[i].who = {u} <=> futex_table[i].who = {u}
        BY <1>5, <1>6, <3>2
      <4> QED BY <3>2, <4>1 DEF SleepOK, TableTrue
    <3>3. CASE /\ u # t /\ at[u] \in Asleep /\ at'[u] = After(at[u])
               /\ \E i \in woken : futex_table[i].who = {u}
      <4>1. PICK i \in woken : futex_table[i].who = {u}
        BY <3>3
      <4>2. \A j \in Slots : futex_table[j].who = {u} => j = i
        BY <4>1 DEF SleepOK, TableTrue
      <4> QED BY <1>1, <1>5, <1>6, <3>3, <4>1, <4>2
    <3> QED BY <1>3, <3>1, <3>2, <3>3
  <2>2. ASSUME NEW i \in Slots, NEW u \in Threads, futex_table'[i].who = {u}
        PROVE  /\ futex_table'[i].on = AsleepOn(u)'
               /\ \A j \in Slots : futex_table'[j].who = {u} => i = j
    <3>1. i \notin woken /\ futex_table'[i] = futex_table[i]
          /\ \A j \in Slots : futex_table'[j].who = {u} => futex_table[j].who = {u}
      BY <1>5, <1>6, <2>2
    <3>2. futex_table[i].on = AsleepOn(u)
          /\ \A j \in Slots : futex_table[j].who = {u} => i = j
      BY <2>2, <3>1 DEF SleepOK, TableTrue
    <3>3. u # t
      BY <1>2, <2>2, <3>1
    <3>4. at'[u] = at[u]
      BY <1>3, <2>2, <3>1, <3>2, <3>3
    <3> QED BY <3>1, <3>2, <3>4 DEF AsleepOn
  <2> QED BY <2>1, <2>2 DEF TableTrue
<1>8. futex_table' \in [Slots -> [on : Words, who : {{u} : u \in Threads}]
                                 \union {Nobody}]
  BY DEF FutexWake, SleepOK
<1> QED BY <1>2, <1>3, <1>4, <1>7, <1>8 DEF SleepOK

(* Everyone who sleeps on a word is among the sleepers of its table.       *)
LEMMA SleepersAll ==
    ASSUME SleepOK, NEW u \in Threads, at[u] \in Asleep
    PROVE  \E i \in Sleepers(AsleepOn(u)) : futex_table[i].who = {u}
BY DEF SleepOK, TableTrue, Sleepers

(* The word is not 0 while a thread holds the lock, and a thread that has  *)
(* woken others does not go on as a holder unless it was one.              *)
LockInv ==
    /\ lock \in 0 .. 2 /\ MutualExclusion
    /\ \A t \in Threads : Holds(t) => lock # 0
    /\ back \in [Threads -> {"out", "in", "wait"}]
    /\ \A t \in Threads : at[t] \in {"zero", "wake"} => back[t] # "in"

(* The counter only grows; tickets and broadcasts are not ahead of it.     *)
CondInv ==
    /\ seq \in Nat /\ called \in Nat /\ mine \in [Threads -> Nat]
    /\ called <= seq
    /\ \A t \in Threads : /\ mine[t] <= seq
                          /\ at[t] = "condSleep" => called <= mine[t]

(* A thread's word is set when its value is there, and it ends after that. *)
JoinInv ==
    /\ done \in [Threads -> {0, 1}] /\ retval \in [Threads -> SUBSET Threads]
    /\ \A t \in Threads :
           /\ at[t] = "returned" => retval[t] = {t}
           /\ done[t] = 1 => retval[t] = {t} /\ at[t] \in {"call", "ended"}
           /\ at[t] = "joined" => done[whom[t]] = 1
           /\ at[t] = "joinSleep" => done[whom[t]] = 0 \/ at[whom[t]] = "call"

ThreadInv == SleepOK /\ LockInv /\ CondInv /\ JoinInv

(* What a step of t does to the places of the others.                      *)
Others(t) == \A u \in Threads \ {t} : \/ at'[u] = at[u]
                                      \/ at[u] \in Asleep /\ at'[u] = After(at[u])

(* Steps that neither sleep nor wake.                                      *)
Plain(t) ==
    \/ pthread_mutex_trylock(t) \/ pthread_mutex_lock(t) \/ Slow(t) \/ Mark(t)
    \/ Again(t) \/ pthread_mutex_unlock(t) \/ Zero(t)
    \/ pthread_cond_wait(t) \/ LetGo(t)
    \/ pthread_cond_signal(t) \/ pthread_cond_broadcast(t)
    \/ Returns(t) \/ Done(t) \/ \E u \in Threads : pthread_join(t, u)
    \/ Look(t) \/ Joined(t)
Rests(t) == Sleep(t) \/ Wait(t) \/ Await(t)
Rouses(t) == Wake(t) \/ WakeOne(t) \/ WakeAll(t) \/ Call(t)

LEMMA StepKinds ==
    ASSUME NEW t \in Threads, Steps(t)
    PROVE  Plain(t) \/ Rests(t) \/ Rouses(t) \/ TimesOut(t)
BY DEF Steps, Plain, Rests, Rouses

(* A thread that moves was awake.                                          *)
LEMMA MoverAwake ==
    ASSUME NEW t \in Threads, Plain(t) \/ Rests(t) \/ Rouses(t) PROVE at[t] \notin Asleep
BY DEF Plain, Rests, Rouses, Asleep, pthread_mutex_trylock, pthread_mutex_lock, Slow,
       Mark, Again, pthread_mutex_unlock, Zero, pthread_cond_wait, LetGo,
       pthread_cond_signal, pthread_cond_broadcast, Raise, Returns, Done, pthread_join,
       Look, Joined, Sleep, Wait, Await, Wake, WakeOne, WakeAll, Call

(* The table stays right in every step.                                    *)
LEMMA PlainTable ==
    ASSUME SleepOK, LockInv, NEW t \in Threads, Plain(t)
    PROVE  SleepOK' /\ at'[t] \notin Asleep /\ Others(t)
<1>1. \E l \in Places \ Asleep : Goes(t, l)
  <2>1. CASE pthread_mutex_lock(t) \/ Again(t)
    BY <2>1 DEF pthread_mutex_lock, Again, Cas, Places, Asleep
  <2>2. CASE pthread_mutex_unlock(t) \/ LetGo(t)
    BY <2>2 DEF pthread_mutex_unlock, LetGo, Release, Places, Asleep
  <2>3. CASE pthread_cond_signal(t) \/ pthread_cond_broadcast(t)
    BY <2>3 DEF pthread_cond_signal, pthread_cond_broadcast, Raise, Places, Asleep
  <2>4. CASE pthread_mutex_trylock(t) \/ Slow(t) \/ Mark(t) \/ Zero(t)
    BY <2>4 DEF pthread_mutex_trylock, Slow, Mark, Zero, Places, Asleep
  <2>5. CASE pthread_cond_wait(t) \/ Returns(t) \/ Done(t)
    BY <2>5 DEF pthread_cond_wait, Returns, Done, Places, Asleep
  <2>6. CASE Look(t) \/ Joined(t)
    BY <2>6 DEF Look, Joined, Places, Asleep
  <2>7. ASSUME NEW u \in Threads, pthread_join(t, u) PROVE Goes(t, "join")
    BY <2>7 DEF pthread_join
  <2>8. "join" \in Places \ Asleep
    BY DEF Places, Asleep
  <2> QED BY <2>1, <2>2, <2>3, <2>4, <2>5, <2>6, <2>7, <2>8 DEF Plain
<1>2. UNCHANGED futex_table
  BY DEF Plain, pthread_mutex_trylock, pthread_mutex_lock, Slow, Mark, Again,
         pthread_mutex_unlock, Zero, pthread_cond_wait, LetGo, Release,
         pthread_cond_signal, pthread_cond_broadcast, Raise, Returns, Done, pthread_join,
         Look, Joined
<1>3. UNCHANGED whom \/ \E u \in Threads : whom' = [whom EXCEPT ![t] = u]
  BY DEF Plain, pthread_mutex_trylock, pthread_mutex_lock, Slow, Mark, Again,
         pthread_mutex_unlock, Zero, pthread_cond_wait, LetGo, Release,
         pthread_cond_signal, pthread_cond_broadcast, Raise, Returns, Done, pthread_join,
         Look, Joined, joinVars, condVars
<1>4. whom' \in [Threads -> Threads] /\ \A u \in Threads \ {t} : whom'[u] = whom[u]
  BY <1>3 DEF SleepOK
<1> QED BY <1>1, <1>2, <1>4, AwakeKeeps, MoverAwake DEF Others

LEMMA RestTable ==
    ASSUME SleepOK, NEW t \in Threads, Rests(t)
    PROVE  /\ SleepOK' /\ Others(t)
           /\ Sleep(t) => at'[t] \in {"lockSleep", "again"}
           /\ Wait(t) => at'[t] = "relock" \/ (at'[t] = "condSleep" /\ mine[t] = seq)
           /\ Await(t) => \/ at'[t] = "join"
                          \/ at'[t] = "joinSleep" /\ done[whom[t]] = 0
<1>1. at[t] \notin Asleep /\ UNCHANGED whom
  BY MoverAwake DEF Rests, Sleep, Wait, Await, joinVars
<1>2. CASE Sleep(t)
  <2>1. FutexWait(t, WordOf("lockSleep", whom[t]), 2, "lockSleep") /\ at[t] = "sleep"
    BY <1>2 DEF Sleep, WordOf
  <2>2. "lockSleep" \in Asleep /\ After("lockSleep") = "again"
    BY DEF Asleep, After
  <2>3. SleepOK' /\ Others(t) /\ at'[t] \in {"lockSleep", "again"}
    BY <1>1, <2>1, <2>2, WaitKeeps DEF Others
  <2> QED BY <2>1, <2>3 DEF Wait, Await
<1>3. CASE Wait(t)
  <2>1. FutexWait(t, WordOf("condSleep", whom[t]), mine[t], "condSleep") /\ at[t] = "wait"
    BY <1>3 DEF Wait, WordOf
  <2>2. "condSleep" \in Asleep /\ After("condSleep") = "relock"
    BY DEF Asleep, After
  <2>3. Word(WordOf("condSleep", whom[t])) = seq
    BY DEF Word, WordOf
  <2>4. /\ SleepOK' /\ Others(t)
        /\ at'[t] = "relock" \/ (at'[t] = "condSleep" /\ mine[t] = seq)
    BY <1>1, <2>1, <2>2, <2>3, WaitKeeps DEF Others
  <2> QED BY <2>1, <2>4 DEF Sleep, Await
<1>4. CASE Await(t)
  <2>1. FutexWait(t, WordOf("joinSleep", whom[t]), 0, "joinSleep") /\ at[t] = "await"
    BY <1>4 DEF Await, WordOf
  <2>2. "joinSleep" \in Asleep /\ After("joinSleep") = "join"
    BY DEF Asleep, After
  <2>3. Word(WordOf("joinSleep", whom[t])) = done[whom[t]]
    <3>1. \A u : <<"done", u>> # <<"lock">> /\ <<"done", u>> # <<"seq">>
      <4>1. \A u : Len(<<"done", u>>) = 2 /\ Len(<<"lock">>) = 1 /\ Len(<<"seq">>) = 1
        OBVIOUS
      <4> QED BY <4>1
    <3> QED BY <3>1 DEF Word, WordOf
  <2>4. /\ SleepOK' /\ Others(t)
        /\ at'[t] = "join" \/ (at'[t] = "joinSleep" /\ done[whom[t]] = 0)
    BY <1>1, <2>1, <2>2, <2>3, WaitKeeps DEF Others
  <2> QED BY <2>1, <2>4 DEF Sleep, Wait
<1> QED BY <1>2, <1>3, <1>4 DEF Rests

LEMMA RouseTable ==
    ASSUME SleepOK, LockInv, NEW t \in Threads, Rouses(t)
    PROVE  /\ SleepOK' /\ Others(t) /\ UNCHANGED whom
           /\ at'[t] = IF at[t] = "call" THEN "ended" ELSE back[t]
           /\ WakeAll(t) => \A u \in Threads : at'[u] # "condSleep"
           /\ Call(t) => \A u \in Threads : at'[u] = "joinSleep" => whom[u] # t
<1> DEFINE woken == IF at[t] = "wake" THEN First(<<"lock">>)
                    ELSE IF at[t] = "signal" THEN First(<<"seq">>)
                    ELSE IF at[t] = "broadcast" THEN Sleepers(<<"seq">>)
                    ELSE Sleepers(<<"done", t>>)
           l == IF at[t] = "call" THEN "ended" ELSE back[t]
<1>1. at[t] \notin Asleep /\ UNCHANGED whom
  BY MoverAwake DEF Rouses, Wake, WakeOne, WakeAll, Call, joinVars
<1>2. woken \in SUBSET Slots
  BY DEF First, Sleepers
<1>3. l \in Places \ Asleep
  BY DEF LockInv, Places, Asleep
<1>4. FutexWake(t, woken, l)
  BY DEF Rouses, Wake, WakeOne, WakeAll, Call
<1>5. WakeAll(t) => woken = Sleepers(<<"seq">>)
  BY DEF WakeAll
<1>6. Call(t) => woken = Sleepers(<<"done", t>>)
  BY DEF Call
<1>7. at'[t] = l /\ SleepOK'
      /\ \A u \in Threads \ {t} :
            \/ at'[u] = at[u] /\ \A i \in woken : futex_table[i].who # {u}
            \/ at[u] \in Asleep /\ at'[u] = After(at[u])
  <2> HIDE DEF woken, l
  <2> QED BY <1>1, <1>2, <1>3, <1>4, WakeKeeps
<1>8. ASSUME NEW u \in Threads, at'[u] \in Asleep
      PROVE  /\ u # t /\ at'[u] = at[u]
             /\ \E i \in Sleepers(WordOf(at[u], whom[u])) : i \notin woken
  <2>1. u # t
    BY <1>3, <1>7, <1>8
  <2>2. at'[u] = at[u] /\ \A i \in woken : futex_table[i].who # {u}
    BY <1>7, <1>8, <2>1 DEF After, Asleep
  <2>3. \E i \in Sleepers(AsleepOn(u)) : futex_table[i].who = {u}
    BY <1>8, <2>2, SleepersAll
  <2> QED BY <2>1, <2>2, <2>3 DEF AsleepOn
<1> HIDE DEF woken
<1>9. ASSUME WakeAll(t), NEW u \in Threads PROVE at'[u] # "condSleep"
  <2>1. WordOf("condSleep", whom[u]) = <<"seq">> /\ "condSleep" \in Asleep
    BY DEF WordOf, Asleep
  <2> QED BY <1>5, <1>8, <1>9, <2>1
<1>10. ASSUME Call(t), NEW u \in Threads, at'[u] = "joinSleep" PROVE whom[u] # t
  <2>1. WordOf("joinSleep", t) = <<"done", t>> /\ "joinSleep" \in Asleep
    BY DEF WordOf, Asleep
  <2> QED BY <1>6, <1>8, <1>10, <2>1
<1> QED BY <1>1, <1>7, <1>9, <1>10 DEF Others

(* Whose time is over leaves its slot.                                     *)
LEMMA TimeTable ==
    ASSUME SleepOK, NEW t \in Threads, TimesOut(t)
    PROVE  /\ SleepOK' /\ Others(t) /\ UNCHANGED <<lockVars, condVars, joinVars, back>>
           /\ at[t] \in Asleep /\ at'[t] \in {"again", "relock", "join"}
<1>1. at[t] \in Asleep /\ UNCHANGED <<lockVars, condVars, joinVars, back>>
      /\ Goes(t, After(at[t]))
  BY DEF TimesOut
<1>2. /\ at'[t] \in {"again", "relock", "join"} /\ at' \in [Threads -> Places]
      /\ \A u \in Threads \ {t} : at'[u] = at[u]
  BY <1>1 DEF Goes, After, Asleep, Places, SleepOK
<1>3. \A i \in Slots : futex_table'[i] = IF futex_table[i].who = {t} THEN Nobody
                                         ELSE futex_table[i]
  BY DEF TimesOut
<1>4. \A u : Nobody.who # {u}
  BY DEF Nobody
<1>5. UNCHANGED whom
  BY <1>1 DEF joinVars
<1>6. \A i \in Slots, u \in Threads :
          futex_table'[i].who = {u} <=> futex_table[i].who = {u} /\ u # t
  BY <1>3, <1>4
<1>7. \A i \in Slots, u \in Threads :
          futex_table'[i].who = {u} => futex_table'[i].on = futex_table[i].on
  BY <1>3, <1>4
<1>8. TableTrue'
  <2>1. ASSUME NEW u \in Threads
        PROVE  at'[u] \in Asleep <=> \E i \in Slots : futex_table'[i].who = {u}
    <3>1. CASE u = t
      BY <1>2, <1>6, <3>1 DEF Asleep
    <3>2. CASE u # t
      BY <1>2, <1>6, <3>2 DEF SleepOK, TableTrue
    <3> QED BY <3>1, <3>2
  <2>2. ASSUME NEW i \in Slots, NEW u \in Threads, futex_table'[i].who = {u}
        PROVE  /\ futex_table'[i].on = AsleepOn(u)'
               /\ \A j \in Slots : futex_table'[j].who = {u} => i = j
    <3>1. u # t /\ futex_table[i].who = {u} /\ futex_table'[i].on = futex_table[i].on
      BY <1>6, <1>7, <2>2
    <3>2. AsleepOn(u)' = AsleepOn(u)
      BY <1>2, <1>5, <3>1 DEF AsleepOn
    <3> QED BY <1>6, <3>1, <3>2 DEF SleepOK, TableTrue
  <2> QED BY <2>1, <2>2 DEF TableTrue
<1>9. futex_table' \in [Slots -> [on : Words, who : {{u} : u \in Threads}]
                                 \union {Nobody}]
  BY DEF TimesOut, SleepOK
<1> QED BY <1>1, <1>2, <1>5, <1>8, <1>9 DEF SleepOK, Others

(* Nobody else comes to hold the lock or gives it back.                    *)
LEMMA OthersHold ==
    ASSUME NEW t \in Threads, Others(t), NEW u \in Threads, u # t, back'[u] = back[u]
    PROVE  /\ Holds(u)' = Holds(u)
           /\ at'[u] \in {"zero", "wake"} <=> at[u] \in {"zero", "wake"}
<1>1. CASE at'[u] = at[u]
  BY <1>1 DEF Holds
<1>2. CASE at[u] \in Asleep /\ at'[u] = After(at[u])
  BY <1>2 DEF Holds, Asleep, After
<1> QED BY <1>1, <1>2 DEF Others

LEMMA LockNext ==
    ASSUME SleepOK, LockInv, NEW t \in Threads, Steps(t)
    PROVE  LockInv'
<1>1. Others(t) /\ at \in [Threads -> Places]
  BY PlainTable, RestTable, RouseTable, TimeTable, StepKinds DEF SleepOK
<1>2. back' \in [Threads -> {"out", "in", "wait"}]
      /\ \A u \in Threads \ {t} : back'[u] = back[u]
  BY DEF Steps, LockInv, pthread_mutex_trylock, pthread_mutex_lock, Slow, Mark, Again,
         pthread_mutex_unlock, Zero, pthread_cond_wait, LetGo, Release,
         pthread_cond_signal, pthread_cond_broadcast, Raise, Returns, Done, pthread_join,
         Look, Joined, Sleep, Wait, Await, Wake, WakeOne, WakeAll, Call, TimesOut
<1>3. \A u \in Threads \ {t} : /\ Holds(u)' = Holds(u)
                               /\ at'[u] \in {"zero", "wake"} <=> at[u] \in {"zero", "wake"}
  BY <1>1, <1>2, OthersHold
(* The word and t: it takes a free lock, keeps what it has, or gives back. *)
<1>4. /\ lock' \in 0 .. 2
      /\ at'[t] \in {"zero", "wake"} => back'[t] # "in"
      /\ \/ lock' = lock /\ Holds(t)' = Holds(t)
         \/ lock = 0 /\ lock' # 0
         \/ lock # 0 /\ lock' # 0 /\ Holds(t)' = Holds(t)
         \/ Holds(t) /\ ~Holds(t)'
  <2>1. CASE pthread_mutex_trylock(t)
    BY <1>1, <2>1 DEF pthread_mutex_trylock, Goes
  <2>2. CASE pthread_mutex_lock(t) \/ Again(t)
    BY <1>1, <2>2 DEF pthread_mutex_lock, Again, Cas, Goes, Holds, LockInv
  <2>3. CASE Slow(t)
    BY <1>1, <2>3 DEF Slow, Goes, Holds, LockInv
  <2>4. CASE Mark(t)
    BY <1>1, <2>4 DEF Mark, Goes, Holds, LockInv
  <2>5. CASE pthread_mutex_unlock(t) \/ LetGo(t)
    <3>1. lock \in {1, 2} /\ Holds(t) /\ lock' = lock - 1
      BY <2>5 DEF pthread_mutex_unlock, LetGo, Release, LockInv, Holds
    <3>2. back'[t] # "in" /\ at'[t] = IF lock = 1 THEN back'[t] ELSE "zero"
      BY <1>1, <2>5 DEF pthread_mutex_unlock, LetGo, Release, LockInv, Goes
    <3>3. back'[t] \in {"out", "wait"}
      BY <1>2, <3>2
    <3>4. CASE lock = 1
      BY <3>1, <3>2, <3>3, <3>4 DEF Holds
    <3>5. CASE lock = 2
      BY <3>1, <3>2, <3>3, <3>5 DEF Holds
    <3> QED BY <3>1, <3>4, <3>5
  <2>6. CASE Zero(t)
    BY <1>1, <2>6 DEF Zero, Goes, Holds, LockInv
  <2>7. CASE pthread_cond_wait(t) \/ pthread_cond_signal(t) \/ pthread_cond_broadcast(t)
    BY <1>1, <2>7 DEF pthread_cond_wait, pthread_cond_signal, pthread_cond_broadcast,
       Raise, Goes, Holds, LockInv, lockVars
  <2>8. CASE Returns(t) \/ Done(t) \/ Look(t) \/ Joined(t)
    BY <1>1, <2>8 DEF Returns, Done, Look, Joined, Goes, Holds, LockInv, lockVars
  <2>9. ASSUME NEW u \in Threads, pthread_join(t, u)
        PROVE  at[t] = "out" /\ at'[t] = "join" /\ lock' = lock
    BY <1>1, <2>9 DEF pthread_join, Goes, lockVars
  <2>10. CASE \E u \in Threads : pthread_join(t, u)
    BY <2>9, <2>10 DEF Holds, LockInv
  <2>11. CASE Rests(t)
    <3>1. at[t] \in {"sleep", "wait", "await"} /\ lock' = lock
      BY <2>11 DEF Rests, Sleep, Wait, Await, lockVars
    <3>2. at'[t] \in {"lockSleep", "again", "relock", "condSleep", "join", "joinSleep"}
      BY <2>11, RestTable DEF Rests
    <3> QED BY <3>1, <3>2 DEF Holds, LockInv
  <2>12. CASE Rouses(t)
    <3>1. at[t] \in {"wake", "signal", "broadcast", "call"} /\ lock' = lock
          /\ back' = back
      BY <2>12 DEF Rouses, Wake, WakeOne, WakeAll, Call, lockVars
    <3>2. at'[t] = (IF at[t] = "call" THEN "ended" ELSE back[t])
          /\ back[t] \in {"out", "in", "wait"}
      BY <2>12, RouseTable DEF LockInv
    <3> QED BY <3>1, <3>2 DEF Holds, LockInv
  <2>13. CASE TimesOut(t)
    <3>1. at[t] \in Asleep /\ at'[t] \in {"again", "relock", "join"} /\ lock' = lock
      BY <2>13, TimeTable DEF lockVars
    <3> QED BY <3>1 DEF Holds, LockInv, Asleep
  <2> QED BY <2>1, <2>2, <2>3, <2>4, <2>5, <2>6, <2>7, <2>8, <2>10, <2>11, <2>12,
             <2>13, StepKinds DEF Plain
<1>5. \A u \in Threads : Holds(u)' => lock' # 0
  BY <1>3, <1>4 DEF LockInv, MutualExclusion
<1>6. MutualExclusion'
  BY <1>3, <1>4 DEF LockInv, MutualExclusion
<1>7. \A u \in Threads : at'[u] \in {"zero", "wake"} => back'[u] # "in"
  BY <1>2, <1>3, <1>4 DEF LockInv
<1>8. lock' \in 0 .. 2
  BY <1>4
<1> QED BY <1>2, <1>5, <1>6, <1>7, <1>8 DEF LockInv

LEMMA CondNext ==
    ASSUME SleepOK, LockInv, CondInv, NEW t \in Threads, Steps(t)
    PROVE  CondInv'
<1>1. ASSUME NEW u \in Threads, Others(t), u # t, at'[u] = "condSleep"
      PROVE  at[u] = "condSleep"
  BY <1>1 DEF Others, After, Asleep
<1>2. CASE UNCHANGED condVars /\ Others(t) /\ at'[t] # "condSleep"
  BY <1>1, <1>2 DEF CondInv, condVars
<1>3. CASE pthread_cond_wait(t)
  <2>1. Others(t) /\ at'[t] = "release"
    BY <1>3, PlainTable DEF Plain, pthread_cond_wait, Goes, SleepOK
  <2>2. UNCHANGED <<seq, called>> /\ mine' = [mine EXCEPT ![t] = seq]
    BY <1>3 DEF pthread_cond_wait
  <2> QED BY <1>1, <2>1, <2>2 DEF CondInv
<1>4. CASE pthread_cond_signal(t) \/ pthread_cond_broadcast(t)
  <2>1. Others(t) /\ at'[t] \in {"signal", "broadcast"}
    BY <1>4, PlainTable
       DEF Plain, pthread_cond_signal, pthread_cond_broadcast, Raise, Goes, SleepOK
  <2>2. called' = called /\ seq' = seq + 1 /\ mine' = [mine EXCEPT ![t] = seq + 1]
    BY <1>4 DEF pthread_cond_signal, pthread_cond_broadcast, Raise
  <2>3. \A u \in Threads : mine'[u] = IF u = t THEN seq + 1 ELSE mine[u]
    BY <2>2 DEF CondInv
  <2>4. mine' \in [Threads -> Nat]
    BY <2>2 DEF CondInv
  <2> QED BY <1>1, <2>1, <2>2, <2>3, <2>4 DEF CondInv
<1>5. CASE Plain(t) /\ ~(\/ pthread_cond_wait(t) \/ pthread_cond_signal(t)
                         \/ pthread_cond_broadcast(t))
  <2>1. UNCHANGED condVars
    BY <1>5 DEF Plain, pthread_mutex_trylock, pthread_mutex_lock, Slow, Mark, Again,
       pthread_mutex_unlock, Zero, LetGo, Release, Returns, Done, pthread_join, Look,
       Joined
  <2>2. Others(t) /\ at'[t] # "condSleep"
    BY <1>5, PlainTable DEF Asleep
  <2> QED BY <1>2, <2>1, <2>2
<1>6. CASE Rests(t)
  <2>1. Others(t) /\ UNCHANGED condVars
    BY <1>6, RestTable DEF Rests, Sleep, Wait, Await
  <2>2. at'[t] = "condSleep" => mine[t] = seq
    BY <1>6, RestTable DEF Rests
  <2> QED BY <1>1, <2>1, <2>2 DEF CondInv, condVars
<1>7. CASE Rouses(t) /\ ~WakeAll(t)
  <2>1. UNCHANGED condVars
    BY <1>7 DEF Rouses, Wake, WakeOne, Call
  <2>2. Others(t) /\ at'[t] # "condSleep"
    BY <1>7, RouseTable DEF LockInv
  <2> QED BY <1>2, <2>1, <2>2
<1>8. CASE WakeAll(t)
  <2>1. \A u \in Threads : at'[u] # "condSleep"
    BY <1>8, RouseTable DEF Rouses
  <2>2. UNCHANGED <<seq, mine>> /\ called' \in {called, mine[t]}
    BY <1>8 DEF WakeAll
  <2> QED BY <2>1, <2>2 DEF CondInv
<1>9. CASE TimesOut(t)
  BY <1>2, <1>9, TimeTable
<1> QED BY <1>3, <1>4, <1>5, <1>6, <1>7, <1>8, <1>9, StepKinds

LEMMA JoinNext ==
    ASSUME SleepOK, LockInv, JoinInv, NEW t \in Threads, Steps(t)
    PROVE  JoinInv'
<1> DEFINE Kept(u) == /\ at'[u] \in {"returned", "joined", "joinSleep"} => at'[u] = at[u]
                      /\ at[u] \in {"call", "ended"} => at'[u] = at[u]
<1>1. ASSUME NEW u \in Threads, Others(t), u # t PROVE Kept(u)
  BY <1>1 DEF Others, After, Asleep
<1> HIDE DEF Kept
<1>2. CASE UNCHANGED joinVars /\ \A u \in Threads : Kept(u)
  <2>1. \A u \in Threads : /\ at'[u] = "returned" => retval'[u] = {u}
                           /\ done'[u] = 1 => retval'[u] = {u}
                           /\ at'[u] = "joined" => done'[whom'[u]] = 1
    BY <1>2 DEF JoinInv, joinVars, Kept
  <2>2. \A u \in Threads : done'[u] = 1 => at'[u] \in {"call", "ended"}
    BY <1>2 DEF JoinInv, joinVars, Kept
  <2>3. \A u \in Threads : at'[u] = "joinSleep" =>
            done'[whom'[u]] = 0 \/ at'[whom'[u]] = "call"
    BY <1>2 DEF JoinInv, joinVars, Kept, SleepOK
  <2> QED BY <1>2, <2>1, <2>2, <2>3 DEF JoinInv, joinVars
<1>3. CASE Plain(t)
  <2>1. Others(t) /\ at'[t] \notin Asleep /\ \A u \in Threads \ {t} : Kept(u)
    BY <1>1, <1>3, PlainTable
  <2>2. CASE Returns(t)
    <3>1. /\ at[t] = "out" /\ at'[t] = "returned" /\ UNCHANGED <<done, whom>>
          /\ retval' = [retval EXCEPT ![t] = {t}]
      BY <2>2 DEF Returns, Goes, SleepOK
    <3>2. \A u \in Threads : retval'[u] = IF u = t THEN {t} ELSE retval[u]
      BY <3>1 DEF JoinInv
    <3>3. done[t] = 0
      BY <3>1 DEF JoinInv
    <3>4. \A u \in Threads : /\ at'[u] = "returned" => retval'[u] = {u}
                             /\ done'[u] = 1 => retval'[u] = {u}
                             /\ done'[u] = 1 => at'[u] \in {"call", "ended"}
                             /\ at'[u] = "joined" => done'[whom'[u]] = 1
      BY <2>1, <3>1, <3>2, <3>3 DEF JoinInv, Kept
    <3>5. \A u \in Threads : at'[u] = "joinSleep" =>
              done'[whom'[u]] = 0 \/ at'[whom'[u]] = "call"
      BY <2>1, <3>1, <3>3 DEF JoinInv, Kept, SleepOK
    <3> QED BY <3>1, <3>4, <3>5 DEF JoinInv
  <2>3. CASE Done(t)
    <3>1. /\ at[t] = "returned" /\ at'[t] = "call" /\ UNCHANGED <<retval, whom>>
          /\ done' = [done EXCEPT ![t] = 1]
      BY <2>3 DEF Done, Goes, SleepOK
    <3>2. \A u \in Threads : done'[u] = IF u = t THEN 1 ELSE done[u]
      BY <3>1 DEF JoinInv
    <3>3. \A u \in Threads : /\ at'[u] = "returned" => retval'[u] = {u}
                             /\ done'[u] = 1 => retval'[u] = {u}
                             /\ done'[u] = 1 => at'[u] \in {"call", "ended"}
      BY <2>1, <3>1, <3>2 DEF JoinInv, Kept
    <3>4. \A u \in Threads : at'[u] = "joined" => done'[whom'[u]] = 1
      BY <2>1, <3>1, <3>2 DEF JoinInv, Kept, SleepOK
    <3>5. \A u \in Threads : at'[u] = "joinSleep" =>
              done'[whom'[u]] = 0 \/ at'[whom'[u]] = "call"
      BY <2>1, <3>1, <3>2 DEF JoinInv, Kept, SleepOK
    <3> QED BY <3>1, <3>3, <3>4, <3>5 DEF JoinInv
  <2>4. ASSUME UNCHANGED <<done, retval>>, at[t] \notin {"call", "ended"},
               \A u \in Threads \ {t} : whom'[u] = whom[u],
               \/ at'[t] \notin {"returned", "joined", "joinSleep"}
               \/ at'[t] = "joined" /\ done[whom'[t]] = 1
        PROVE  JoinInv'
    <3>1. \A u \in Threads : /\ at'[u] = "returned" => retval'[u] = {u}
                             /\ done'[u] = 1 => retval'[u] = {u}
                             /\ done'[u] = 1 => at'[u] \in {"call", "ended"}
                             /\ at'[u] = "joined" => done'[whom'[u]] = 1
      BY <2>1, <2>4 DEF JoinInv, Kept
    <3>2. \A u \in Threads : at'[u] = "joinSleep" =>
              done'[whom'[u]] = 0 \/ at'[whom'[u]] = "call"
      BY <2>1, <2>4 DEF JoinInv, Kept, SleepOK
    <3> QED BY <2>4, <3>1, <3>2 DEF JoinInv
  <2>5. CASE Look(t)
    <3>1. done[whom[t]] \in {0, 1}
      BY DEF JoinInv, SleepOK
    <3> QED BY <2>4, <2>5, <3>1 DEF Look, Goes, SleepOK, joinVars
  <2>6. CASE Joined(t) \/ \E u \in Threads : pthread_join(t, u)
    BY <2>4, <2>6 DEF Joined, pthread_join, Goes, SleepOK
  <2>7. CASE \/ pthread_mutex_trylock(t) \/ pthread_mutex_lock(t) \/ Slow(t) \/ Mark(t)
             \/ Again(t)
    BY <2>4, <2>7 DEF pthread_mutex_trylock, pthread_mutex_lock, Slow, Mark, Again, Cas,
       Goes, SleepOK, joinVars
  <2>8. CASE pthread_mutex_unlock(t) \/ Zero(t) \/ LetGo(t)
    BY <2>4, <2>8 DEF pthread_mutex_unlock, Zero, LetGo, Release, Goes, SleepOK, joinVars
  <2>9. CASE pthread_cond_wait(t) \/ pthread_cond_signal(t) \/ pthread_cond_broadcast(t)
    BY <2>4, <2>9 DEF pthread_cond_wait, pthread_cond_signal, pthread_cond_broadcast,
       Raise, Goes, SleepOK, joinVars
  <2> QED BY <1>3, <2>2, <2>3, <2>5, <2>6, <2>7, <2>8, <2>9 DEF Plain
<1>4. CASE Rests(t)
  <2>1. UNCHANGED joinVars /\ at[t] \in {"sleep", "wait", "await"} /\ Others(t)
    BY <1>4, RestTable DEF Rests, Sleep, Wait, Await
  <2>2. /\ at'[t] \notin {"returned", "joined"}
        /\ at'[t] = "joinSleep" => done[whom[t]] = 0
    BY <1>4, RestTable DEF Rests
  <2>3. \A u \in Threads \ {t} : Kept(u)
    BY <1>1, <2>1
  <2>4. \A u \in Threads : /\ at'[u] = "returned" => retval'[u] = {u}
                           /\ done'[u] = 1 => retval'[u] = {u}
                           /\ done'[u] = 1 => at'[u] \in {"call", "ended"}
                           /\ at'[u] = "joined" => done'[whom'[u]] = 1
    BY <2>1, <2>2, <2>3 DEF JoinInv, Kept, joinVars
  <2>5. \A u \in Threads : at'[u] = "joinSleep" =>
            done'[whom'[u]] = 0 \/ at'[whom'[u]] = "call"
    BY <2>1, <2>2, <2>3 DEF JoinInv, Kept, joinVars, SleepOK
  <2> QED BY <2>1, <2>4, <2>5 DEF JoinInv, joinVars
<1>5. CASE Rouses(t) /\ ~Call(t)
  <2>1. UNCHANGED joinVars /\ at[t] \in {"wake", "signal", "broadcast"}
    BY <1>5 DEF Rouses, Wake, WakeOne, WakeAll, joinVars
  <2>2. Others(t) /\ at'[t] \in {"out", "in", "wait"}
    BY <1>5, <2>1, RouseTable DEF LockInv
  <2>3. \A u \in Threads : Kept(u)
    BY <1>1, <2>1, <2>2 DEF Kept
  <2> QED BY <1>2, <2>1, <2>3
<1>6. CASE Call(t)
  <2>1. UNCHANGED joinVars /\ at[t] = "call" /\ at'[t] = "ended" /\ Others(t)
        /\ \A u \in Threads : at'[u] = "joinSleep" => whom[u] # t
    BY <1>6, RouseTable DEF Rouses, Call
  <2>2. \A u \in Threads \ {t} : Kept(u)
    BY <1>1, <2>1
  <2>3. \A u \in Threads : /\ at'[u] = "returned" => retval'[u] = {u}
                           /\ done'[u] = 1 => retval'[u] = {u}
                           /\ done'[u] = 1 => at'[u] \in {"call", "ended"}
                           /\ at'[u] = "joined" => done'[whom'[u]] = 1
    BY <2>1, <2>2 DEF JoinInv, Kept, joinVars
  <2>4. \A u \in Threads : at'[u] = "joinSleep" =>
            done'[whom'[u]] = 0 \/ at'[whom'[u]] = "call"
    BY <2>1, <2>2 DEF JoinInv, Kept, joinVars, SleepOK
  <2> QED BY <2>1, <2>3, <2>4 DEF JoinInv, joinVars
<1>7. CASE TimesOut(t)
  <2>1. UNCHANGED joinVars /\ Others(t) /\ at[t] \in Asleep
        /\ at'[t] \in {"again", "relock", "join"}
    BY <1>7, TimeTable
  <2>2. \A u \in Threads : Kept(u)
    BY <1>1, <2>1 DEF Kept, Asleep
  <2> QED BY <1>2, <2>1, <2>2
<1> QED BY <1>3, <1>4, <1>5, <1>6, <1>7, StepKinds

LEMMA ThreadInvInit == ASSUME ThreadInit PROVE ThreadInv
<1>1. \A t \in Threads : at[t] = "out" /\ back[t] = "out" /\ ~Holds(t)
  BY DEF ThreadInit, Holds
<1>2. \A i \in Slots, t \in Threads : futex_table[i].who # {t}
  BY DEF ThreadInit, Nobody
<1>3. SleepOK
  BY <1>1, <1>2 DEF ThreadInit, SleepOK, TableTrue, Places, Asleep
<1>4. LockInv
  BY <1>1 DEF ThreadInit, LockInv, MutualExclusion
<1>5. CondInv
  BY <1>1 DEF ThreadInit, CondInv
<1>6. JoinInv
  BY <1>1 DEF ThreadInit, JoinInv
<1> QED BY <1>3, <1>4, <1>5, <1>6 DEF ThreadInv

LEMMA ThreadInvNext == ThreadInv /\ [ThreadNext]_threadVars => ThreadInv'
<1> SUFFICES ASSUME ThreadInv, [ThreadNext]_threadVars PROVE ThreadInv'
  OBVIOUS
<1>1. ASSUME NEW t \in Threads, Steps(t) PROVE ThreadInv'
  <2>1. SleepOK /\ LockInv /\ CondInv /\ JoinInv
    BY DEF ThreadInv
  <2>2. SleepOK'
    BY <1>1, <2>1, StepKinds, PlainTable, RestTable, RouseTable, TimeTable
  <2> QED BY <1>1, <2>1, <2>2, LockNext, CondNext, JoinNext DEF ThreadInv
<1>2. CASE UNCHANGED threadVars
  <2>1. UNCHANGED <<lock, back, seq, called, mine, done, retval, whom, at, futex_table>>
    BY <1>2 DEF threadVars, lockVars, condVars, joinVars
  <2>2. SleepOK'
    <3>1. TableTrue /\ TableTrue' = TableTrue
      BY <2>1 DEF ThreadInv, SleepOK, TableTrue, AsleepOn
    <3> QED BY <2>1, <3>1 DEF ThreadInv, SleepOK
  <2>3. LockInv'
    BY <2>1 DEF ThreadInv, LockInv, MutualExclusion, Holds
  <2>4. CondInv' /\ JoinInv'
    BY <2>1 DEF ThreadInv, CondInv, JoinInv
  <2> QED BY <2>2, <2>3, <2>4 DEF ThreadInv
<1> QED BY <1>1, <1>2 DEF ThreadNext

(* For any number of threads and of slots, pthread_mutex_lock and unlock   *)
(* never let two threads in, with sleepers, conditions and refused sleeps. *)
THEOREM OneHolder == ThreadSpec => []MutualExclusion
<1>1. ThreadInv => MutualExclusion
  BY DEF ThreadInv, LockInv
<1> QED BY <1>1, ThreadInvInit, ThreadInvNext, PTL DEF ThreadSpec

(* The table of futex.c holds exactly the sleepers, each once and on its   *)
(* own word.                                                               *)
THEOREM SleepersInTable == ThreadSpec => []TableTrue
<1>1. ThreadInv => TableTrue
  BY DEF ThreadInv, SleepOK
<1> QED BY <1>1, ThreadInvInit, ThreadInvNext, PTL DEF ThreadSpec

(* No broadcast and no end of a thread is missed by one who waits for it,  *)
(* and a join gives the value (pthread_cond_wait, pthread_cond_broadcast,  *)
(* _pthread_trampoline, pthread_join).                                     *)
THEOREM NoLostWakeUp == ThreadSpec => []WokenUp
<1>1. ThreadInv => WokenUp
  <2> SUFFICES ASSUME ThreadInv, NEW t \in Threads
               PROVE  /\ at[t] = "condSleep" => mine[t] >= called
                      /\ at[t] = "joinSleep" => LET u == whom[t] IN
                                                done[u] = 0 \/ at[u] = "call"
                      /\ at[t] = "joined" => retval[whom[t]] = {whom[t]}
    BY DEF WokenUp
  <2>1. whom[t] \in Threads /\ mine[t] \in Nat /\ called \in Nat
    BY DEF ThreadInv, SleepOK, CondInv
  <2>2. at[t] = "condSleep" => mine[t] >= called
    BY <2>1 DEF ThreadInv, CondInv
  <2> QED BY <2>1, <2>2 DEF ThreadInv, JoinInv
<1> QED BY <1>1, ThreadInvInit, ThreadInvNext, PTL DEF ThreadSpec

-----------------------------------------------------------------------------
(* The ring.  Remainders first.                                            *)

(* Multiples of d are at least d apart.                                    *)
LEMMA Product ==
    ASSUME NEW d \in Nat \ {0}, NEW p \in Int, NEW q \in Int, p < q
    PROVE  d * p + d <= d * q
<1>1. p + 1 <= q
  OBVIOUS
<1>2. d * (p + 1) = d * p + d
  BY SMTT(30)
<1>3. d * (q - (p + 1)) >= 0
  BY <1>1, SMTT(30)
<1>4. d * (q - (p + 1)) = d * q - d * (p + 1)
  BY SMTT(30)
<1> QED BY <1>2, <1>3, <1>4

(* A number has one remainder.                                             *)
LEMMA OneWay ==
    ASSUME NEW d \in Nat \ {0}, NEW p \in Int, NEW q \in Int,
           NEW r \in 0 .. d - 1, NEW s \in 0 .. d - 1, d * p + r = d * q + s
    PROVE  r = s
<1>0. d * p \in Int /\ d * q \in Int
  OBVIOUS
<1>1. CASE p < q
  BY <1>0, <1>1, Product
<1>2. CASE q < p
  BY <1>0, <1>2, Product
<1>3. CASE p = q
  BY <1>0, <1>3
<1> QED BY <1>1, <1>2, <1>3

(* Quotient and remainder.                                                 *)
LEMMA Divided ==
    ASSUME NEW d \in Nat \ {0}, NEW x \in Int
    PROVE  /\ x \div d \in Int /\ x % d \in 0 .. d - 1
           /\ x = d * (x \div d) + (x % d)
OBVIOUS

(* Multiples do not change it.                                             *)
LEMMA Multiples ==
    ASSUME NEW d \in Nat \ {0}, NEW x \in Int, NEW k \in Int
    PROVE  (x + d * k) % d = x % d
<1> DEFINE y == x + d * k
<1>1. d * k \in Int /\ y \in Int
  OBVIOUS
<1>2. x = d * (x \div d) + (x % d) /\ x % d \in 0 .. d - 1 /\ x \div d \in Int
  BY Divided
<1>3. y = d * (y \div d) + (y % d) /\ y % d \in 0 .. d - 1 /\ y \div d \in Int
  <2> HIDE DEF y
  <2> QED BY <1>1, Divided
<1>4. d * (x \div d + k) = d * (x \div d) + d * k
  BY <1>2, SMTT(30)
<1>5. d * (x \div d + k) + (x % d) = d * (y \div d) + (y % d)
  BY <1>2, <1>3, <1>4
<1>6. x \div d + k \in Int
  BY <1>2
<1> HIDE DEF y
<1> QED BY <1>2, <1>3, <1>5, <1>6, OneWay DEF y

(* One lap round the word.                                                 *)
LEMMA Wraps ==
    ASSUME RingAssumption, NEW x \in 0 .. WORD + WORD - 1
    PROVE  /\ x % WORD \in 0 .. WORD - 1
           /\ x % WORD = IF x < WORD THEN x ELSE x - WORD
<1>1. WORD \in Nat \ {0} /\ x \in Int
  BY DEF RingAssumption
<1>2. x = WORD * (x \div WORD) + (x % WORD) /\ x % WORD \in 0 .. WORD - 1
      /\ x \div WORD \in Int
  BY <1>1, Divided
<1>3. x = WORD * 0 + x /\ x = WORD * 1 + (x - WORD)
  BY <1>1
<1>4. CASE x < WORD
  <2>1. x \in 0 .. WORD - 1
    BY <1>1, <1>4
  <2>2. x % WORD = x
    BY <1>1, <1>2, <1>3, <2>1, OneWay
  <2> QED BY <1>2, <1>4, <2>2
<1>5. CASE x >= WORD
  <2>1. x - WORD \in 0 .. WORD - 1
    BY <1>1, <1>5
  <2>2. x % WORD = x - WORD
    BY <1>1, <1>2, <1>3, <2>1, OneWay
  <2> QED BY <1>1, <1>2, <1>5, <2>2
<1> QED BY <1>1, <1>4, <1>5

(* The slot of an index is the same before and after the index wraps.      *)
LEMMA SlotOfWord ==
    ASSUME RingAssumption, NEW x \in 0 .. WORD + WORD - 1, NEW y \in Nat
    PROVE  ((x % WORD) + y) % cap = (x + y) % cap
<1> DEFINE k == WORD \div cap
<1>1. cap \in Nat \ {0} /\ WORD \in Nat /\ WORD % cap = 0 /\ WORD \in Int
  BY DEF RingAssumption
<1>2. WORD = cap * k + 0 /\ k \in Int
  BY <1>1, Divided
<1>3. CASE x < WORD
  BY <1>3, Wraps
<1>4. CASE x >= WORD
  <2> HIDE DEF k
  <2>1. x % WORD = x - WORD
    BY <1>1, <1>4, Wraps
  <2>2. x - WORD + y \in Int /\ x + y = (x - WORD + y) + cap * k
    BY <1>1, <1>2
  <2>3. ((x - WORD + y) + cap * k) % cap = (x - WORD + y) % cap
    BY <1>1, <1>2, <2>2, Multiples
  <2> QED BY <2>1, <2>2, <2>3
<1> QED BY <1>1, <1>3, <1>4

(* Fewer than cap steps apart, slots differ.                               *)
LEMMA SlotsDiffer ==
    ASSUME RingAssumption, NEW x \in Nat, NEW i \in Nat, NEW j \in Nat,
           i < j, j < i + cap
    PROVE  (x + i) % cap # (x + j) % cap
<1> DEFINE a == (x + i) \div cap
           b == (x + j) \div cap
           r == (x + i) % cap
           s == (x + j) % cap
<1>1. cap \in Nat \ {0} /\ x + i \in Int /\ x + j \in Int
  BY DEF RingAssumption
<1>2. x + i = cap * a + r /\ a \in Int /\ r \in 0 .. cap - 1
  BY <1>1, Divided
<1>3. x + j = cap * b + s /\ b \in Int /\ s \in 0 .. cap - 1
  BY <1>1, Divided
<1>4. cap * a \in Int /\ cap * b \in Int
  BY <1>1, <1>2, <1>3
<1> SUFFICES ASSUME r = s PROVE FALSE
  OBVIOUS
<1> HIDE DEF a, b, r, s
<1>5. cap * b - cap * a = j - i
  BY <1>2, <1>3, <1>4
<1>6. CASE a < b
  BY <1>1, <1>2, <1>3, <1>4, <1>5, <1>6, Product
<1>7. CASE b < a
  BY <1>1, <1>2, <1>3, <1>4, <1>5, <1>7, Product
<1>8. CASE a = b
  BY <1>4, <1>5, <1>8
<1> QED BY <1>2, <1>3, <1>6, <1>7, <1>8

(* What is between the indices.                                            *)
Inside == Len(pushed) - Len(popped)

(* The indices are as far apart as what went in and what came out; the     *)
(* slots between them hold it in order; the element being written lies in  *)
(* the slot ahead of it, and the one being copied is the oldest.           *)
RingInv ==
    /\ buf \in [0 .. cap - 1 -> Elems]
    /\ head \in 0 .. WORD - 1 /\ tail \in 0 .. WORD - 1
    /\ pushed \in Seq(Elems) /\ popped \in Seq(Elems)
    /\ Inside \in 0 .. cap /\ head = (tail + Inside) % WORD
    /\ \A i \in 1 .. Len(popped) : popped[i] = pushed[i]
    /\ \A i \in 1 .. Inside : buf[(tail + i - 1) % cap] = pushed[Len(popped) + i]
    /\ put = <<>> \/ /\ Inside < cap
                     /\ \E e \in Elems : put = <<e>> /\ buf[head % cap] = e
    /\ taken = <<>> \/ (Inside > 0 /\ taken = <<pushed[Len(popped) + 1]>>)

(* The distance of two indices, one of which may have wrapped.             *)
LEMMA Apart ==
    ASSUME RingAssumption, NEW t \in 0 .. WORD - 1, NEW n \in 0 .. WORD - 1
    PROVE  (((t + n) % WORD) - t) % WORD = n
<1> DEFINE x == t + n
           h == x % WORD
           d == h - t
<1>1. WORD \in Nat \ {0} /\ t \in Int /\ n \in Int
  BY DEF RingAssumption
<1>2. x \in 0 .. WORD + WORD - 1
  BY <1>1
<1>3. h = IF x < WORD THEN x ELSE x - WORD
  <2> HIDE DEF x
  <2> QED BY <1>2, Wraps
<1>4. d \in Int /\ (d = n \/ d + WORD * 1 = n)
  BY <1>1, <1>3
<1>5. n % WORD = n
  <2>1. n \in 0 .. WORD + WORD - 1 /\ n < WORD
    BY <1>1
  <2> QED BY <2>1, Wraps
<1> DEFINE k == 1
<1> HIDE DEF d
<1>6. (d + WORD * 1) % WORD = d % WORD
  <2>1. k \in Int
    OBVIOUS
  <2> HIDE DEF k
  <2>2. (d + WORD * k) % WORD = d % WORD
    BY <1>1, <1>4, <2>1, Multiples
  <2> QED BY <2>2 DEF k
<1>7. d % WORD = n
  BY <1>4, <1>5, <1>6
<1> QED BY <1>7 DEF d

(* The count the two sides compute from the indices.                       *)
LEMMA CountIsInside ==
    ASSUME RingAssumption, RingInv PROVE slibc_ring_count = Inside
<1> DEFINE n == Inside
<1>1. n \in 0 .. WORD - 1 /\ tail \in 0 .. WORD - 1 /\ head = (tail + n) % WORD
  BY DEF RingAssumption, RingInv
<1> HIDE DEF n
<1>2. (((tail + n) % WORD) - tail) % WORD = n
  BY <1>1, Apart
<1> QED BY <1>1, <1>2 DEF slibc_ring_count, n

(* The producer's slot is as far from the consumer's as what is inside.    *)
LEMMA HeadSlot ==
    ASSUME RingAssumption, RingInv PROVE head % cap = (tail + Inside) % cap
<1> DEFINE n == Inside
<1>1. cap \in Nat \ {0} /\ WORD \in Nat /\ WORD > cap
  BY DEF RingAssumption
<1>2. tail \in Nat /\ tail < WORD /\ n \in 0 .. cap /\ head = (tail + n) % WORD
  BY <1>1 DEF RingInv
<1> HIDE DEF n
<1>3. tail + n \in 0 .. WORD + WORD - 1
  BY <1>1, <1>2
<1>4. (((tail + n) % WORD) + 0) % cap = (tail + n + 0) % cap
  BY <1>3, SlotOfWord
<1>5. (tail + n) % WORD \in Int /\ tail + n \in Int
  BY <1>1, <1>2, Divided
<1> QED BY <1>2, <1>4, <1>5 DEF n

LEMMA RingInvInit == ASSUME RingAssumption, RingInit PROVE RingInv
<1>1. cap \in Nat \ {0} /\ WORD \in Nat \ {0} /\ cap < WORD
  BY DEF RingAssumption
<1>2. (CHOOSE e \in Elems : TRUE) \in Elems
  BY DEF RingAssumption
<1>3. buf \in [0 .. cap - 1 -> Elems]
  BY <1>2 DEF RingInit
<1>4. pushed \in Seq(Elems) /\ popped \in Seq(Elems) /\ Inside = 0 /\ Len(popped) = 0
  BY DEF RingInit, Inside
<1>5. head = (tail + Inside) % WORD
  <2>1. 0 \in 0 .. WORD + WORD - 1 /\ 0 % WORD = 0
    BY <1>1, Wraps
  <2> QED BY <1>4, <2>1 DEF RingInit
<1> QED BY <1>1, <1>3, <1>4, <1>5 DEF RingInit, RingInv

(* Writing a slot that is not between the indices.                         *)
LEMMA PushKeeps ==
    ASSUME RingAssumption, RingInv, NEW e \in Elems, slibc_ring_push(e)
    PROVE  RingInv'
<1>1. cap \in Nat \ {0} /\ WORD \in Nat /\ WORD > cap
  BY DEF RingAssumption
<1>2. UNCHANGED <<head, tail, taken, pushed, popped>> /\ put' = <<e>>
      /\ buf' = [buf EXCEPT ![head % cap] = e] /\ Inside' = Inside
  BY DEF slibc_ring_push, Inside
<1> DEFINE n == Inside
           h == head % cap
<1>3. n \in 0 .. cap /\ n < cap
  <2>1. slibc_ring_count # cap
    BY DEF slibc_ring_push, slibc_ring_full, slibc_ring_count
  <2>2. slibc_ring_count = n
    BY CountIsInside
  <2>3. n \in 0 .. cap
    BY DEF RingInv
  <2> HIDE DEF n
  <2> QED BY <1>1, <2>1, <2>2, <2>3
<1>4. h \in 0 .. cap - 1
  <2>1. head \in Int
    BY DEF RingInv
  <2> QED BY <1>1, <2>1, Divided
<1> HIDE DEF n, h
<1>5. tail \in Nat /\ tail + n \in 0 .. WORD + WORD - 1
  BY <1>1, <1>3 DEF RingInv
<1>6. h = (tail + n) % cap
  BY HeadSlot DEF h, n
<1>7. buf' \in [0 .. cap - 1 -> Elems] /\ buf'[h] = e
      /\ \A j \in 0 .. cap - 1 : j # h => buf'[j] = buf[j]
  BY <1>2, <1>4 DEF RingInv, h
<1>8. ASSUME NEW i \in 1 .. n
      PROVE  buf'[(tail + i - 1) % cap] = pushed[Len(popped) + i]
  <2>1. i - 1 \in Nat /\ i - 1 < n /\ n < i - 1 + cap
    BY <1>1, <1>3
  <2>2. (tail + (i - 1)) % cap # (tail + n) % cap
    <3> DEFINE k == i - 1
    <3>1. k \in Nat /\ k < n /\ n < k + cap /\ n \in Nat
      BY <1>3, <2>1
    <3> HIDE DEF k
    <3>2. (tail + k) % cap # (tail + n) % cap
      BY <1>5, <3>1, SlotsDiffer
    <3> QED BY <3>2 DEF k
  <2>3. tail + (i - 1) = tail + i - 1 /\ tail + i - 1 \in Int
    BY <1>5
  <2>4. (tail + i - 1) % cap \in 0 .. cap - 1
    BY <1>1, <2>3, Divided
  <2>5. buf[(tail + i - 1) % cap] = pushed[Len(popped) + i]
    BY DEF RingInv, n
  <2> QED BY <1>6, <1>7, <2>2, <2>3, <2>4, <2>5
<1>9. buf'[head % cap] = e
  BY <1>7 DEF h
<1> QED BY <1>2, <1>3, <1>7, <1>8, <1>9 DEF RingInv, n

(* An index that has wrapped goes on as if it had not.                     *)
LEMMA WordGoesOn ==
    ASSUME RingAssumption, NEW x \in 0 .. WORD + WORD - 1, NEW y \in Int
    PROVE  ((x % WORD) + y) % WORD = (x + y) % WORD
<1> DEFINE k == 1
<1>1. WORD \in Nat \ {0} /\ k \in Int /\ x \in Int
  BY DEF RingAssumption
<1>2. CASE x < WORD
  BY <1>2, Wraps
<1>3. CASE x >= WORD
  <2>1. x % WORD = x - WORD
    BY <1>1, <1>3, Wraps
  <2>2. x - WORD + y \in Int /\ x + y = (x - WORD + y) + WORD * k
    BY <1>1
  <2> HIDE DEF k
  <2>3. ((x - WORD + y) + WORD * k) % WORD = (x - WORD + y) % WORD
    BY <1>1, <2>2, Multiples
  <2> QED BY <2>1, <2>2, <2>3
<1> QED BY <1>1, <1>2, <1>3

(* The slot ahead of the others becomes the last of them.                  *)
LEMMA PublishKeeps ==
    ASSUME RingAssumption, RingInv, Published PROVE RingInv'
<1> DEFINE n == Inside
<1>1. cap \in Nat \ {0} /\ WORD \in Nat \ {0} /\ WORD > cap
  BY DEF RingAssumption
<1>2. UNCHANGED <<buf, tail, taken, popped>> /\ put' = <<>>
      /\ head' = (head + 1) % WORD
  BY DEF Published
<1>3. PICK e \in Elems : put = <<e>> /\ buf[head % cap] = e
  BY DEF Published, RingInv
<1>4. n \in 0 .. cap /\ n < cap /\ n = Len(pushed) - Len(popped)
      /\ tail \in Nat /\ tail < WORD /\ head = (tail + n) % WORD
  BY <1>1 DEF RingInv, Published, Inside
<1>5. pushed' = Append(pushed, e) /\ pushed' \in Seq(Elems)
  BY <1>3 DEF Published, RingInv
<1>6. /\ Len(pushed') = Len(pushed) + 1 /\ pushed'[Len(pushed) + 1] = e
      /\ \A i \in 1 .. Len(pushed) : pushed'[i] = pushed[i]
      /\ Len(pushed) \in Nat /\ Len(popped) \in Nat
  BY <1>5 DEF RingInv
<1>7. Inside' = n + 1
  BY <1>2, <1>6 DEF Inside
<1> HIDE DEF n
<1>8. head' = (tail + (n + 1)) % WORD /\ head' \in 0 .. WORD - 1
  <2>1. tail + n \in 0 .. WORD + WORD - 1 /\ 1 \in Int
    BY <1>1, <1>4
  <2>2. (((tail + n) % WORD) + 1) % WORD = (tail + n + 1) % WORD
    BY <2>1, WordGoesOn
  <2>3. tail + (n + 1) = tail + n + 1 /\ tail + n + 1 \in Int
    BY <1>4
  <2> QED BY <1>1, <1>2, <1>4, <2>2, <2>3, Divided
<1>9. ASSUME NEW i \in 1 .. n + 1
      PROVE  buf[(tail + i - 1) % cap] = pushed'[Len(popped) + i]
  <2>1. CASE i = n + 1
    <3>1. tail + i - 1 = tail + n /\ Len(popped) + i = Len(pushed) + 1
      BY <1>4, <1>6, <2>1
    <3>2. head % cap = (tail + n) % cap
      BY HeadSlot DEF n
    <3> QED BY <1>3, <1>6, <3>1, <3>2
  <2>2. CASE i \in 1 .. n
    <3>1. buf[(tail + i - 1) % cap] = pushed[Len(popped) + i]
      BY <2>2 DEF RingInv, n
    <3>2. Len(popped) + i \in 1 .. Len(pushed)
      BY <1>4, <1>6, <2>2
    <3> QED BY <1>6, <3>1, <3>2
  <2> QED BY <1>4, <2>1, <2>2
<1>10. \A i \in 1 .. Len(popped) : popped[i] = pushed'[i]
  BY <1>4, <1>6 DEF RingInv
<1>11. taken # <<>> => pushed'[Len(popped) + 1] = pushed[Len(popped) + 1] /\ n > 0
  BY <1>4, <1>6 DEF RingInv, n
<1>12. taken = <<>> \/ (n + 1 > 0 /\ taken = <<pushed'[Len(popped) + 1]>>)
  BY <1>4, <1>11 DEF RingInv
<1>13. n + 1 \in 0 .. cap
  BY <1>1, <1>4
<1> QED BY <1>2, <1>5, <1>7, <1>8, <1>9, <1>10, <1>12, <1>13 DEF RingInv

(* What is copied is the oldest.                                           *)
LEMMA PopKeeps ==
    ASSUME RingAssumption, RingInv, slibc_ring_pop PROVE RingInv'
<1> DEFINE n == Inside
<1>1. cap \in Nat \ {0} /\ WORD \in Nat /\ WORD > cap
  BY DEF RingAssumption
<1>2. UNCHANGED <<buf, head, tail, put, pushed, popped>> /\ Inside' = n
      /\ taken' = <<buf[tail % cap]>>
  BY DEF slibc_ring_pop, slibc_ring_peek, Inside
<1>3. n \in 0 .. cap /\ tail \in 0 .. WORD - 1 /\ head = (tail + n) % WORD
      /\ head # tail
  BY DEF RingInv, slibc_ring_pop, slibc_ring_empty
<1>4. \A i \in 1 .. n : buf[(tail + i - 1) % cap] = pushed[Len(popped) + i]
  BY DEF RingInv
<1> HIDE DEF n
<1>5. n > 0
  <2>1. tail \in 0 .. WORD + WORD - 1 /\ tail % WORD = tail
    BY <1>1, <1>3, Wraps
  <2>2. tail + 0 = tail
    BY <1>3
  <2> QED BY <1>3, <2>1, <2>2
<1>6. buf[tail % cap] = pushed[Len(popped) + 1]
  <2>1. 1 \in 1 .. n /\ tail + 1 - 1 = tail
    BY <1>3, <1>5
  <2>2. buf[(tail + 1 - 1) % cap] = pushed[Len(popped) + 1]
    BY <1>4, <2>1
  <2> QED BY <2>1, <2>2
<1> QED BY <1>2, <1>5, <1>6 DEF RingInv, n

(* Its slot leaves the front.                                              *)
LEMMA ReleaseKeeps ==
    ASSUME RingAssumption, RingInv, Released PROVE RingInv'
<1> DEFINE n == Inside
           e == pushed[Len(popped) + 1]
<1>1. cap \in Nat \ {0} /\ WORD \in Nat \ {0} /\ WORD > cap
  BY DEF RingAssumption
<1>2. UNCHANGED <<buf, head, put, pushed>> /\ taken' = <<>>
      /\ tail' = (tail + 1) % WORD
  BY DEF Released
<1>3. n \in 0 .. cap /\ n > 0 /\ n = Len(pushed) - Len(popped)
      /\ tail \in 0 .. WORD - 1 /\ head = (tail + n) % WORD
      /\ taken = <<e>> /\ Len(pushed) \in Nat /\ Len(popped) \in Nat
  BY DEF Released, RingInv, Inside
<1>4. e \in Elems
  BY <1>3 DEF RingInv
<1>5. popped' = Append(popped, e) /\ popped' \in Seq(Elems)
  BY <1>3, <1>4 DEF Released, RingInv
<1>6. /\ Len(popped') = Len(popped) + 1 /\ popped'[Len(popped) + 1] = e
      /\ \A i \in 1 .. Len(popped) : popped'[i] = popped[i]
  BY <1>5 DEF RingInv
<1>7. Inside' = n - 1
  BY <1>2, <1>3, <1>6 DEF Inside
<1>8. \A i \in 1 .. Len(popped') : popped'[i] = pushed[i]
  BY SMTT(40), <1>3, <1>6 DEF RingInv
<1>9. \A i \in 1 .. n : buf[(tail + i - 1) % cap] = pushed[Len(popped) + i]
  BY DEF RingInv
<1>10. put = <<>> \/ /\ n < cap
                     /\ \E f \in Elems : put = <<f>> /\ buf[head % cap] = f
  BY DEF RingInv
<1> HIDE DEF n, e
<1>11. tail + 1 \in 0 .. WORD + WORD - 1 /\ tail + 1 \in Int
  BY <1>1, <1>3
<1>12. tail' \in 0 .. WORD - 1
  BY <1>1, <1>2, <1>11, Divided
<1>13. head = (tail' + (n - 1)) % WORD
  <2>1. n - 1 \in Int /\ (tail + 1) + (n - 1) = tail + n
    BY <1>3
  <2>2. (((tail + 1) % WORD) + (n - 1)) % WORD = ((tail + 1) + (n - 1)) % WORD
    BY <1>11, <2>1, WordGoesOn
  <2> QED BY <1>2, <1>3, <2>1, <2>2
<1>14. ASSUME NEW i \in 1 .. n - 1
       PROVE  buf[(tail' + i - 1) % cap] = pushed[Len(popped') + i]
  <2> DEFINE k == i - 1
             x == tail + 1
             j == i + 1
  <2>1. k \in Nat /\ j \in 1 .. n /\ tail' + i - 1 = tail' + k
        /\ x + k = tail + j - 1 /\ Len(popped') + i = Len(popped) + j
    BY <1>3, <1>6, <1>12
  <2>2. x \in 0 .. WORD + WORD - 1 /\ tail' = x % WORD
    BY <1>2, <1>11
  <2> HIDE DEF k, x, j
  <2>3. ((x % WORD) + k) % cap = (x + k) % cap
    BY <2>1, <2>2, SlotOfWord
  <2>4. buf[(tail + j - 1) % cap] = pushed[Len(popped) + j]
    BY <1>9, <2>1
  <2> QED BY <2>1, <2>2, <2>3, <2>4
<1>15. n - 1 \in 0 .. cap /\ n - 1 < cap
  BY <1>1, <1>3
<1> QED
  BY <1>2, <1>5, <1>7, <1>8, <1>10, <1>12, <1>13, <1>14, <1>15 DEF RingInv

(* An empty ring from the start.                                           *)
LEMMA ClearKeeps ==
    ASSUME RingAssumption, RingInv, slibc_ring_clear PROVE RingInv'
<1>1. cap \in Nat \ {0} /\ WORD \in Nat \ {0} /\ cap < WORD
  BY DEF RingAssumption
<1>2. head' = 0 /\ tail' = 0 /\ popped' = pushed /\ UNCHANGED <<buf, put, taken, pushed>>
      /\ put = <<>> /\ taken = <<>>
  BY DEF slibc_ring_clear
<1>3. Inside' = 0 /\ Len(pushed) \in Nat
  BY <1>2 DEF Inside, RingInv
<1>4. 0 \in 0 .. WORD + WORD - 1 /\ 0 % WORD = 0
  BY <1>1, Wraps
<1>5. head' = (tail' + Inside') % WORD /\ head' \in 0 .. WORD - 1
  BY <1>1, <1>2, <1>3, <1>4
<1> QED BY <1>1, <1>2, <1>3, <1>5 DEF RingInv

LEMMA RingInvNext == ASSUME RingAssumption, RingInv, [RingNext]_ringVars PROVE RingInv'
<1>1. ASSUME NEW e \in Elems, slibc_ring_push(e) PROVE RingInv'
  BY <1>1, PushKeeps
<1>2. CASE Published
  BY <1>2, PublishKeeps
<1>3. CASE slibc_ring_pop
  BY <1>3, PopKeeps
<1>4. CASE Released
  BY <1>4, ReleaseKeeps
<1>5. CASE slibc_ring_clear
  BY <1>5, ClearKeeps
<1>6. CASE UNCHANGED ringVars
  BY <1>6 DEF ringVars, RingInv, Inside
<1> QED BY <1>1, <1>2, <1>3, <1>4, <1>5, <1>6 DEF RingNext

LEMMA InvIsOrder == ASSUME RingAssumption, RingInv PROVE FirstInFirstOut
<1> DEFINE n == Len(popped)
<1>1. n \in Nat /\ n <= Len(pushed) /\ Len(pushed) \in Nat
  BY DEF RingInv, Inside
<1>2. popped = SubSeq(pushed, 1, n)
  <2>1. pushed \in Seq(Elems) /\ popped \in Seq(Elems)
        /\ \A i \in 1 .. n : popped[i] = pushed[i]
    BY DEF RingInv
  <2> QED BY <1>1, <2>1
<1>3. slibc_ring_count = Len(pushed) - n
  BY CountIsInside DEF Inside
<1>4. \A i \in 1 .. Len(pushed) - n : buf[(tail + i - 1) % cap] = pushed[n + i]
  BY DEF RingInv, Inside
<1>5. taken # <<>> => taken[1] = pushed[n + 1]
  BY DEF RingInv
<1> QED BY <1>2, <1>3, <1>4, <1>5 DEF FirstInFirstOut

(* What comes out of the ring of systrix_libc.c is what went in, in that   *)
(* order, however the accesses of the two sides interleave and however     *)
(* often the indices have wrapped.                                         *)
THEOREM RingIsQueue == ASSUME RingAssumption PROVE RingSpec => []FirstInFirstOut
<1>1. RingInit => RingInv
  BY RingInvInit
<1>2. RingInv /\ [RingNext]_ringVars => RingInv'
  BY RingInvNext
<1>3. RingInv => FirstInFirstOut
  BY InvIsOrder
<1> QED BY <1>1, <1>2, <1>3, PTL DEF RingSpec

=============================================================================
