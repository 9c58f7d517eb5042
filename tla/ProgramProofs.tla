---------------------------- MODULE ProgramProofs ---------------------------
(***************************************************************************)
(* Proofs about Proc, for every size of the process table and of the       *)
(* pools, also in the setting of MCPrograms where programs only exit,      *)
(* sleep and fault, and about Ipc, for every number of processes, depth of *)
(* the inboxes and size of the registry.                                   *)
(***************************************************************************)
EXTENDS Ipc, MCPrograms, FiniteSetTheorems, SequenceTheorems,
        WellFoundedInduction, TLAPS

-----------------------------------------------------------------------------
(* A nonempty set of naturals has a least element, which Min chooses.      *)
LEMMA MinNat ==
    ASSUME NEW S, S \subseteq Nat, S # {}
    PROVE  Min(S) \in S /\ \A y \in S : Min(S) <= y
<1> DEFINE Initial == {0 .. x : x \in S}
<1>1. \A x \in S : IsFiniteSet(0 .. x)
  BY FS_Interval
<1>2. Initial \subseteq FiniteSubsetsOf(Nat) /\ Initial # {}
  <2>1. \A x \in S : 0 .. x \in SUBSET Nat
    OBVIOUS
  <2>2. \A x \in S : 0 .. x \in FiniteSubsetsOf(Nat)
    BY <1>1, <2>1 DEF FiniteSubsetsOf
  <2>3. Initial \subseteq FiniteSubsetsOf(Nat)
    BY <2>2
  <2>4. PICK x : x \in S
    OBVIOUS
  <2>5. 0 .. x \in Initial
    BY <2>4
  <2> HIDE DEF Initial
  <2> QED BY <2>3, <2>5
<1>3. IsWellFoundedOn(StrictSubsetOrdering(Nat), FiniteSubsetsOf(Nat))
  BY FS_StrictSubsetOrderingWellFounded
<1>4. PICK A \in Initial :
        \A B \in Initial : ~(<<B, A>> \in StrictSubsetOrdering(Nat))
  <2> HIDE DEF Initial
  <2> QED BY <1>2, <1>3, WFMin
<1>5. PICK x \in S : A = 0 .. x
  OBVIOUS
<1>6. \A y \in S : x <= y
  <2> SUFFICES ASSUME NEW y \in S, ~(x <= y) PROVE FALSE
    OBVIOUS
  <2>1. 0 .. y \in Initial
    OBVIOUS
  <2>2. 0 .. y \subseteq 0 .. x /\ 0 .. y # 0 .. x
    <3>1. y \in Nat /\ x \in Nat /\ y < x
      OBVIOUS
    <3>2. x \in 0 .. x /\ x \notin 0 .. y
      BY <3>1
    <3> QED BY <3>1, <3>2
  <2>3. <<0 .. y, 0 .. x>> \in StrictSubsetOrdering(Nat)
    BY <2>2 DEF StrictSubsetOrdering
  <2> QED BY <1>4, <1>5, <2>1, <2>3
<1> QED BY <1>6 DEF Min

(* The scans of the process table find a slot in the state they look for.  *)
LEMMA Scans ==
    /\ HasEmpty => FirstEmpty \in Slots /\ pcb[FirstEmpty].state = "EMPTY"
    /\ IsRunning => /\ process_current_pcb \in Slots
                    /\ pcb[process_current_pcb].state = "RUNNING"
<1>1. Slots \subseteq Nat
  BY ProcAssumption DEF Slots, ProcAssumption
<1>2. InState(pcb, "EMPTY") \subseteq Nat /\ InState(pcb, "RUNNING") \subseteq Nat
  BY <1>1 DEF InState
<1>3. HasEmpty => FirstEmpty \in InState(pcb, "EMPTY")
  BY <1>2, MinNat DEF HasEmpty, FirstEmpty
<1>4. IsRunning => process_current_pcb \in InState(pcb, "RUNNING")
  BY <1>2, MinNat DEF IsRunning, process_current_pcb
<1> QED BY <1>3, <1>4 DEF InState

(* Allocation hands out a resource of the pool that is free.               *)
LEMMA Pools ==
    ASSUME TypeOK
    PROVE  /\ stacks # 1 .. MaxStacks =>
                KernelStack \in 1 .. MaxStacks /\ KernelStack \notin stacks
           /\ VmaTable \in 0 .. MaxVmas
<1>1. stacks # 1 .. MaxStacks => KernelStack \in (1 .. MaxStacks) \ stacks
  <2> SUFFICES ASSUME stacks # 1 .. MaxStacks
               PROVE  KernelStack \in (1 .. MaxStacks) \ stacks
    OBVIOUS
  <2>1. \E x \in 1 .. MaxStacks : x \notin stacks
    BY DEF TypeOK
  <2>2. (1 .. MaxStacks) \ stacks # {}
    BY <2>1
  <2>3. (1 .. MaxStacks) \ stacks \subseteq Nat
    BY ProcAssumption DEF ProcAssumption
  <2> QED BY <2>2, <2>3, MinNat DEF KernelStack
<1>2. vmas # 1 .. MaxVmas => VmaTable \in (1 .. MaxVmas) \ vmas
  <2> SUFFICES ASSUME vmas # 1 .. MaxVmas
               PROVE  VmaTable \in (1 .. MaxVmas) \ vmas
    OBVIOUS
  <2>1. \E x \in 1 .. MaxVmas : x \notin vmas
    BY DEF TypeOK
  <2>2. (1 .. MaxVmas) \ vmas # {}
    BY <2>1
  <2>3. (1 .. MaxVmas) \ vmas \subseteq Nat
    BY ProcAssumption DEF ProcAssumption
  <2> QED BY <2>2, <2>3, MinNat DEF VmaTable
<1>3. vmas = 1 .. MaxVmas => VmaTable = 0
  BY DEF VmaTable, Nil
<1> QED BY <1>1, <1>2, <1>3, ProcAssumption DEF ProcAssumption

(* Round robin picks a READY slot whenever there is one.                   *)
LEMMA NextIsReady ==
    ASSUME NEW table, NEW cur \in Slots, InState(table, "READY") # {}
    PROVE  NextReady(table, cur) \in InState(table, "READY")
<1> DEFINE R == InState(table, "READY")
           D == {Distance(cur, s) : s \in R}
<1>1. R \subseteq Slots /\ R # {}
  BY DEF InState
<1>2. \A s \in Slots : Distance(cur, s) \in Nat
  BY ProcAssumption DEF Slots, Distance, ProcAssumption
<1>3. D \subseteq Nat
  BY <1>1, <1>2
<1>4. D # {}
  BY <1>1
<1>5. Min(D) \in D /\ \A d \in D : Min(D) <= d
  <2> HIDE DEF D
  <2> QED BY <1>3, <1>4, MinNat
<1>6. PICK n \in R : Min(D) = Distance(cur, n)
  BY <1>5
<1>7. \A s \in R : Distance(cur, n) <= Distance(cur, s)
  BY <1>5, <1>6
<1> QED BY <1>6, <1>7 DEF NextReady

-----------------------------------------------------------------------------
(* The inductive invariant: READY is never reached, since nothing wakes a  *)
(* BLOCKED process and the timer puts the one it interrupts back; and while*)
(* the machine can execute, the only live process is the one that has the  *)
(* processor, on its own address space.                                    *)
NoneReady == \A s \in Slots : pcb[s].state # "READY"

Owner(s) ==
    /\ cpu.who \in {"user", "sleep", "spin"}
    /\ cpu.slot = s
    /\ pcb[s].state = IF cpu.who = "sleep" THEN "BLOCKED" ELSE "RUNNING"
    /\ pcb[s].cr3 = cpu.cr3
    /\ pcb[s].cr3 \in spaces
    /\ pcb[s].kbase \in stacks
    /\ pcb[s].vma_table \in vmas \cup {Nil}

ProcInv ==
    /\ TypeOK
    /\ NoneReady
    /\ loaded \subseteq spaces
    /\ CanExecute => \A s \in Slots : Live(s) => Owner(s)

(* The timer changes no state of any process: it saves where the           *)
(* interrupted one was and, round the table, comes back to it.             *)
LEMMA TimerKeeps ==
    ASSUME ProcInv, TimerTick
    PROVE  \/ UNCHANGED procVars
           \/ /\ IsRunning
              /\ pcb' = [pcb EXCEPT ![process_current_pcb] =
                           [@ EXCEPT !.cr3 = cpu.cr3, !.saved = cpu.slot]]
              /\ cpu' = [cpu EXCEPT !.who = "user"]
              /\ current_pid' = pcb[process_current_pcb].pid
              /\ UNCHANGED <<spaces, loaded, stacks, vmas>>
<1> USE DEF ProcInv
<1>1. CASE ~IsRunning
  <2>1. InState(pcb, "READY") = {}
    BY DEF NoneReady, InState
  <2> QED BY <1>1, <2>1 DEF TimerTick
<1>2. CASE IsRunning
  <2> DEFINE cur == process_current_pcb
             table == [pcb EXCEPT ![cur].state = "READY",
                                  ![cur].cr3 = cpu.cr3,
                                  ![cur].saved = cpu.slot]
             next == NextReady(table, cur)
  <2>1. cur \in Slots /\ pcb[cur].state = "RUNNING"
    BY <1>2, Scans
  <2>2. pcb \in [Slots -> PCB] /\ cpu \in Cpu
    BY DEF TypeOK
  <2>3. table[cur] = [pcb[cur] EXCEPT !.state = "READY", !.cr3 = cpu.cr3,
                                      !.saved = cpu.slot]
    BY <2>1, <2>2
  <2>4. \A s \in Slots : s # cur => table[s] = pcb[s]
    BY <2>1, <2>2
  <2>5. table[cur].state = "READY"
    BY <2>1, <2>2 DEF PCB
  <2>6. InState(table, "READY") = {cur}
    BY <2>1, <2>4, <2>5 DEF InState, NoneReady
  <2>7. next = cur
    <3> HIDE DEF table, cur
    <3> QED BY <2>1, <2>6, NextIsReady
  <2>8. /\ pcb' = [table EXCEPT ![cur].state = "RUNNING"]
        /\ cpu' = [cpu EXCEPT
              !.who = "user",
              !.slot = table[cur].saved,
              !.cr3 = IF table[cur].cr3 # Nil THEN table[cur].cr3 ELSE @]
        /\ current_pid' = table[cur].pid
        /\ UNCHANGED <<spaces, loaded, stacks, vmas>>
    BY <1>2, <2>6, <2>7 DEF TimerTick
  <2>9. /\ table[cur].saved = cpu.slot /\ table[cur].cr3 = cpu.cr3
        /\ table[cur].pid = pcb[cur].pid
    BY <2>1, <2>2, <2>3 DEF PCB
  <2>10. cpu' = [cpu EXCEPT !.who = "user"]
    BY <2>2, <2>8, <2>9 DEF Cpu
  <2>11. pcb' = [pcb EXCEPT ![cur] =
                   [@ EXCEPT !.cr3 = cpu.cr3, !.saved = cpu.slot]]
    <3>1. [table[cur] EXCEPT !.state = "RUNNING"] =
            [pcb[cur] EXCEPT !.cr3 = cpu.cr3, !.saved = cpu.slot]
      BY <2>1, <2>2, <2>3 DEF PCB
    <3> QED BY <2>1, <2>2, <2>4, <2>8, <3>1
  <2> QED BY <1>2, <2>8, <2>9, <2>10, <2>11
<1> QED BY <1>1, <1>2

-----------------------------------------------------------------------------
(* Creating a process fills one EMPTY slot with what it just allocated.    *)
LEMMA Creation ==
    ASSUME ProcInv, NEW st \in States, NEW c \in 1 .. MaxSpaces,
           process_create(st, c)
    PROVE  /\ pcb' \in [Slots -> PCB]
           /\ spaces' \subseteq 1 .. MaxSpaces
           /\ stacks' \subseteq 1 .. MaxStacks
           /\ vmas' \subseteq 1 .. MaxVmas
           /\ c \notin spaces
           /\ spaces' = spaces \cup {c}
           /\ stacks \subseteq stacks' /\ vmas \subseteq vmas'
           /\ \E n \in Slots :
                /\ n = FirstEmpty
                /\ pcb[n].state = "EMPTY"
                /\ pcb'[n].state = st
                /\ pcb'[n].cr3 = c
                /\ pcb'[n].kbase \in stacks'
                /\ pcb'[n].vma_table \in vmas' \cup {Nil}
                /\ \A s \in Slots : s # n => pcb'[s] = pcb[s]
<1>1. TypeOK
  BY DEF ProcInv
<1>2. /\ FirstEmpty \in Slots /\ pcb[FirstEmpty].state = "EMPTY"
      /\ KernelStack \in 1 .. MaxStacks
      /\ VmaTable \in 0 .. MaxVmas
  BY <1>1, Scans, Pools DEF process_create
<1> DEFINE new == [state |-> st, pid |-> FirstEmpty + 1, cr3 |-> c,
                   kbase |-> KernelStack, vma_table |-> VmaTable,
                   saved |-> FirstEmpty]
<1>3. new \in PCB
  <2>1. FirstEmpty + 1 \in 0 .. PROC_MAX
    BY <1>2, ProcAssumption DEF Slots, ProcAssumption
  <2>2. c \in 0 .. MaxSpaces /\ KernelStack \in 0 .. MaxStacks
    BY <1>2, ProcAssumption DEF ProcAssumption
  <2> QED BY <1>2, <2>1, <2>2 DEF PCB
<1>4. pcb' = [pcb EXCEPT ![FirstEmpty] = new]
  BY DEF process_create
<1>5. pcb \in [Slots -> PCB]
  BY <1>1 DEF TypeOK
<1>6. pcb' \in [Slots -> PCB]
  <2> HIDE DEF new
  <2> QED BY <1>3, <1>4, <1>5
<1>7. pcb'[FirstEmpty] = new /\ \A s \in Slots : s # FirstEmpty => pcb'[s] = pcb[s]
  <2> HIDE DEF new
  <2> QED BY <1>2, <1>4, <1>5
<1>8. /\ spaces' = spaces \cup {c} /\ stacks' = stacks \cup {KernelStack}
      /\ vmas' = vmas \cup ({VmaTable} \ {Nil})
      /\ c \notin spaces
  BY DEF process_create
<1>9. VmaTable \in vmas' \cup {Nil}
  BY <1>8
<1>10. vmas' \subseteq 1 .. MaxVmas
  BY <1>1, <1>2, <1>8, ProcAssumption DEF TypeOK, Nil, ProcAssumption
<1> QED BY <1>1, <1>2, <1>6, <1>7, <1>8, <1>9, <1>10 DEF TypeOK

(* At start no process is live and nothing is allocated.                   *)
LEMMA InvInit == ProcInit => ProcInv
<1> SUFFICES ASSUME ProcInit PROVE ProcInv
  OBVIOUS
<1>1. EmptyPcb \in PCB
  <2>1. 0 \in Slots /\ 0 \in 0 .. PROC_MAX /\ 0 \in 0 .. MaxSpaces
        /\ 0 \in 0 .. MaxStacks /\ 0 \in 0 .. MaxVmas
    BY ProcAssumption DEF ProcAssumption, Slots
  <2> QED BY <2>1 DEF EmptyPcb, PCB, States, Nil
<1>2. cpu \in Cpu
  <2>1. 0 \in Slots /\ 0 \in 0 .. MaxSpaces
    BY ProcAssumption DEF ProcAssumption, Slots
  <2> QED BY <2>1 DEF ProcInit, Cpu, KernelSpace
<1>3. \A s \in Slots : pcb[s].state = "EMPTY"
  BY DEF ProcInit, EmptyPcb
<1>4. TypeOK
  BY <1>1, <1>2, ProcAssumption DEF ProcInit, TypeOK, ProcAssumption
<1> QED BY <1>3, <1>4 DEF ProcInv, ProcInit, NoneReady, Live, LiveStates

(* A program is started from the shell, when no process is live.           *)
LEMMA InvRunProgram == ProcInv /\ RunProgram => ProcInv'
<1> SUFFICES ASSUME ProcInv, RunProgram PROVE ProcInv'
  OBVIOUS
<1>1. PICK c \in 1 .. MaxSpaces :
        /\ process_create("RUNNING", c)
        /\ EnterUser(FirstEmpty, c)
        /\ loaded' = loaded \cup {c} \/ loaded' = loaded \ {c}
  BY DEF RunProgram
<1>2. /\ pcb' \in [Slots -> PCB]
      /\ spaces' \subseteq 1 .. MaxSpaces
      /\ stacks' \subseteq 1 .. MaxStacks
      /\ vmas' \subseteq 1 .. MaxVmas
      /\ spaces' = spaces \cup {c}
  BY <1>1, Creation DEF States
<1>3. PICK n \in Slots :
        /\ n = FirstEmpty
        /\ pcb'[n].state = "RUNNING"
        /\ pcb'[n].cr3 = c
        /\ pcb'[n].kbase \in stacks'
        /\ pcb'[n].vma_table \in vmas' \cup {Nil}
        /\ \A s \in Slots : s # n => pcb'[s] = pcb[s]
  BY <1>1, Creation DEF States
<1>4. /\ cpu' = [who |-> "user", slot |-> n, cr3 |-> c, deadline |-> FALSE]
      /\ current_pid' = current_pid
      /\ cpu.who = "shell"
  BY <1>1, <1>3 DEF EnterUser, RunProgram
<1>5. TypeOK'
  <2>1. c \in 0 .. MaxSpaces
    BY ProcAssumption DEF ProcAssumption
  <2>2. cpu' \in Cpu
    BY <1>4, <2>1 DEF Cpu
  <2> QED BY <1>1, <1>2, <1>4, <2>2 DEF TypeOK, ProcInv
<1>6. \A s \in Slots : ~Live(s)
  BY <1>4 DEF ProcInv, Owner, CanExecute
<1>7. \A s \in Slots : Live(s)' => s = n
  BY <1>3, <1>6 DEF Live
<1>8. Owner(n)'
  BY <1>2, <1>3, <1>4 DEF Owner
<1>9. NoneReady'
  BY <1>3 DEF NoneReady, ProcInv
<1>10. (loaded \subseteq spaces)'
  BY <1>1, <1>2 DEF ProcInv
<1> QED BY <1>5, <1>7, <1>8, <1>9, <1>10 DEF ProcInv

(* While a program executes, the live process is the RUNNING one that a    *)
(* scan finds.                                                             *)
LEMMA TheRunningProcess ==
    ASSUME ProcInv, Executing
    PROVE  /\ CanExecute
           /\ cpu.who = "user"
           /\ \A s \in Slots : Live(s) =>
                 /\ IsRunning
                 /\ s = process_current_pcb
<1>1. CanExecute /\ cpu.who = "user"
  BY DEF Executing, CanExecute
<1>2. ASSUME NEW s \in Slots, Live(s) PROVE IsRunning /\ s = process_current_pcb
  <2>1. s = cpu.slot /\ pcb[s].state = "RUNNING"
    BY <1>1, <1>2 DEF ProcInv, Owner
  <2>2. IsRunning
    BY <2>1 DEF IsRunning, InState
  <2>3. process_current_pcb \in Slots /\ Live(process_current_pcb)
    BY <2>2, Scans DEF Live, LiveStates
  <2>4. process_current_pcb = cpu.slot
    BY <1>1, <2>3 DEF ProcInv, Owner
  <2> QED BY <2>1, <2>2, <2>4
<1> QED BY <1>1, <1>2

(* sys_exit leaves no live process behind.                                 *)
LEMMA InvSysExit == ProcInv /\ SysExit => ProcInv'
<1> SUFFICES ASSUME ProcInv, SysExit PROVE ProcInv'
  OBVIOUS
<1> DEFINE r == process_current_pcb
<1>1. Executing /\ TypeOK
  BY DEF SysExit, ProcInv
<1>2. cpu' = [cpu EXCEPT !.who = "shell", !.cr3 = KernelSpace]
      /\ current_pid' = current_pid /\ vmas' = vmas
  BY DEF SysExit
<1>3. cpu' \in Cpu
  <2>1. 0 \in 0 .. MaxSpaces
    BY ProcAssumption DEF ProcAssumption
  <2> QED BY <1>1, <1>2, <2>1 DEF TypeOK, Cpu, KernelSpace
<1>4. CASE IsRunning
  <2>1. r \in Slots /\ pcb[r].state = "RUNNING"
    BY <1>4, Scans
  <2>2. /\ pcb' = [pcb EXCEPT ![r].state = "DEAD"]
        /\ spaces' = spaces \ {pcb[r].cr3}
        /\ loaded' = loaded \ {pcb[r].cr3}
        /\ stacks' = stacks \ {pcb[r].kbase}
    BY <1>4 DEF SysExit
  <2> HIDE DEF r
  <2>3. /\ pcb' \in [Slots -> PCB] /\ pcb'[r].state = "DEAD"
        /\ \A s \in Slots : s # r => pcb'[s] = pcb[s]
    BY <1>1, <2>1, <2>2 DEF TypeOK, PCB, States
  <2>4. TypeOK'
    BY <1>1, <1>2, <1>3, <2>2, <2>3 DEF TypeOK
  <2>5. NoneReady'
    BY <2>1, <2>3 DEF ProcInv, NoneReady
  <2>6. \A s \in Slots : ~Live(s)'
    BY <1>1, <2>1, <2>3, TheRunningProcess DEF Live, LiveStates, r
  <2> QED BY <2>2, <2>4, <2>5, <2>6 DEF ProcInv
<1>5. CASE ~IsRunning
  <2>1. UNCHANGED <<pcb, spaces, loaded, stacks>>
    BY <1>5 DEF SysExit
  <2>2. \A s \in Slots : ~Live(s)'
    BY <1>1, <1>5, <2>1, TheRunningProcess DEF Live
  <2>3. TypeOK'
    BY <1>1, <1>2, <1>3, <2>1 DEF TypeOK
  <2> QED BY <2>1, <2>2, <2>3 DEF ProcInv, NoneReady
<1> QED BY <1>4, <1>5

(* sys_exit_group leaves no live process behind either.                    *)
LEMMA InvSysExitGroup == ProcInv /\ SysExitGroup => ProcInv'
<1> SUFFICES ASSUME ProcInv, SysExitGroup PROVE ProcInv'
  OBVIOUS
<1> DEFINE r == process_current_pcb
<1>1. Executing /\ TypeOK
  BY DEF SysExitGroup, ProcInv
<1>2. cpu' = [cpu EXCEPT !.who = "hung"] /\ current_pid' = current_pid
  BY DEF SysExitGroup
<1>3. cpu' \in Cpu
  BY <1>1, <1>2 DEF TypeOK, Cpu
<1>4. CASE IsRunning
  <2>1. r \in Slots /\ pcb[r].state = "RUNNING"
    BY <1>4, Scans
  <2>2. /\ pcb' = [pcb EXCEPT ![r].state = "EMPTY", ![r].cr3 = Nil,
                              ![r].kbase = Nil, ![r].vma_table = Nil]
        /\ spaces' = spaces \ {pcb[r].cr3}
        /\ loaded' = loaded \ {pcb[r].cr3}
        /\ stacks' = stacks \ {pcb[r].kbase}
        /\ vmas' = vmas \ {pcb[r].vma_table}
    BY <1>4 DEF SysExitGroup
  <2> HIDE DEF r
  <2>3. /\ Nil \in 0 .. MaxSpaces /\ Nil \in 0 .. MaxStacks
        /\ Nil \in 0 .. MaxVmas
    BY ProcAssumption DEF ProcAssumption, Nil
  <2>4. pcb[r] \in PCB
    BY <1>1, <2>1 DEF TypeOK
  <2>5. [pcb[r] EXCEPT !.state = "EMPTY", !.cr3 = Nil, !.kbase = Nil,
                       !.vma_table = Nil] \in PCB
    BY <2>3, <2>4 DEF PCB, States
  <2>6. /\ pcb'[r] = [pcb[r] EXCEPT !.state = "EMPTY", !.cr3 = Nil,
                                    !.kbase = Nil, !.vma_table = Nil]
        /\ \A s \in Slots : s # r => pcb'[s] = pcb[s]
        /\ pcb' \in [Slots -> PCB]
    BY <1>1, <2>1, <2>2, <2>5 DEF TypeOK
  <2>7. pcb'[r].state = "EMPTY"
    BY <2>4, <2>6 DEF PCB
  <2>8. TypeOK'
    BY <1>1, <1>2, <1>3, <2>2, <2>6 DEF TypeOK
  <2>9. NoneReady'
    BY <2>6, <2>7 DEF ProcInv, NoneReady
  <2>10. \A s \in Slots : ~Live(s)'
    BY <1>1, <2>6, <2>7, TheRunningProcess DEF Live, LiveStates, r
  <2> QED BY <2>2, <2>8, <2>9, <2>10 DEF ProcInv
<1>5. CASE ~IsRunning
  <2>1. UNCHANGED <<pcb, spaces, loaded, stacks, vmas>>
    BY <1>5 DEF SysExitGroup
  <2>2. \A s \in Slots : ~Live(s)'
    BY <1>1, <1>5, <2>1, TheRunningProcess DEF Live
  <2>3. TypeOK'
    BY <1>1, <1>2, <1>3, <2>1 DEF TypeOK
  <2> QED BY <2>1, <2>2, <2>3 DEF ProcInv, NoneReady
<1> QED BY <1>4, <1>5

(* The process that sys_execve makes is not live.                          *)
LEMMA InvSysExecve == ProcInv /\ SysExecve => ProcInv'
<1> SUFFICES ASSUME ProcInv, SysExecve PROVE ProcInv'
  OBVIOUS
<1>1. PICK c \in 1 .. MaxSpaces :
        process_create("EMPTY", c) /\ loaded' = loaded \cup {c}
  BY DEF SysExecve
<1>2. /\ pcb' \in [Slots -> PCB]
      /\ spaces' \subseteq 1 .. MaxSpaces
      /\ stacks' \subseteq 1 .. MaxStacks
      /\ vmas' \subseteq 1 .. MaxVmas
      /\ spaces' = spaces \cup {c}
      /\ stacks \subseteq stacks' /\ vmas \subseteq vmas'
  BY <1>1, Creation DEF States
<1>3. PICK n \in Slots :
        /\ pcb'[n].state = "EMPTY"
        /\ \A s \in Slots : s # n => pcb'[s] = pcb[s]
  BY <1>1, Creation DEF States
<1>4. Executing /\ UNCHANGED <<current_pid, cpu>>
  BY DEF SysExecve
<1>5. TypeOK'
  BY <1>1, <1>2, <1>4 DEF TypeOK, ProcInv
<1>6. NoneReady'
  BY <1>3 DEF NoneReady, ProcInv
<1>7. ASSUME NEW s \in Slots, Live(s)' PROVE Owner(s)'
  <2>1. s # n /\ pcb'[s] = pcb[s]
    BY <1>3, <1>7 DEF Live, LiveStates
  <2>2. Live(s)
    BY <1>7, <2>1 DEF Live
  <2>3. Owner(s)
    BY <1>4, <2>2, TheRunningProcess DEF ProcInv
  <2> QED BY <1>2, <1>4, <2>1, <2>3 DEF Owner
<1>8. (loaded \subseteq spaces)'
  BY <1>1, <1>2 DEF ProcInv
<1> QED BY <1>5, <1>6, <1>7, <1>8 DEF ProcInv

(* The child of sys_fork cannot execute: no page of its space is mapped.   *)
LEMMA InvSysFork == ProcInv /\ SysFork => ProcInv'
<1> SUFFICES ASSUME ProcInv, SysFork PROVE ProcInv'
  OBVIOUS
<1>1. PICK c \in 1 .. MaxSpaces :
        /\ process_create("RUNNING", c)
        /\ EnterUser(FirstEmpty, c)
        /\ LET copied == IF FirstEmpty + 1 \in Slots
                         THEN {pcb[FirstEmpty + 1].cr3} ELSE {}
           IN  loaded' = loaded \cup (copied \cap spaces)
  BY DEF SysFork
<1>2. /\ pcb' \in [Slots -> PCB]
      /\ spaces' \subseteq 1 .. MaxSpaces
      /\ stacks' \subseteq 1 .. MaxStacks
      /\ vmas' \subseteq 1 .. MaxVmas
      /\ c \notin spaces
      /\ spaces' = spaces \cup {c}
  BY <1>1, Creation DEF States
<1>3. PICK n \in Slots :
        /\ n = FirstEmpty
        /\ pcb'[n].state = "RUNNING"
        /\ \A s \in Slots : s # n => pcb'[s] = pcb[s]
  BY <1>1, Creation DEF States
<1>4. /\ cpu' = [who |-> "user", slot |-> n, cr3 |-> c, deadline |-> FALSE]
      /\ current_pid' = current_pid
  BY <1>1, <1>3 DEF EnterUser, SysFork
<1>5. loaded' \subseteq spaces
  BY <1>1 DEF ProcInv
<1>6. TypeOK'
  <2>1. c \in 0 .. MaxSpaces
    BY ProcAssumption DEF ProcAssumption
  <2>2. cpu' \in Cpu
    BY <1>4, <2>1 DEF Cpu
  <2> QED BY <1>2, <1>4, <1>5, <2>2 DEF TypeOK, ProcInv
<1>7. NoneReady'
  BY <1>3 DEF NoneReady, ProcInv
<1>8. ~CanExecute'
  BY <1>2, <1>4, <1>5 DEF CanExecute, Executing
<1> QED BY <1>2, <1>5, <1>6, <1>7, <1>8 DEF ProcInv

(* FUTEX_WAIT blocks the live process and keeps the processor.             *)
LEMMA InvFutexWait == ProcInv /\ FutexWait => ProcInv'
<1> SUFFICES ASSUME ProcInv, FutexWait PROVE ProcInv'
  OBVIOUS
<1>1. Executing /\ TypeOK /\ IsRunning
  BY DEF FutexWait, ProcInv
<1>2. PICK r \in Slots : r = process_current_pcb /\ pcb[r].state = "RUNNING"
  BY <1>1, Scans
<1>3. r = cpu.slot /\ Owner(r)
  BY <1>1, <1>2, TheRunningProcess DEF ProcInv, Live, LiveStates, Owner
<1>4. PICK timed \in BOOLEAN : cpu' = [cpu EXCEPT !.who = "sleep", !.deadline = timed]
  BY DEF FutexWait
<1>5. /\ pcb' = [pcb EXCEPT ![r].state = "BLOCKED"]
      /\ UNCHANGED <<current_pid, spaces, loaded, stacks, vmas>>
  BY <1>2 DEF FutexWait
<1>6. cpu' \in Cpu /\ cpu'.who = "sleep" /\ cpu'.slot = cpu.slot /\ cpu'.cr3 = cpu.cr3
  BY <1>1, <1>4 DEF TypeOK, Cpu
<1>7. /\ pcb' \in [Slots -> PCB]
      /\ pcb'[r].state = "BLOCKED" /\ pcb'[r].cr3 = pcb[r].cr3
      /\ pcb'[r].kbase = pcb[r].kbase /\ pcb'[r].vma_table = pcb[r].vma_table
      /\ \A s \in Slots : s # r => pcb'[s] = pcb[s]
  BY <1>1, <1>2, <1>5 DEF TypeOK, PCB, States
<1>8. TypeOK'
  BY <1>1, <1>5, <1>6, <1>7 DEF TypeOK
<1>9. NoneReady'
  BY <1>7 DEF NoneReady, ProcInv
<1>10. \A s \in Slots : Live(s)' => s = r
  BY <1>1, <1>2, <1>7, TheRunningProcess DEF Live
<1>11. Owner(r)'
  BY <1>3, <1>5, <1>6, <1>7 DEF Owner
<1> QED BY <1>5, <1>8, <1>9, <1>10, <1>11 DEF ProcInv

(* A sleeper that times out is RUNNING again.                              *)
LEMMA InvFutexTimeout == ProcInv /\ FutexTimeout => ProcInv'
<1> SUFFICES ASSUME ProcInv, FutexTimeout PROVE ProcInv'
  OBVIOUS
<1>1. TypeOK /\ CanExecute /\ cpu.who = "sleep"
  BY DEF FutexTimeout, ProcInv, CanExecute
<1>2. PICK r \in Slots : r = cpu.slot /\ pcb[r].state = "BLOCKED"
  BY <1>1 DEF FutexTimeout, TypeOK, Cpu
<1>3. Owner(r) /\ \A s \in Slots : Live(s) => s = r
  BY <1>1, <1>2 DEF ProcInv, Live, LiveStates, Owner
<1>4. /\ pcb' = [pcb EXCEPT ![r].state = "RUNNING"]
      /\ cpu' = [cpu EXCEPT !.who = "user", !.deadline = FALSE]
      /\ UNCHANGED <<current_pid, spaces, loaded, stacks, vmas>>
  BY <1>2 DEF FutexTimeout
<1>5. cpu' \in Cpu /\ cpu'.who = "user" /\ cpu'.slot = r /\ cpu'.cr3 = cpu.cr3
  BY <1>1, <1>2, <1>4 DEF TypeOK, Cpu
<1>6. /\ pcb' \in [Slots -> PCB]
      /\ pcb'[r].state = "RUNNING" /\ pcb'[r].cr3 = pcb[r].cr3
      /\ pcb'[r].kbase = pcb[r].kbase /\ pcb'[r].vma_table = pcb[r].vma_table
      /\ \A s \in Slots : s # r => pcb'[s] = pcb[s]
  BY <1>1, <1>2, <1>4 DEF TypeOK, PCB, States
<1>7. TypeOK'
  BY <1>1, <1>4, <1>5, <1>6 DEF TypeOK
<1>8. NoneReady'
  BY <1>6 DEF NoneReady, ProcInv
<1>9. \A s \in Slots : Live(s)' => s = r
  BY <1>3, <1>6 DEF Live
<1>10. Owner(r)'
  BY <1>3, <1>4, <1>5, <1>6 DEF Owner
<1> QED BY <1>4, <1>7, <1>8, <1>9, <1>10 DEF ProcInv

(* Running out of memory ends the live process; its program goes on.       *)
LEMMA InvOutOfMemory == ProcInv /\ OutOfMemory => ProcInv'
<1> SUFFICES ASSUME ProcInv, OutOfMemory PROVE ProcInv'
  OBVIOUS
<1> DEFINE r == process_current_pcb
<1>1. Executing /\ TypeOK /\ UNCHANGED <<current_pid, stacks, vmas>>
  BY DEF OutOfMemory, ProcInv
<1>2. CASE IsRunning
  <2>1. r \in Slots /\ pcb[r].state = "RUNNING"
    BY <1>2, Scans
  <2>2. /\ pcb' = [pcb EXCEPT ![r].state = "DEAD"]
        /\ spaces' = spaces \ {pcb[r].cr3}
        /\ loaded' = loaded \ {pcb[r].cr3}
        /\ UNCHANGED cpu
    BY <1>2 DEF OutOfMemory
  <2> HIDE DEF r
  <2>3. /\ pcb' \in [Slots -> PCB] /\ pcb'[r].state = "DEAD"
        /\ \A s \in Slots : s # r => pcb'[s] = pcb[s]
    BY <1>1, <2>1, <2>2 DEF TypeOK, PCB, States
  <2>4. TypeOK'
    BY <1>1, <2>2, <2>3 DEF TypeOK
  <2>5. NoneReady'
    BY <2>1, <2>3 DEF ProcInv, NoneReady
  <2>6. \A s \in Slots : ~Live(s)'
    BY <1>1, <2>1, <2>3, TheRunningProcess DEF Live, LiveStates, r
  <2> QED BY <2>2, <2>4, <2>5, <2>6 DEF ProcInv
<1>3. CASE ~IsRunning
  <2>1. UNCHANGED <<pcb, spaces, loaded>> /\ cpu' = [cpu EXCEPT !.who = "halted"]
    BY <1>3 DEF OutOfMemory
  <2>2. cpu' \in Cpu /\ cpu'.who = "halted"
    BY <1>1, <2>1 DEF TypeOK, Cpu
  <2>3. TypeOK' /\ ~CanExecute'
    BY <1>1, <2>1, <2>2 DEF TypeOK, CanExecute
  <2> QED BY <2>1, <2>3 DEF ProcInv, NoneReady
<1> QED BY <1>2, <1>3

(* The machine stops: nothing executes any more.                           *)
LEMMA InvHalt == ProcInv /\ (ShellOutOfMemory \/ UnhandledFault) => ProcInv'
<1> SUFFICES ASSUME ProcInv, ShellOutOfMemory \/ UnhandledFault PROVE ProcInv'
  OBVIOUS
<1>1. /\ cpu' = [cpu EXCEPT !.who = "halted"]
      /\ UNCHANGED <<pcb, current_pid, spaces, loaded, stacks, vmas>>
  BY DEF ShellOutOfMemory, UnhandledFault
<1>2. cpu' \in Cpu /\ cpu'.who = "halted"
  BY <1>1 DEF ProcInv, TypeOK, Cpu
<1> QED BY <1>1, <1>2 DEF ProcInv, TypeOK, NoneReady, CanExecute

(* The timer leaves the live process the only one, on its own space.       *)
LEMMA InvTimerTick == ProcInv /\ TimerTick => ProcInv'
<1> SUFFICES ASSUME ProcInv, TimerTick PROVE ProcInv'
  OBVIOUS
<1> DEFINE r == process_current_pcb
<1>1. CASE UNCHANGED procVars
  BY <1>1 DEF procVars, ProcInv, TypeOK, NoneReady, CanExecute, Executing,
              Live, Owner
<1>2. CASE /\ IsRunning
           /\ pcb' = [pcb EXCEPT ![r] =
                        [@ EXCEPT !.cr3 = cpu.cr3, !.saved = cpu.slot]]
           /\ cpu' = [cpu EXCEPT !.who = "user"]
           /\ current_pid' = pcb[r].pid
           /\ UNCHANGED <<spaces, loaded, stacks, vmas>>
  <2>1. r \in Slots /\ pcb[r].state = "RUNNING" /\ TypeOK
    BY <1>2, Scans DEF ProcInv
  <2> HIDE DEF r
  <2>2. pcb[r] \in PCB /\ cpu \in Cpu
    BY <2>1 DEF TypeOK
  <2>3. [pcb[r] EXCEPT !.cr3 = cpu.cr3, !.saved = cpu.slot] \in PCB
    BY <2>2 DEF PCB, Cpu
  <2>4. /\ pcb'[r] = [pcb[r] EXCEPT !.cr3 = cpu.cr3, !.saved = cpu.slot]
        /\ \A s \in Slots : s # r => pcb'[s] = pcb[s]
        /\ pcb' \in [Slots -> PCB]
    BY <1>2, <2>1, <2>3 DEF TypeOK
  <2>5. /\ pcb'[r].state = "RUNNING" /\ pcb'[r].cr3 = cpu.cr3
        /\ pcb'[r].kbase = pcb[r].kbase /\ pcb'[r].vma_table = pcb[r].vma_table
    BY <2>1, <2>2, <2>4 DEF PCB
  <2>6. /\ cpu' \in Cpu /\ cpu'.who = "user" /\ cpu'.slot = cpu.slot
        /\ cpu'.cr3 = cpu.cr3
    BY <1>2, <2>2 DEF Cpu
  <2>7. TypeOK'
    <3>1. current_pid' \in 0 .. PROC_MAX
      BY <1>2, <2>2 DEF PCB
    <3> QED BY <1>2, <2>1, <2>4, <2>6, <3>1 DEF TypeOK
  <2>8. NoneReady'
    BY <2>4, <2>5 DEF ProcInv, NoneReady
  <2>9. ASSUME CanExecute', NEW s \in Slots, Live(s)' PROVE Owner(s)'
    <3>1. cpu.who \in {"shell", "user", "sleep"}
      BY DEF TimerTick
    <3>2. CanExecute
      BY <1>2, <2>6, <2>9, <3>1 DEF CanExecute, Executing
    <3>3. Live(r)
      BY <2>1 DEF Live, LiveStates
    <3>4. Live(s)
      BY <2>4, <2>5, <2>9, <3>3 DEF Live
    <3>5. Owner(r) /\ Owner(s) /\ s = r
      BY <2>1, <3>2, <3>3, <3>4 DEF ProcInv, Owner
    <3> QED BY <1>2, <2>1, <2>5, <2>6, <3>5 DEF Owner
  <2> QED BY <1>2, <2>7, <2>8, <2>9 DEF ProcInv
<1> QED BY <1>1, <1>2, TimerKeeps

(* Every step of the processes keeps the inductive invariant.              *)
LEMMA InvNext == ProcInv /\ [ProcNext]_procVars => ProcInv'
<1>1. ProcInv /\ UNCHANGED procVars => ProcInv'
  BY DEF procVars, ProcInv, TypeOK, NoneReady, CanExecute, Executing, Live, Owner
<1> QED BY <1>1, InvRunProgram, InvSysExit, InvSysExitGroup, InvSysExecve,
           InvSysFork, InvFutexWait, InvFutexTimeout, InvOutOfMemory, InvHalt,
           InvTimerTick
        DEF ProcNext

-----------------------------------------------------------------------------
(* What the inductive invariant implies.                                   *)
LEMMA InvImplies ==
    ASSUME ProcInv
    PROVE  TypeOK /\ OneLiveProcess /\ LiveResources
<1>1. TypeOK
  BY DEF ProcInv
<1>2. ASSUME CanExecute, NEW s \in Slots, Live(s)
      PROVE  Owner(s) /\ \A t \in Slots : Live(t) => t = s
  BY <1>2 DEF ProcInv, Owner
<1>3. OneLiveProcess
  BY <1>2 DEF OneLiveProcess, Owner
<1>4. LiveResources
  BY <1>2 DEF LiveResources, Owner
<1> QED BY <1>1, <1>3, <1>4

(* So it holds in every state of every behaviour.                          *)
LEMMA InvAlways == ProcSpec => []ProcInv
<1> QED BY InvInit, InvNext, PTL DEF ProcSpec

(* Every variable of the process table, the processor and the pools stays  *)
(* in its range, for every table size and every pool size.                 *)
THEOREM Typing == ProcSpec => []TypeOK
<1>1. ProcInv => TypeOK
  BY InvImplies
<1> QED BY <1>1, InvAlways, PTL

(* process_create, timer_isr and scheduler_exit never leave two live       *)
(* processes in a machine that can execute: the scans for "the" RUNNING    *)
(* process find the one that has the processor.                            *)
THEOREM SingleProcess == ProcSpec => []OneLiveProcess
<1>1. ProcInv => OneLiveProcess
  BY InvImplies
<1> QED BY <1>1, InvAlways, PTL

(* A live process runs on an address space and a kernel stack that are     *)
(* allocated and its own, whatever was freed and handed out before.        *)
THEOREM OwnedResources == ProcSpec => []LiveResources
<1>1. ProcInv => LiveResources
  BY InvImplies
<1> QED BY <1>1, InvAlways, PTL

-----------------------------------------------------------------------------
(* Every action writes to a slot in a state other than DEAD.               *)
LEMMA DeadUntouched ==
    ASSUME ProcInv, [ProcNext]_procVars,
           NEW s \in Slots, pcb[s].state = "DEAD"
    PROVE  pcb'[s] = pcb[s]
<1>1. pcb \in [Slots -> PCB]
  BY DEF ProcInv, TypeOK
<1>2. CASE RunProgram \/ SysExecve \/ SysFork
  <2>1. PICK st \in States, c \in 1 .. MaxSpaces : process_create(st, c)
    BY <1>2 DEF RunProgram, SysExecve, SysFork, States
  <2> QED BY <2>1, Creation
<1>3. CASE SysExit \/ SysExitGroup \/ FutexWait \/ OutOfMemory
  <2>1. IsRunning => process_current_pcb \in Slots /\ process_current_pcb # s
    BY Scans
  <2>2. CASE SysExit
    BY <1>1, <2>1, <2>2 DEF SysExit
  <2>3. CASE SysExitGroup
    BY <1>1, <2>1, <2>3 DEF SysExitGroup
  <2>4. CASE FutexWait
    BY <1>1, <2>1, <2>4 DEF FutexWait
  <2>5. CASE OutOfMemory
    BY <1>1, <2>1, <2>5 DEF OutOfMemory
  <2> QED BY <1>3, <2>2, <2>3, <2>4, <2>5
<1>4. CASE FutexTimeout
  <2>1. cpu.slot # s
    BY <1>4 DEF FutexTimeout
  <2> QED BY <1>1, <1>4, <2>1 DEF FutexTimeout
<1>5. CASE ShellOutOfMemory \/ UnhandledFault \/ UNCHANGED procVars
  BY <1>5 DEF ShellOutOfMemory, UnhandledFault, procVars
<1>6. CASE TimerTick
  <2>1. IsRunning => process_current_pcb \in Slots /\ process_current_pcb # s
    BY Scans
  <2> QED BY <1>1, <1>6, <2>1, TimerKeeps DEF procVars
<1> QED BY <1>2, <1>3, <1>4, <1>5, <1>6 DEF ProcNext

(* A slot that sys_exit or kernel_panic marked DEAD is never written again *)
(* nor reused: every program that calls sys_exit costs a slot for good.    *)
THEOREM DeadForEver == ProcSpec => DeadIsFinal
<1>1. ProcInv /\ [ProcNext]_procVars =>
        [\A s \in Slots : pcb[s].state = "DEAD" => pcb'[s] = pcb[s]]_procVars
  BY DeadUntouched
<1> QED BY <1>1, InvAlways, PTL DEF ProcSpec, DeadIsFinal

-----------------------------------------------------------------------------
(* The index after the last one is 0.                                      *)
LEMMA SuccIndex ==
    ASSUME NEW i \in Indices
    PROVE  Succ(i) \in Indices /\ Succ(i) = IF i = IPC_QUEUE_DEPTH - 1 THEN 0 ELSE i + 1
<1>1. IPC_QUEUE_DEPTH \in Nat \ {0} /\ i \in Nat
      /\ i + 1 < IPC_QUEUE_DEPTH + IPC_QUEUE_DEPTH
  BY IpcAssumption DEF IpcAssumption, Indices
<1>2. (i + 1) % IPC_QUEUE_DEPTH =
        IF i + 1 < IPC_QUEUE_DEPTH THEN i + 1 ELSE i + 1 - IPC_QUEUE_DEPTH
  BY <1>1
<1> QED BY <1>1, <1>2 DEF Succ, Indices

(* A well-formed inbox: the ring's indices agree with its count.           *)
RingOK(q) ==
    /\ q.count \in 0 .. IPC_QUEUE_DEPTH
    /\ q.tail = (q.head + q.count) % IPC_QUEUE_DEPTH

(* A send with room left keeps the indices of the inbox in step.           *)
LEMMA EnqueueKeepsRing ==
    ASSUME NEW q \in IpcQueue, RingOK(q), HasRoom(q), NEW m \in IpcMsg
    PROVE  /\ Enqueue(q, m) \in IpcQueue
           /\ RingOK(Enqueue(q, m))
           /\ Enqueue(q, m).waiting = FALSE
<1> DEFINE D == IPC_QUEUE_DEPTH
           e == Enqueue(q, m)
<1>1. D \in Nat \ {0}
  BY IpcAssumption DEF IpcAssumption
<1>2. q.head \in 0 .. D - 1 /\ q.tail \in 0 .. D - 1 /\ q.count \in 0 .. D - 1
  BY <1>1 DEF IpcQueue, Indices, HasRoom, RingOK
<1>3. /\ e.head = q.head /\ e.count = q.count + 1
      /\ e.tail = Succ(q.tail) /\ e.waiting = FALSE
      /\ e.msgs = [q.msgs EXCEPT ![q.tail] = m]
  BY DEF IpcQueue, Enqueue
<1>4. Succ(q.tail) \in Indices
  BY <1>2, SuccIndex DEF Indices
<1>5. e \in IpcQueue
  <2>1. q.count + 1 \in 0 .. D
    BY <1>1, <1>2
  <2>2. [q.msgs EXCEPT ![q.tail] = m] \in [Indices -> IpcMsg]
    BY DEF IpcQueue
  <2> QED BY <1>4, <2>1, <2>2 DEF Enqueue, IpcQueue
<1>6. e.tail = (e.head + e.count) % D
  <2>1. q.tail = IF q.head + q.count < D THEN q.head + q.count
                                         ELSE q.head + q.count - D
    <3>1. q.head + q.count \in Nat /\ q.head + q.count < D + D
      BY <1>1, <1>2
    <3> QED BY <1>1, <1>2, <3>1 DEF RingOK
  <2>2. Succ(q.tail) = IF q.tail = D - 1 THEN 0 ELSE q.tail + 1
    BY <1>2, SuccIndex DEF Indices
  <2>3. (q.head + (q.count + 1)) % D =
          IF q.head + (q.count + 1) < D THEN q.head + (q.count + 1)
                                        ELSE q.head + (q.count + 1) - D
    <3>1. q.head \in Nat /\ q.count + 1 \in Nat /\ q.head + (q.count + 1) < D + D
      BY <1>1, <1>2
    <3>2. ASSUME NEW h \in Nat, NEW c \in Nat, h + c < D + D
          PROVE  (h + c) % D = IF h + c < D THEN h + c ELSE h + c - D
      BY <1>1, <3>2
    <3> HIDE DEF D
    <3> QED BY <3>1, <3>2, Zenon
  <2> QED BY <1>1, <1>2, <1>3, <2>1, <2>2, <2>3
<1>7. e.count \in 0 .. D
  BY <1>1, <1>2, <1>3
<1> QED BY <1>3, <1>5, <1>6, <1>7 DEF RingOK

(* So does a receive from an inbox that is not empty.                      *)
LEMMA DequeueKeepsRing ==
    ASSUME NEW q \in IpcQueue, RingOK(q), q.count > 0
    PROVE  /\ Dequeue(q) \in IpcQueue
           /\ RingOK(Dequeue(q))
           /\ Dequeue(q).waiting = q.waiting
<1> DEFINE D == IPC_QUEUE_DEPTH
           d == Dequeue(q)
<1>1. D \in Nat \ {0}
  BY IpcAssumption DEF IpcAssumption
<1>2. q.head \in 0 .. D - 1 /\ q.tail \in 0 .. D - 1 /\ q.count \in 1 .. D
  BY <1>1 DEF IpcQueue, Indices, RingOK
<1>3. /\ d.head = Succ(q.head) /\ d.count = q.count - 1 /\ d.tail = q.tail
      /\ d.waiting = q.waiting /\ d.msgs = q.msgs
  BY DEF IpcQueue, Dequeue
<1>4. Succ(q.head) \in Indices
  BY <1>2, SuccIndex DEF Indices
<1>5. d \in IpcQueue
  <2>1. q.count - 1 \in 0 .. D
    BY <1>1, <1>2
  <2> QED BY <1>4, <2>1 DEF Dequeue, IpcQueue
<1>6. d.tail = (d.head + d.count) % D
  <2>1. q.tail = (q.head + q.count) % D
    BY DEF RingOK
  <2>2. Succ(q.head) = IF q.head = D - 1 THEN 0 ELSE q.head + 1
    BY <1>2, SuccIndex DEF Indices
  <2>3. CASE q.head = D - 1
    <3>1. /\ q.head + q.count \in Nat /\ q.head + q.count < D + D
          /\ ~(q.head + q.count < D) /\ q.head + q.count - D = q.count - 1
      BY <1>1, <1>2, <2>3
    <3>2. q.tail = q.count - 1
      BY <1>1, <1>2, <2>1, <3>1
    <3>3. (0 + (q.count - 1)) % D = q.count - 1
      BY <1>1, <1>2
    <3> QED BY <1>3, <2>2, <2>3, <3>2, <3>3
  <2>4. CASE q.head # D - 1
    <3>1. (q.head + 1) + (q.count - 1) = q.head + q.count
      BY <1>1, <1>2
    <3> QED BY <1>3, <2>1, <2>2, <2>4, <3>1
  <2> QED BY <2>3, <2>4
<1>7. d.count \in 0 .. D
  BY <1>1, <1>2, <1>3
<1> QED BY <1>3, <1>5, <1>6, <1>7 DEF RingOK

-----------------------------------------------------------------------------
(* Index k of an inbox's contents lies k - 1 places after its head.        *)
Place(q, k) == (q.head + k - 1) % IPC_QUEUE_DEPTH

(* The place without the modulus.                                          *)
LEMMA PlaceValue ==
    ASSUME NEW q \in IpcQueue, NEW k \in 1 .. IPC_QUEUE_DEPTH + 1
    PROVE  /\ Place(q, k) \in Indices
           /\ Place(q, k) = IF q.head + k - 1 < IPC_QUEUE_DEPTH
                            THEN q.head + k - 1
                            ELSE q.head + k - 1 - IPC_QUEUE_DEPTH
<1>1. /\ IPC_QUEUE_DEPTH \in Nat \ {0}
      /\ q.head \in 0 .. IPC_QUEUE_DEPTH - 1
  BY IpcAssumption DEF IpcAssumption, IpcQueue, Indices
<1>2. /\ q.head + k - 1 \in Nat
      /\ q.head + k - 1 < IPC_QUEUE_DEPTH + IPC_QUEUE_DEPTH
  BY <1>1
<1>3. ASSUME NEW n \in Nat, n < IPC_QUEUE_DEPTH + IPC_QUEUE_DEPTH
      PROVE  n % IPC_QUEUE_DEPTH =
               IF n < IPC_QUEUE_DEPTH THEN n ELSE n - IPC_QUEUE_DEPTH
  BY <1>1, <1>3
<1>4. Place(q, k) = IF q.head + k - 1 < IPC_QUEUE_DEPTH
                    THEN q.head + k - 1
                    ELSE q.head + k - 1 - IPC_QUEUE_DEPTH
  <2>1. PICK n \in Nat : n = q.head + k - 1
    BY <1>2
  <2>2. n % IPC_QUEUE_DEPTH =
          IF n < IPC_QUEUE_DEPTH THEN n ELSE n - IPC_QUEUE_DEPTH
    BY <1>2, <1>3, <2>1
  <2>3. Place(q, k) = n % IPC_QUEUE_DEPTH
    BY <2>1, Zenon DEF Place
  <2>4. Place(q, k) = IF n < IPC_QUEUE_DEPTH THEN n ELSE n - IPC_QUEUE_DEPTH
    BY <2>2, <2>3, Zenon
  <2> QED BY <1>1, <2>1, <2>4
<1> HIDE DEF Place
<1>5. Place(q, k) \in Indices
  BY <1>1, <1>2, <1>4 DEF Indices
<1> QED BY <1>4, <1>5

(* The contents of an inbox are a sequence of count messages.              *)
LEMMA ContentsIsSeq ==
    ASSUME NEW q \in IpcQueue
    PROVE  /\ Contents(q) \in Seq(IpcMsg) /\ Len(Contents(q)) = q.count
           /\ \A k \in 1 .. q.count : Contents(q)[k] = q.msgs[Place(q, k)]
<1>1. /\ IPC_QUEUE_DEPTH \in Nat \ {0} /\ q.count \in 0 .. IPC_QUEUE_DEPTH
      /\ q.msgs \in [Indices -> IpcMsg]
  BY IpcAssumption DEF IpcAssumption, IpcQueue
<1>2. ASSUME NEW k \in 1 .. q.count PROVE q.msgs[Place(q, k)] \in IpcMsg
  <2>1. k \in 1 .. IPC_QUEUE_DEPTH + 1
    BY <1>1
  <2> QED BY <1>1, <2>1, PlaceValue
<1>3. Contents(q) = [k \in 1 .. q.count |-> q.msgs[Place(q, k)]]
  BY DEF Contents, Place
<1> HIDE DEF Place, Contents
<1>4. [k \in 1 .. q.count |-> q.msgs[Place(q, k)]] \in [1 .. q.count -> IpcMsg]
  BY <1>2
<1> QED BY <1>1, <1>3, <1>4

(* A send appends its message to the contents of the inbox.                *)
LEMMA EnqueueAppends ==
    ASSUME NEW q \in IpcQueue, RingOK(q), HasRoom(q), NEW m \in IpcMsg
    PROVE  Contents(Enqueue(q, m)) = Append(Contents(q), m)
<1> DEFINE D == IPC_QUEUE_DEPTH
           e == Enqueue(q, m)
<1>1. D \in Nat \ {0}
  BY IpcAssumption DEF IpcAssumption
<1>2. /\ q.head \in 0 .. D - 1 /\ q.tail \in 0 .. D - 1 /\ q.count \in 0 .. D - 1
      /\ q.msgs \in [Indices -> IpcMsg]
  BY <1>1 DEF IpcQueue, Indices, HasRoom, RingOK
<1>3. /\ e.head = q.head /\ e.count = q.count + 1
      /\ e.msgs = [q.msgs EXCEPT ![q.tail] = m]
  BY DEF IpcQueue, Enqueue
<1>4. e \in IpcQueue
  BY EnqueueKeepsRing
<1> HIDE DEF e
<1>5. q.tail = Place(q, q.count + 1)
  <2>1. q.head + (q.count + 1) - 1 = q.head + q.count
    BY <1>2
  <2> QED BY <2>1 DEF RingOK, Place
<1>6. \A k \in 1 .. q.count + 1 : Place(e, k) = Place(q, k)
  BY <1>3 DEF Place
<1>7. /\ Contents(e) \in Seq(IpcMsg) /\ Len(Contents(e)) = q.count + 1
      /\ \A k \in 1 .. q.count + 1 : Contents(e)[k] = e.msgs[Place(q, k)]
  BY <1>3, <1>4, <1>6, ContentsIsSeq
<1>8. /\ Contents(q) \in Seq(IpcMsg) /\ Len(Contents(q)) = q.count
      /\ \A k \in 1 .. q.count : Contents(q)[k] = q.msgs[Place(q, k)]
  BY ContentsIsSeq
<1>9. /\ Append(Contents(q), m) \in Seq(IpcMsg)
      /\ Len(Append(Contents(q), m)) = q.count + 1
      /\ \A k \in 1 .. q.count : Append(Contents(q), m)[k] = Contents(q)[k]
      /\ Append(Contents(q), m)[q.count + 1] = m
  BY <1>8, AppendProperties
<1> HIDE DEF Contents
<1>10. ASSUME NEW k \in 1 .. q.count + 1
       PROVE  Contents(e)[k] = Append(Contents(q), m)[k]
  <2>1. /\ k \in 1 .. D + 1 /\ q.count + 1 \in 1 .. D + 1
        /\ k \in 1 .. q.count \/ k = q.count + 1
    BY <1>1, <1>2
  <2>2. CASE k = q.count + 1
    <3>1. q.tail \in Indices
      BY DEF IpcQueue
    <3>2. e.msgs[q.tail] = m
      BY <1>2, <1>3, <3>1
    <3> QED BY <1>5, <1>7, <1>9, <2>2, <3>2
  <2>3. CASE k \in 1 .. q.count
    <3>1. /\ Place(q, k) = IF q.head + k - 1 < D THEN q.head + k - 1
                           ELSE q.head + k - 1 - D
          /\ q.tail = IF q.head + (q.count + 1) - 1 < D
                      THEN q.head + (q.count + 1) - 1
                      ELSE q.head + (q.count + 1) - 1 - D
          /\ Place(q, k) \in Indices
      BY <1>5, <2>1, PlaceValue
    <3> HIDE DEF Place
    <3>2. Place(q, k) # q.tail
      BY <1>1, <1>2, <2>3, <3>1
    <3>3. e.msgs[Place(q, k)] = q.msgs[Place(q, k)]
      BY <1>2, <1>3, <3>1, <3>2
    <3> QED BY <1>7, <1>8, <1>9, <2>3, <3>3
  <2> QED BY <2>1, <2>2, <2>3
<1>11. Contents(e) = Append(Contents(q), m)
  <2> DEFINE s == Contents(e)
             t == Append(Contents(q), m)
  <2>1. /\ s \in Seq(IpcMsg) /\ t \in Seq(IpcMsg) /\ Len(s) = Len(t)
        /\ \A k \in 1 .. Len(s) : s[k] = t[k]
    BY <1>7, <1>9, <1>10
  <2> HIDE DEF s, t
  <2>2. s = t
    BY <2>1, SeqEqual
  <2> QED BY <2>2 DEF s, t
<1> QED BY <1>11 DEF e

(* A receive takes the first message off them.                             *)
LEMMA DequeueTakes ==
    ASSUME NEW q \in IpcQueue, RingOK(q), q.count > 0
    PROVE  /\ Contents(q) # <<>>
           /\ q.msgs[q.head] = Head(Contents(q))
           /\ Contents(Dequeue(q)) = Tail(Contents(q))
<1> DEFINE D == IPC_QUEUE_DEPTH
           d == Dequeue(q)
<1>1. D \in Nat \ {0}
  BY IpcAssumption DEF IpcAssumption
<1>2. q.head \in 0 .. D - 1 /\ q.count \in 1 .. D
  BY <1>1 DEF IpcQueue, Indices, RingOK
<1>3. d.head = Succ(q.head) /\ d.count = q.count - 1 /\ d.msgs = q.msgs
  BY DEF IpcQueue, Dequeue
<1>4. d \in IpcQueue
  BY DequeueKeepsRing
<1> HIDE DEF d
<1>5. /\ Contents(q) \in Seq(IpcMsg) /\ Len(Contents(q)) = q.count
      /\ \A k \in 1 .. q.count : Contents(q)[k] = q.msgs[Place(q, k)]
  BY ContentsIsSeq
<1>6. /\ Contents(d) \in Seq(IpcMsg) /\ Len(Contents(d)) = q.count - 1
      /\ \A k \in 1 .. q.count - 1 : Contents(d)[k] = q.msgs[Place(d, k)]
  BY <1>3, <1>4, ContentsIsSeq
<1> HIDE DEF Contents
<1>7. Contents(q) # <<>>
  BY <1>2, <1>5
<1>8. q.msgs[q.head] = Head(Contents(q))
  <2>1. 1 \in 1 .. D + 1 /\ 1 \in 1 .. q.count /\ q.head + 1 - 1 = q.head
    BY <1>1, <1>2
  <2>2. Place(q, 1) = q.head
    BY <1>1, <1>2, <2>1, PlaceValue
  <2>3. Head(Contents(q)) = Contents(q)[1]
    BY <1>5, <1>7
  <2> QED BY <1>5, <2>1, <2>2, <2>3
<1>9. /\ Tail(Contents(q)) \in Seq(IpcMsg)
      /\ Len(Tail(Contents(q))) = q.count - 1
      /\ \A k \in 1 .. q.count - 1 : Tail(Contents(q))[k] = Contents(q)[k + 1]
  BY <1>5, <1>7, HeadTailProperties
<1>10. ASSUME NEW k \in 1 .. q.count - 1
       PROVE  Contents(d)[k] = Tail(Contents(q))[k]
  <2>1. /\ k \in 1 .. D + 1 /\ k + 1 \in 1 .. D + 1 /\ k + 1 \in 1 .. q.count
    BY <1>1, <1>2
  <2>2. d.head = IF q.head = D - 1 THEN 0 ELSE q.head + 1
    BY <1>3, SuccIndex DEF IpcQueue
  <2>3. /\ Place(d, k) = IF d.head + k - 1 < D THEN d.head + k - 1
                         ELSE d.head + k - 1 - D
        /\ Place(q, k + 1) = IF q.head + (k + 1) - 1 < D
                             THEN q.head + (k + 1) - 1
                             ELSE q.head + (k + 1) - 1 - D
    BY <1>4, <2>1, PlaceValue
  <2> HIDE DEF Place
  <2>4. Place(d, k) = Place(q, k + 1)
    BY <1>1, <1>2, <2>1, <2>2, <2>3
  <2> QED BY <1>5, <1>6, <1>9, <2>1, <2>4
<1>11. Contents(d) = Tail(Contents(q))
  <2> DEFINE s == Contents(d)
             t == Tail(Contents(q))
  <2>1. /\ s \in Seq(IpcMsg) /\ t \in Seq(IpcMsg) /\ Len(s) = Len(t)
        /\ \A k \in 1 .. Len(s) : s[k] = t[k]
    BY <1>6, <1>9, <1>10
  <2> HIDE DEF s, t
  <2>2. s = t
    BY <2>1, SeqEqual
  <2> QED BY <2>2 DEF s, t
<1> QED BY <1>7, <1>8, <1>11 DEF d

-----------------------------------------------------------------------------
(* The inductive invariant: what Proc guarantees, well-formed inboxes, and *)
(* a receiver waits only in the loop that never ends.  The last part is    *)
(* why a send, which makes a waiting receiver READY, changes no process.   *)
IpcInv ==
    /\ ProcInv
    /\ IpcTypeOK
    /\ \A b \in Slots : RingOK(queues[b])
    /\ \A b \in Slots : queues[b].waiting => cpu.who = "spin"

(* pid % PROC_MAX is an inbox.                                             *)
LEMMA BoxIsSlot == ASSUME NEW pid \in Pids PROVE Box(pid) \in Slots
<1>1. PROC_MAX \in Nat \ {0} /\ pid \in Nat
  BY ProcAssumption DEF ProcAssumption, Pids
<1>2. pid % PROC_MAX \in 0 .. PROC_MAX - 1
  BY <1>1
<1> QED BY <1>2 DEF Box, Slots

(* At start every inbox is empty and nobody waits.                         *)
LEMMA IpcInvInit == Init => IpcInv
<1> SUFFICES ASSUME Init PROVE IpcInv
  OBVIOUS
<1>1. ProcInv
  BY InvInit DEF Init
<1>2. IPC_QUEUE_DEPTH \in Nat \ {0} /\ PROC_MAX \in Nat \ {0}
  BY IpcAssumption, ProcAssumption DEF IpcAssumption, ProcAssumption
<1>3. NoMsg \in IpcMsg
  BY <1>2, IpcAssumption DEF IpcAssumption, NoMsg, IpcMsg, Pids
<1> DEFINE q0 == [msgs |-> [i \in Indices |-> NoMsg], head |-> 0,
                  tail |-> 0, count |-> 0, waiting |-> FALSE]
<1>4. q0 \in IpcQueue
  BY <1>2, <1>3 DEF IpcQueue, Indices
<1>5. RingOK(q0)
  <2>1. (0 + 0) % IPC_QUEUE_DEPTH = 0
    BY <1>2
  <2> QED BY <1>2, <2>1 DEF RingOK
<1>6. \A b \in Slots : queues[b] = q0
  BY DEF Init, IpcInit
<1>7. [name |-> CHOOSE n \in Stems : TRUE, pid |-> 0, active |-> FALSE] \in IpcServer
  BY <1>2, IpcAssumption DEF IpcAssumption, IpcServer, Pids
<1>8. IpcTypeOK
  <2>1. queues \in [Slots -> IpcQueue]
    <3> HIDE DEF q0
    <3>1. queues = [b \in Slots |-> q0]
      BY DEF Init, IpcInit, q0
    <3> QED BY <1>4, <3>1
  <2>2. servers \in [Entries -> IpcServer] /\ out = <<>>
    BY <1>7 DEF Init, IpcInit
  <2>3. lastReg \in [Stems -> 0 .. NotRegistered]
    BY <1>2 DEF Init, IpcInit, NotRegistered
  <2> QED BY <2>1, <2>2, <2>3 DEF IpcTypeOK
<1>9. \A b \in Slots : RingOK(queues[b]) /\ ~queues[b].waiting
  <2>1. ~q0.waiting
    OBVIOUS
  <2> HIDE DEF q0
  <2> QED BY <1>5, <1>6, <2>1
<1> QED BY <1>1, <1>8, <1>9 DEF IpcInv

(* A process step leaves the inboxes alone, and none leaves the loop of a  *)
(* receiver.                                                               *)
LEMMA IpcInvProc == IpcInv /\ ProcNext /\ UNCHANGED ipcVars => IpcInv'
<1> SUFFICES ASSUME IpcInv, ProcNext, UNCHANGED ipcVars PROVE IpcInv'
  OBVIOUS
<1>1. ProcInv'
  BY InvNext DEF IpcInv
<1>2. cpu.who # "spin"
  BY DEF ProcNext, RunProgram, ShellOutOfMemory, SysExit, SysExitGroup,
         SysExecve, SysFork, FutexWait, FutexTimeout, UnhandledFault,
         OutOfMemory, TimerTick, Executing
<1> QED BY <1>1, <1>2 DEF IpcInv, ipcVars, IpcTypeOK

(* sys_ipc_send fills the slot at tail of one inbox.  Nobody waits there:  *)
(* a receiver that waits spins with the processor, so no program could     *)
(* send.                                                                   *)
LEMMA IpcInvSend ==
    ASSUME IpcInv, NEW dest \in Pids, NEW type \in Types,
           sys_ipc_send(dest, type)
    PROVE  IpcInv'
<1> DEFINE b == Box(dest)
           q == queues[b]
           m == [type |-> type, from |-> current_pid, src |-> cpu.slot + 1]
<1>1. b \in Slots
  BY BoxIsSlot
<1>2. Executing /\ cpu.who = "user" /\ HasRoom(q)
  BY DEF sys_ipc_send, Executing
<1>3. q \in IpcQueue /\ RingOK(q)
  BY <1>1 DEF IpcInv, IpcTypeOK
<1>4. m \in IpcMsg
  <2>1. current_pid \in 0 .. PROC_MAX /\ cpu.slot \in 0 .. PROC_MAX - 1
    BY DEF IpcInv, ProcInv, TypeOK, Cpu, Slots
  <2>2. cpu.slot + 1 \in 0 .. PROC_MAX
    BY <2>1, ProcAssumption DEF ProcAssumption
  <2> QED BY <2>1, <2>2 DEF IpcMsg, Pids
<1>5. ~q.waiting
  BY <1>1, <1>2 DEF IpcInv
<1>6. /\ queues' = [queues EXCEPT ![b] = Enqueue(q, m)]
      /\ UNCHANGED procVars
      /\ UNCHANGED <<servers, out, lastReg>>
  BY <1>5 DEF sys_ipc_send, procVars
<1> HIDE DEF m, q, b
<1>7. /\ Enqueue(q, m) \in IpcQueue /\ RingOK(Enqueue(q, m))
      /\ Enqueue(q, m).waiting = FALSE
  BY <1>2, <1>3, <1>4, EnqueueKeepsRing
<1>8. queues \in [Slots -> IpcQueue]
  BY DEF IpcInv, IpcTypeOK
<1>9. /\ queues' \in [Slots -> IpcQueue]
      /\ \A c \in Slots : c # b => queues'[c] = queues[c]
      /\ queues'[b] = Enqueue(q, m)
  BY <1>1, <1>6, <1>7, <1>8
<1>10. ProcInv'
  BY <1>6, InvNext DEF IpcInv
<1>11. IpcTypeOK'
  BY <1>6, <1>9 DEF IpcInv, IpcTypeOK
<1>12. ASSUME NEW c \in Slots
       PROVE  RingOK(queues'[c]) /\ (queues'[c].waiting => cpu'.who = "spin")
  BY <1>6, <1>7, <1>9 DEF IpcInv, procVars
<1> QED BY <1>10, <1>11, <1>12 DEF IpcInv, RingOK

(* sys_ipc_recv empties the slot at head of one inbox.                     *)
LEMMA IpcInvRecv == IpcInv /\ sys_ipc_recv => IpcInv'
<1> SUFFICES ASSUME IpcInv, sys_ipc_recv PROVE IpcInv'
  OBVIOUS
<1> DEFINE b == Box(current_pid)
           q == queues[b]
<1>1. b \in Slots
  BY BoxIsSlot DEF IpcInv, ProcInv, TypeOK, Pids
<1>2. q \in IpcQueue /\ RingOK(q) /\ q.count > 0
  BY <1>1 DEF IpcInv, IpcTypeOK, sys_ipc_recv
<1>3. /\ out' = <<b, q.msgs[q.head]>>
      /\ queues' = [queues EXCEPT ![b] = Dequeue(q)]
      /\ UNCHANGED procVars
      /\ UNCHANGED <<servers, lastReg>>
  <2>1. queues' = [queues EXCEPT ![b] = Dequeue(@)]
    BY DEF sys_ipc_recv
  <2> QED BY <2>1 DEF sys_ipc_recv
<1>4. out' \in Slots \X IpcMsg
  BY <1>1, <1>2, <1>3 DEF IpcQueue
<1> HIDE DEF q, b
<1>5. /\ Dequeue(q) \in IpcQueue /\ RingOK(Dequeue(q))
      /\ Dequeue(q).waiting = q.waiting
  BY <1>2, DequeueKeepsRing
<1>6. queues \in [Slots -> IpcQueue]
  BY DEF IpcInv, IpcTypeOK
<1>7. /\ queues' \in [Slots -> IpcQueue]
      /\ \A c \in Slots : c # b => queues'[c] = queues[c]
      /\ queues'[b] = Dequeue(q)
  BY <1>1, <1>3, <1>5, <1>6
<1>8. ProcInv'
  BY <1>3, InvNext DEF IpcInv
<1>9. IpcTypeOK'
  BY <1>3, <1>4, <1>7 DEF IpcInv, IpcTypeOK
<1>10. ASSUME NEW c \in Slots
       PROVE  RingOK(queues'[c]) /\ (queues'[c].waiting => cpu'.who = "spin")
  BY <1>1, <1>3, <1>5, <1>7 DEF IpcInv, procVars, q
<1> QED BY <1>8, <1>9, <1>10 DEF IpcInv, RingOK

(* The caller of a receive that never returns stays the live process.      *)
LEMMA IpcInvRecvEmpty == IpcInv /\ RecvEmpty => IpcInv'
<1> SUFFICES ASSUME IpcInv, RecvEmpty PROVE IpcInv'
  OBVIOUS
<1>1. /\ Executing
      /\ cpu' = [cpu EXCEPT !.who = "spin"]
      /\ UNCHANGED <<pcb, current_pid, spaces, loaded, stacks, vmas>>
      /\ UNCHANGED <<servers, out, lastReg>>
  BY DEF RecvEmpty
<1>2. PICK b \in Slots : queues' = [queues EXCEPT ![b].waiting = TRUE]
  BY BoxIsSlot DEF RecvEmpty, IpcInv, ProcInv, TypeOK, Pids
<1>3. queues \in [Slots -> IpcQueue] /\ cpu \in Cpu
  BY DEF IpcInv, IpcTypeOK, ProcInv, TypeOK
<1>4. /\ cpu' \in Cpu /\ cpu'.who = "spin" /\ cpu'.slot = cpu.slot
      /\ cpu'.cr3 = cpu.cr3
  BY <1>1, <1>3 DEF Cpu
<1>5. [queues[b] EXCEPT !.waiting = TRUE] \in IpcQueue
  BY <1>3 DEF IpcQueue
<1>6. /\ queues' \in [Slots -> IpcQueue]
      /\ \A c \in Slots : c # b => queues'[c] = queues[c]
      /\ queues'[b] = [queues[b] EXCEPT !.waiting = TRUE]
  BY <1>2, <1>3, <1>5
<1>7. IpcTypeOK'
  BY <1>1, <1>6 DEF IpcInv, IpcTypeOK
<1>8. \A c \in Slots : RingOK(queues'[c])
  <2>1. queues[b] \in IpcQueue
    BY <1>3
  <2>2. /\ queues'[b].count = queues[b].count
        /\ queues'[b].head = queues[b].head
        /\ queues'[b].tail = queues[b].tail
    BY <1>6, <2>1 DEF IpcQueue
  <2> QED BY <1>6, <2>2 DEF IpcInv, RingOK
<1>9. ProcInv'
  <2>1. TypeOK' /\ NoneReady' /\ (loaded \subseteq spaces)'
    BY <1>1, <1>4 DEF IpcInv, ProcInv, TypeOK, NoneReady
  <2>2. ASSUME NEW s \in Slots, Live(s)' PROVE Owner(s)'
    <3>1. Live(s)
      BY <1>1, <2>2 DEF Live
    <3>2. CanExecute /\ cpu.who = "user"
      BY <1>1 DEF Executing, CanExecute
    <3>3. Owner(s)
      BY <3>1, <3>2 DEF IpcInv, ProcInv
    <3> QED BY <1>1, <1>4, <3>2, <3>3 DEF Owner
  <2> QED BY <2>1, <2>2 DEF ProcInv
<1> QED BY <1>4, <1>7, <1>8, <1>9 DEF IpcInv, RingOK

(* sys_ipc_register writes one entry of the registry.                      *)
LEMMA IpcInvRegister ==
    ASSUME IpcInv, NEW n \in Names, sys_ipc_register(n)
    PROVE  IpcInv'
<1>1. /\ EntryFor(n) # {}
      /\ servers' = [servers EXCEPT ![Min(EntryFor(n))] =
                       [name |-> n.stem, active |-> TRUE, pid |-> current_pid]]
      /\ lastReg' = [lastReg EXCEPT ![n.stem] = current_pid]
      /\ UNCHANGED procVars
      /\ UNCHANGED <<queues, out>>
  BY DEF sys_ipc_register
<1>2. current_pid \in 0 .. PROC_MAX /\ n.stem \in Stems
  BY DEF IpcInv, ProcInv, TypeOK, Names
<1>3. [name |-> n.stem, active |-> TRUE, pid |-> current_pid] \in IpcServer
  BY <1>2 DEF IpcServer, Pids
<1>4. current_pid \in 0 .. NotRegistered
  BY <1>2, ProcAssumption DEF ProcAssumption, NotRegistered
<1>5. servers' \in [Entries -> IpcServer] /\ lastReg' \in [Stems -> 0 .. NotRegistered]
  BY <1>1, <1>3, <1>4 DEF IpcInv, IpcTypeOK
<1>6. IpcTypeOK'
  BY <1>1, <1>5 DEF IpcInv, IpcTypeOK
<1>7. ProcInv'
  BY <1>1, InvNext DEF IpcInv
<1> QED BY <1>1, <1>6, <1>7 DEF IpcInv, RingOK, procVars

(* Every step of programs and processes keeps the inductive invariant.     *)
LEMMA IpcInvNext == IpcInv /\ [Next]_vars => IpcInv'
<1>1. IpcInv /\ UNCHANGED vars => IpcInv'
  <2> SUFFICES ASSUME IpcInv, UNCHANGED vars PROVE IpcInv'
    OBVIOUS
  <2>1. UNCHANGED procVars /\ UNCHANGED ipcVars
    BY DEF vars
  <2>2. ProcInv'
    BY <2>1, InvNext DEF IpcInv
  <2> QED BY <2>1, <2>2 DEF IpcInv, IpcTypeOK, ipcVars, procVars, RingOK
<1> QED BY <1>1, IpcInvProc, IpcInvSend, IpcInvRecv, IpcInvRecvEmpty,
           IpcInvRegister
        DEF Next

(* So it holds in every state of every behaviour.                          *)
LEMMA IpcInvAlways == Spec => []IpcInv
<1> QED BY IpcInvInit, IpcInvNext, PTL DEF Spec

-----------------------------------------------------------------------------
(* The inboxes, the registry and the messages they hold stay in range.     *)
THEOREM IpcTyping == Spec => []IpcTypeOK
<1>1. IpcInv => IpcTypeOK
  BY DEF IpcInv
<1> QED BY <1>1, IpcInvAlways, PTL

(* sys_ipc_send and sys_ipc_recv keep head, tail and count of every inbox  *)
(* in step, for every depth and every order of calls.                      *)
THEOREM Rings == Spec => []RingConsistent
<1>1. IpcInv => RingConsistent
  BY DEF IpcInv, RingOK, RingConsistent
<1> QED BY <1>1, IpcInvAlways, PTL

-----------------------------------------------------------------------------
(* A send is a Put into one inbox.                                         *)
LEMMA SendPuts ==
    ASSUME IpcInv, NEW dest \in Pids, NEW type \in Types,
           sys_ipc_send(dest, type)
    PROVE  Mail!MailNext
<1>1. [type |-> type, from |-> current_pid, src |-> cpu.slot + 1] \in IpcMsg
  <2>1. current_pid \in 0 .. PROC_MAX /\ cpu.slot \in 0 .. PROC_MAX - 1
    BY DEF IpcInv, ProcInv, TypeOK, Cpu, Slots
  <2>2. cpu.slot + 1 \in 0 .. PROC_MAX
    BY <2>1, ProcAssumption DEF ProcAssumption
  <2> QED BY <2>1, <2>2 DEF IpcMsg, Pids
<1>2. PICK b \in Slots, m \in IpcMsg :
        /\ HasRoom(queues[b])
        /\ queues' = [queues EXCEPT ![b] = Enqueue(queues[b], m)]
  BY <1>1, BoxIsSlot DEF sys_ipc_send
<1>3. queues \in [Slots -> IpcQueue] /\ RingOK(queues[b])
  BY DEF IpcInv, IpcTypeOK
<1>4. Contents(Enqueue(queues[b], m)) = Append(Contents(queues[b]), m)
  BY <1>2, <1>3, EnqueueAppends
<1>5. Len(Contents(queues[b])) < IPC_QUEUE_DEPTH
  BY <1>2, <1>3, ContentsIsSeq DEF HasRoom
<1>6. [c \in Slots |-> Contents(queues'[c])] =
        [[c \in Slots |-> Contents(queues[c])] EXCEPT
           ![b] = Append(Contents(queues[b]), m)]
  BY <1>2, <1>3, <1>4
<1>7. out' = out
  BY DEF sys_ipc_send
<1>8. Mail!Put(b, m)
  BY <1>5, <1>6, <1>7 DEF Mail!Put
<1> QED BY <1>8 DEF Mail!MailNext

(* A receive is a Take from one inbox.                                     *)
LEMMA RecvTakes == IpcInv /\ sys_ipc_recv => Mail!MailNext
<1> SUFFICES ASSUME IpcInv, sys_ipc_recv PROVE Mail!MailNext
  OBVIOUS
<1>1. PICK b \in Slots :
        /\ queues[b].count > 0
        /\ out' = <<b, queues[b].msgs[queues[b].head]>>
        /\ queues' = [queues EXCEPT ![b] = Dequeue(queues[b])]
  <2>1. Box(current_pid) \in Slots
    BY BoxIsSlot DEF IpcInv, ProcInv, TypeOK, Pids
  <2> QED BY <2>1 DEF sys_ipc_recv
<1>2. queues \in [Slots -> IpcQueue] /\ RingOK(queues[b])
  BY DEF IpcInv, IpcTypeOK
<1>3. /\ Contents(queues[b]) # <<>>
      /\ queues[b].msgs[queues[b].head] = Head(Contents(queues[b]))
      /\ Contents(Dequeue(queues[b])) = Tail(Contents(queues[b]))
  BY <1>1, <1>2, DequeueTakes
<1>4. [c \in Slots |-> Contents(queues'[c])] =
        [[c \in Slots |-> Contents(queues[c])] EXCEPT
           ![b] = Tail(Contents(queues[b]))]
  BY <1>1, <1>2, <1>3
<1>5. Mail!Take(b)
  BY <1>1, <1>3, <1>4 DEF Mail!Take
<1> QED BY <1>5 DEF Mail!MailNext

(* Waiting for a message leaves the messages of every inbox alone.         *)
LEMMA WaitStutters == IpcInv /\ RecvEmpty => UNCHANGED Mail!mailVars
<1> SUFFICES ASSUME IpcInv, RecvEmpty PROVE UNCHANGED Mail!mailVars
  OBVIOUS
<1>1. PICK b \in Slots : queues' = [queues EXCEPT ![b].waiting = TRUE]
  BY BoxIsSlot DEF RecvEmpty, IpcInv, ProcInv, TypeOK, Pids
<1>2. queues \in [Slots -> IpcQueue]
  BY DEF IpcInv, IpcTypeOK
<1>3. ASSUME NEW c \in Slots
      PROVE  Contents(queues'[c]) = Contents(queues[c])
  <2>1. /\ queues'[c].count = queues[c].count
        /\ queues'[c].head = queues[c].head
        /\ queues'[c].msgs = queues[c].msgs
    BY <1>1, <1>2 DEF IpcQueue
  <2> QED BY <2>1 DEF Contents
<1>4. [c \in Slots |-> Contents(queues'[c])] = [c \in Slots |-> Contents(queues[c])]
  BY <1>3
<1>5. out' = out
  BY DEF RecvEmpty
<1> QED BY <1>4, <1>5 DEF Mail!mailVars

(* The four calls implement the mailboxes: a message enters at the back of *)
(* one inbox and leaves once, from its front, for every number of          *)
(* processes and depth, whatever else the programs and the timer do.       *)
THEOREM IpcIsMailbox == Spec => ImplementsMailbox
<1>1. Init => Mail!MailInit
  <2> SUFFICES ASSUME Init PROVE Mail!MailInit
    OBVIOUS
  <2>1. ASSUME NEW b \in Slots PROVE Contents(queues[b]) = <<>>
    <3>1. queues[b].count = 0
      BY DEF Init, IpcInit
    <3> QED BY <3>1 DEF Contents
  <2>2. [b \in Slots |-> Contents(queues[b])] = [b \in Slots |-> <<>>]
    BY <2>1
  <2>3. out = <<>>
    BY DEF Init, IpcInit
  <2> QED BY <2>2, <2>3 DEF Mail!MailInit, Mail!None
<1>2. IpcInv /\ [Next]_vars => [Mail!MailNext]_(Mail!mailVars)
  <2> SUFFICES ASSUME IpcInv, [Next]_vars
               PROVE  [Mail!MailNext]_(Mail!mailVars)
    OBVIOUS
  <2>1. ASSUME UNCHANGED <<queues, out>> PROVE UNCHANGED Mail!mailVars
    BY <2>1 DEF Mail!mailVars
  <2>2. CASE UNCHANGED ipcVars
    BY <2>1, <2>2 DEF ipcVars
  <2>3. CASE \E n \in Names : sys_ipc_register(n)
    BY <2>1, <2>3 DEF sys_ipc_register
  <2>4. CASE UNCHANGED vars
    BY <2>1, <2>4 DEF vars, ipcVars
  <2> QED BY <2>2, <2>3, <2>4, SendPuts, RecvTakes, WaitStutters DEF Next
<1> QED BY <1>1, <1>2, IpcInvAlways, PTL
        DEF Spec, ImplementsMailbox, Mail!MailSpec

-----------------------------------------------------------------------------
(* The registry: a stem has at most one entry, it holds the pid of the     *)
(* latest to register the stem, and without an entry nobody ever did.      *)
Known(s) == {i \in Entries : servers[i].active /\ servers[i].name = s}

RegistryInv ==
    \A s \in Stems :
        /\ Known(s) = {} => lastReg[s] = NotRegistered
        /\ \A i \in Known(s) : servers[i].pid = lastReg[s]
        /\ \A i, j \in Known(s) : i = j

(* At start nothing is registered.                                         *)
LEMMA RegistryInit == Init => RegistryInv
BY DEF Init, IpcInit, RegistryInv, Known

(* A registration fills the entry of its stem, or a free one.              *)
LEMMA RegistryRegister ==
    ASSUME IpcInv, RegistryInv, NEW n \in Names, sys_ipc_register(n)
    PROVE  RegistryInv'
<1> DEFINE e == Min(EntryFor(n))
<1>1. e \in EntryFor(n) /\ e \in Entries
  <2>1. EntryFor(n) \subseteq Entries /\ EntryFor(n) # {}
    BY DEF EntryFor, SameEntry, FreeEntries, sys_ipc_register
  <2>2. EntryFor(n) \subseteq Nat
    BY <2>1, IpcAssumption DEF IpcAssumption, Entries
  <2> QED BY <2>1, <2>2, MinNat
<1>2. /\ servers' = [servers EXCEPT ![e] =
                       [name |-> n.stem, active |-> TRUE, pid |-> current_pid]]
      /\ lastReg' = [lastReg EXCEPT ![n.stem] = current_pid]
  BY DEF sys_ipc_register
<1>3. n.stem \in Stems
  BY DEF Names
<1>4. servers \in [Entries -> IpcServer] /\ lastReg \in [Stems -> 0 .. NotRegistered]
  BY DEF IpcInv, IpcTypeOK
<1>5. \A s \in Stems \ {n.stem} : e \notin Known(s)
  BY <1>1, <1>3 DEF EntryFor, SameEntry, FreeEntries, Known
<1>6. \A i \in Known(n.stem) : i = e
  <2> SUFFICES ASSUME NEW i \in Known(n.stem) PROVE i = e
    OBVIOUS
  <2>1. SameEntry(n) = Known(n.stem)
    BY DEF SameEntry, Known
  <2>2. e \in Known(n.stem)
    BY <1>1, <2>1 DEF EntryFor
  <2> QED BY <1>3, <2>2 DEF RegistryInv
<1> HIDE DEF e
<1>7. /\ \A i \in Entries \ {e} : servers'[i] = servers[i]
      /\ servers'[e].name = n.stem /\ servers'[e].active = TRUE
      /\ servers'[e].pid = current_pid
      /\ lastReg'[n.stem] = current_pid
      /\ \A s \in Stems \ {n.stem} : lastReg'[s] = lastReg[s]
  BY <1>1, <1>2, <1>3, <1>4
<1>8. Known(n.stem)' = {e}
  BY <1>1, <1>6, <1>7 DEF Known
<1>9. ASSUME NEW s \in Stems \ {n.stem}
      PROVE  /\ Known(s)' = Known(s)
             /\ \A i \in Known(s) : servers'[i] = servers[i]
  <2>1. e \notin Known(s)'
    BY <1>1, <1>7 DEF Known
  <2>2. \A i \in Entries \ {e} : i \in Known(s)' <=> i \in Known(s)
    BY <1>7 DEF Known
  <2>3. Known(s) \subseteq Entries /\ Known(s)' \subseteq Entries
    BY DEF Known
  <2> QED BY <1>5, <1>7, <2>1, <2>2, <2>3
<1>10. ASSUME NEW s \in Stems
       PROVE  /\ Known(s)' = {} => lastReg'[s] = NotRegistered
              /\ \A i \in Known(s)' : servers'[i].pid = lastReg'[s]
              /\ \A i, j \in Known(s)' : i = j
  <2>1. CASE s = n.stem
    BY <1>7, <1>8, <2>1
  <2>2. CASE s # n.stem
    <3>1. /\ Known(s)' = Known(s) /\ lastReg'[s] = lastReg[s]
          /\ \A i \in Known(s) : servers'[i] = servers[i]
      BY <1>7, <1>9, <2>2
    <3> QED BY <3>1 DEF RegistryInv
  <2> QED BY <2>1, <2>2
<1> QED BY <1>10 DEF RegistryInv, NotRegistered

(* Nothing else touches the registry.                                      *)
LEMMA RegistryNext == IpcInv /\ RegistryInv /\ [Next]_vars => RegistryInv'
<1> SUFFICES ASSUME IpcInv, RegistryInv, [Next]_vars PROVE RegistryInv'
  OBVIOUS
<1>1. ASSUME UNCHANGED <<servers, lastReg>> PROVE RegistryInv'
  BY <1>1 DEF RegistryInv, Known, NotRegistered
<1>2. CASE UNCHANGED ipcVars
  BY <1>1, <1>2 DEF ipcVars
<1>3. CASE \E dest \in Pids, type \in Types : sys_ipc_send(dest, type)
  BY <1>1, <1>3 DEF sys_ipc_send
<1>4. CASE sys_ipc_recv
  BY <1>1, <1>4 DEF sys_ipc_recv
<1>5. CASE RecvEmpty
  BY <1>1, <1>5 DEF RecvEmpty
<1>6. CASE UNCHANGED vars
  BY <1>1, <1>6 DEF vars, ipcVars
<1> QED BY <1>2, <1>3, <1>4, <1>5, <1>6, RegistryRegister DEF Next

(* sys_ipc_register and sys_ipc_lookup: a short name always leads to the   *)
(* last process that registered it, and no name is in the registry twice,  *)
(* for every size of the registry and every order of registrations (the    *)
(* owner loses it, other than ipc.c:137 says).                             *)
THEOREM Lookups == Spec => []LookupFindsLatest
<1>1. IpcInv /\ RegistryInv => LookupFindsLatest
  <2> SUFFICES ASSUME IpcInv, RegistryInv PROVE LookupFindsLatest
    OBVIOUS
  <2>1. ASSUME NEW s \in Stems
        PROVE  sys_ipc_lookup([stem |-> s, tail |-> 0]) = lastReg[s]
    <3> DEFINE n == [stem |-> s, tail |-> 0]
               found == {i \in SameEntry(n) : n.tail = 0}
    <3>1. found = Known(s)
      BY DEF SameEntry, Known
    <3>2. sys_ipc_lookup(n) = IF found = {} THEN NotRegistered
                              ELSE servers[Min(found)].pid
      BY DEF sys_ipc_lookup
    <3> HIDE DEF found
    <3>3. CASE Known(s) = {}
      BY <3>1, <3>2, <3>3 DEF RegistryInv
    <3>4. CASE Known(s) # {}
      <4>1. Known(s) \subseteq Nat
        BY IpcAssumption DEF Known, Entries, IpcAssumption
      <4>2. Min(Known(s)) \in Known(s)
        BY <3>4, <4>1, MinNat
      <4> QED BY <3>1, <3>2, <3>4, <4>2 DEF RegistryInv
    <3> QED BY <3>3, <3>4
  <2>2. ASSUME NEW i \in Entries, NEW j \in Entries,
               servers[i].active, servers[j].active,
               servers[i].name = servers[j].name
        PROVE  i = j
    <3>1. servers[i].name \in Stems
      BY DEF IpcInv, IpcTypeOK, IpcServer
    <3>2. i \in Known(servers[i].name) /\ j \in Known(servers[i].name)
      BY <2>2 DEF Known
    <3> QED BY <3>1, <3>2 DEF RegistryInv
  <2> QED BY <2>1, <2>2 DEF LookupFindsLatest
<1>2. Spec => []RegistryInv
  BY RegistryInit, RegistryNext, IpcInvAlways, PTL DEF Spec
<1> QED BY <1>1, <1>2, IpcInvAlways, PTL

-----------------------------------------------------------------------------
(* Who a message can come from.  current_pid is written by the timer only, *)
(* so a program that was just started sends under the pid of the one that  *)
(* ran before it; that process is DEAD by then, and DEAD for ever.         *)
Gone(p) == p = 0 \/ pcb[p - 1].state = "DEAD"

PidInv ==
    /\ \A s \in Slots : pcb[s].state # "EMPTY" => pcb[s].pid = s + 1
    /\ CanExecute /\ cpu.who \notin {"shell", "hung"} =>
         /\ pcb[cpu.slot].state # "EMPTY"
         /\ Gone(current_pid) \/ current_pid = cpu.slot + 1
    /\ cpu.who = "shell" => Gone(current_pid)

(* At start nothing runs and no pid is known.                              *)
LEMMA PidInit == ProcInit => PidInv
BY DEF ProcInit, PidInv, EmptyPcb, Gone

(* The dead stay dead.                                                     *)
LEMMA GoneStays ==
    ASSUME ProcInv, [ProcNext]_procVars, NEW p \in 0 .. PROC_MAX, Gone(p)
    PROVE  Gone(p)'
<1>1. CASE p = 0
  BY <1>1 DEF Gone
<1>2. CASE p # 0
  <2>1. p - 1 \in Slots
    BY <1>2, ProcAssumption DEF ProcAssumption, Slots
  <2>2. pcb[p - 1].state = "DEAD"
    BY <1>2 DEF Gone
  <2>3. pcb'[p - 1] = pcb[p - 1]
    BY <2>1, <2>2, DeadUntouched
  <2> QED BY <2>2, <2>3 DEF Gone
<1> QED BY <1>1, <1>2

(* A process keeps the pid of its slot.                                    *)
LEMMA PidsKept ==
    ASSUME ProcInv, PidInv, [ProcNext]_procVars,
           NEW s \in Slots, pcb'[s].state # "EMPTY"
    PROVE  pcb'[s].pid = s + 1
<1>1. pcb \in [Slots -> PCB]
  BY DEF ProcInv, TypeOK
<1>2. pcb[s].state # "EMPTY" => pcb[s].pid = s + 1
  BY DEF PidInv
<1>3. CASE RunProgram \/ SysExecve \/ SysFork
  <2>1. PICK st \in States, c \in 1 .. MaxSpaces : process_create(st, c)
    BY <1>3 DEF RunProgram, SysExecve, SysFork, States
  <2>2. FirstEmpty \in Slots
    BY <2>1, Creation
  <2>3. CASE s = FirstEmpty
    <3>1. pcb' = [pcb EXCEPT ![FirstEmpty] =
                    [state |-> st, pid |-> FirstEmpty + 1, cr3 |-> c,
                     kbase |-> KernelStack, vma_table |-> VmaTable,
                     saved |-> FirstEmpty]]
      BY <2>1 DEF process_create
    <3> QED BY <1>1, <2>2, <2>3, <3>1
  <2>4. CASE s # FirstEmpty
    <3>1. pcb'[s] = pcb[s]
      BY <2>1, <2>4, Creation
    <3> QED BY <1>2, <3>1
  <2> QED BY <2>3, <2>4
<1>4. ASSUME pcb'[s].pid = pcb[s].pid, pcb[s].state # "EMPTY"
      PROVE  pcb'[s].pid = s + 1
  BY <1>2, <1>4
<1>5. CASE pcb'[s] = pcb[s]
  BY <1>2, <1>5
<1>6. CASE pcb'[s] # pcb[s]
  <2>1. pcb[s] \in PCB
    BY <1>1
  <2>2. CASE SysExit \/ SysExitGroup \/ FutexWait \/ OutOfMemory
    <3>1. IsRunning => /\ process_current_pcb \in Slots
                       /\ pcb[process_current_pcb].state = "RUNNING"
      BY Scans
    <3>2. CASE SysExit
      BY <1>1, <1>4, <1>6, <2>1, <3>1, <3>2 DEF SysExit, PCB
    <3>3. CASE SysExitGroup
      BY <1>1, <1>4, <1>6, <2>1, <3>1, <3>3 DEF SysExitGroup, PCB
    <3>4. CASE FutexWait
      BY <1>1, <1>4, <1>6, <2>1, <3>1, <3>4 DEF FutexWait, PCB
    <3>5. CASE OutOfMemory
      BY <1>1, <1>4, <1>6, <2>1, <3>1, <3>5 DEF OutOfMemory, PCB
    <3> QED BY <2>2, <3>2, <3>3, <3>4, <3>5
  <2>3. CASE FutexTimeout
    BY <1>1, <1>4, <1>6, <2>1, <2>3 DEF FutexTimeout, PCB
  <2>4. CASE ShellOutOfMemory \/ UnhandledFault \/ UNCHANGED procVars
    BY <1>6, <2>4 DEF ShellOutOfMemory, UnhandledFault, procVars
  <2>5. CASE TimerTick
    <3>1. IsRunning => /\ process_current_pcb \in Slots
                       /\ pcb[process_current_pcb].state = "RUNNING"
      BY Scans
    <3>2. pcb' # pcb
      BY <1>6
    <3>3. /\ IsRunning
          /\ pcb' = [pcb EXCEPT ![process_current_pcb] =
                       [@ EXCEPT !.cr3 = cpu.cr3, !.saved = cpu.slot]]
      BY <2>5, <3>2, TimerKeeps DEF procVars
    <3> HIDE <2>5
    <3>4. /\ pcb[s].state # "EMPTY"
          /\ pcb'[s] = [pcb[s] EXCEPT !.cr3 = cpu.cr3, !.saved = cpu.slot]
      BY <1>1, <1>6, <3>1, <3>3
    <3>5. pcb'[s].pid = pcb[s].pid
      BY <2>1, <3>4 DEF PCB
    <3> QED BY <1>4, <3>4, <3>5
  <2> QED BY <1>3, <2>2, <2>3, <2>4, <2>5 DEF ProcNext
<1> QED BY <1>5, <1>6

(* The pid a program sends under is its own, or that of a dead process.    *)
LEMMA PidNext == ProcInv /\ PidInv /\ [ProcNext]_procVars => PidInv'
<1> SUFFICES ASSUME ProcInv, PidInv, [ProcNext]_procVars PROVE PidInv'
  OBVIOUS
<1>1. /\ pcb \in [Slots -> PCB] /\ current_pid \in 0 .. PROC_MAX
      /\ cpu \in Cpu /\ cpu.slot \in Slots
  BY DEF ProcInv, TypeOK, Cpu
<1>2. Gone(current_pid) /\ current_pid' = current_pid => Gone(current_pid)'
  <2> SUFFICES ASSUME Gone(current_pid), current_pid' = current_pid
               PROVE  Gone(current_pid)'
    OBVIOUS
  <2>1. PICK p \in 0 .. PROC_MAX : p = current_pid
    BY <1>1
  <2>2. Gone(p)
    BY <2>1
  <2>3. Gone(p)'
    BY <2>2, GoneStays
  <2> QED BY <2>1, <2>3 DEF Gone
<1>3. \A s \in Slots : pcb'[s].state # "EMPTY" => pcb'[s].pid = s + 1
  BY PidsKept
<1>4. CASE UNCHANGED procVars
  BY <1>4 DEF procVars, PidInv, Gone, CanExecute, Executing
<1>5. CASE ShellOutOfMemory \/ UnhandledFault
  <2>1. cpu'.who = "halted"
    BY <1>1, <1>5 DEF ShellOutOfMemory, UnhandledFault, Cpu
  <2> QED BY <1>3, <2>1 DEF PidInv, CanExecute
<1>6. CASE RunProgram
  <2>1. PICK c \in 1 .. MaxSpaces :
          process_create("RUNNING", c) /\ EnterUser(FirstEmpty, c)
    BY <1>6 DEF RunProgram
  <2>2. /\ FirstEmpty \in Slots
        /\ pcb'[FirstEmpty].state = "RUNNING"
    BY <2>1, Creation DEF States
  <2>3. cpu'.slot = FirstEmpty /\ cpu'.who = "user"
    BY <2>1 DEF EnterUser
  <2>4. Gone(current_pid)'
    BY <1>2, <1>6 DEF RunProgram, PidInv
  <2> QED BY <1>3, <2>2, <2>3, <2>4 DEF PidInv
<1>7. CASE SysFork
  <2>1. PICK c \in 1 .. MaxSpaces :
          /\ process_create("RUNNING", c)
          /\ EnterUser(FirstEmpty, c)
          /\ LET copied == IF FirstEmpty + 1 \in Slots
                           THEN {pcb[FirstEmpty + 1].cr3} ELSE {}
             IN  loaded' = loaded \cup (copied \cap spaces)
    BY <1>7 DEF SysFork
  <2>2. loaded' \subseteq spaces /\ c \notin spaces /\ spaces' = spaces \cup {c}
    BY <2>1, Creation DEF ProcInv, States
  <2>3. cpu'.who = "user" /\ cpu'.cr3 = c
    BY <2>1 DEF EnterUser
  <2>4. ~CanExecute'
    BY <2>2, <2>3 DEF CanExecute, Executing
  <2> QED BY <1>3, <2>3, <2>4 DEF PidInv
<1>8. CASE SysExecve
  <2>1. Executing /\ UNCHANGED <<current_pid, cpu>>
    BY <1>8 DEF SysExecve
  <2>2. CanExecute /\ cpu.who = "user"
    BY <2>1, TheRunningProcess
  <2>3. PICK c \in 1 .. MaxSpaces : process_create("EMPTY", c)
    BY <1>8 DEF SysExecve
  <2>4. pcb[cpu.slot].state # "EMPTY"
    BY <2>2 DEF PidInv
  <2>5. pcb'[cpu.slot] = pcb[cpu.slot]
    BY <1>1, <2>3, <2>4, Creation DEF States
  <2> QED BY <1>2, <1>3, <2>1, <2>2, <2>4, <2>5 DEF PidInv
<1>9. CASE SysExit
  <2>1. CanExecute /\ cpu.who = "user" /\ Executing
    BY <1>9, TheRunningProcess DEF SysExit
  <2>2. cpu'.who = "shell" /\ current_pid' = current_pid
    BY <1>1, <1>9 DEF SysExit, Cpu
  <2>3. CASE Gone(current_pid)
    BY <1>2, <1>3, <2>2, <2>3 DEF PidInv
  <2>4. CASE ~Gone(current_pid)
    <3>1. current_pid = cpu.slot + 1 /\ pcb[cpu.slot].state # "EMPTY"
      BY <2>1, <2>4 DEF PidInv
    <3>2. current_pid - 1 = cpu.slot
      BY <1>1, <3>1, ProcAssumption DEF Slots, ProcAssumption
    <3>3. pcb[cpu.slot].state # "DEAD"
      BY <2>4, <3>2 DEF Gone
    <3>4. Live(cpu.slot)
      BY <1>1, <3>1, <3>3 DEF Live, LiveStates, PCB, States
    <3>5. IsRunning /\ cpu.slot = process_current_pcb
      BY <1>1, <2>1, <3>4, TheRunningProcess
    <3>6. pcb'[cpu.slot].state = "DEAD"
      BY <1>1, <1>9, <3>5 DEF SysExit, PCB
    <3>7. Gone(current_pid)'
      BY <2>2, <3>2, <3>6 DEF Gone
    <3> QED BY <1>3, <2>2, <3>7 DEF PidInv
  <2> QED BY <2>3, <2>4
<1>10. CASE SysExitGroup
  <2>1. cpu'.who = "hung"
    BY <1>1, <1>10 DEF SysExitGroup, Cpu
  <2> QED BY <1>3, <2>1 DEF PidInv
<1>11. CASE FutexWait \/ OutOfMemory
  <2>1. CanExecute /\ cpu.who = "user" /\ Executing
    BY <1>11, TheRunningProcess DEF FutexWait, OutOfMemory
  <2>2. current_pid' = current_pid
    BY <1>11 DEF FutexWait, OutOfMemory
  <2>3. IsRunning => process_current_pcb \in Slots
    BY Scans
  <2>4. pcb[cpu.slot].state # "EMPTY"
    BY <2>1 DEF PidInv
  <2>5. CASE FutexWait
    <3>1. pcb'[cpu.slot].state # "EMPTY"
      BY <1>1, <2>3, <2>4, <2>5 DEF FutexWait, PCB
    <3>2. cpu'.slot = cpu.slot /\ cpu'.who = "sleep"
      BY <1>1, <2>5 DEF FutexWait, Cpu
    <3> QED BY <1>2, <1>3, <2>1, <2>2, <3>1, <3>2 DEF PidInv
  <2>6. CASE OutOfMemory /\ IsRunning
    <3>1. pcb'[cpu.slot].state # "EMPTY"
      BY <1>1, <2>3, <2>4, <2>6 DEF OutOfMemory, PCB
    <3>2. cpu' = cpu
      BY <2>6 DEF OutOfMemory
    <3> QED BY <1>2, <1>3, <2>1, <2>2, <3>1, <3>2 DEF PidInv
  <2>7. CASE OutOfMemory /\ ~IsRunning
    <3>1. cpu'.who = "halted"
      BY <1>1, <2>7 DEF OutOfMemory, Cpu
    <3> QED BY <1>3, <3>1 DEF PidInv, CanExecute
  <2> QED BY <1>11, <2>5, <2>6, <2>7
<1>12. CASE FutexTimeout
  <2>1. CanExecute /\ cpu.who = "sleep"
    BY <1>12 DEF FutexTimeout, CanExecute
  <2>2. current_pid' = current_pid /\ cpu'.slot = cpu.slot /\ cpu'.who = "user"
    BY <1>1, <1>12 DEF FutexTimeout, Cpu
  <2>3. pcb'[cpu.slot].state # "EMPTY"
    BY <1>1, <1>12 DEF FutexTimeout, PCB
  <2> QED BY <1>2, <1>3, <2>1, <2>2, <2>3 DEF PidInv
<1>13. CASE TimerTick /\ ~UNCHANGED procVars
  <2> DEFINE r == process_current_pcb
  <2>1. /\ IsRunning
        /\ pcb' = [pcb EXCEPT ![r] =
                     [@ EXCEPT !.cr3 = cpu.cr3, !.saved = cpu.slot]]
        /\ cpu' = [cpu EXCEPT !.who = "user"]
        /\ current_pid' = pcb[r].pid
        /\ UNCHANGED <<spaces, loaded, stacks, vmas>>
    BY <1>13, TimerKeeps
  <2>2. r \in Slots /\ pcb[r].state = "RUNNING"
    BY <2>1, Scans
  <2> HIDE DEF r
  <2>3. cpu'.who = "user" /\ cpu'.slot = cpu.slot /\ cpu'.cr3 = cpu.cr3
    BY <1>1, <2>1 DEF Cpu
  <2>4. pcb'[r].state = "RUNNING"
    BY <1>1, <2>1, <2>2 DEF PCB
  <2>5. ASSUME CanExecute'
        PROVE  pcb'[cpu'.slot].state # "EMPTY" /\ current_pid' = cpu'.slot + 1
    <3>1. cpu.who \in {"shell", "user", "sleep"}
      BY <1>13 DEF TimerTick
    <3>2. CanExecute
      BY <2>1, <2>3, <2>5, <3>1 DEF CanExecute, Executing
    <3>3. cpu.slot = r
      BY <2>2, <3>2 DEF ProcInv, Live, LiveStates, Owner
    <3>4. pcb[r].pid = r + 1
      BY <2>2 DEF PidInv
    <3> QED BY <2>1, <2>3, <2>4, <3>3, <3>4
  <2> QED BY <1>3, <2>3, <2>5 DEF PidInv
<1> QED BY <1>4, <1>5, <1>6, <1>7, <1>8, <1>9, <1>10, <1>11, <1>12, <1>13
        DEF ProcNext

(* Every message came from the process whose pid it carries, or carries    *)
(* the pid of a dead one.                                                  *)
Honest(m) == m.from = m.src \/ Gone(m.from)

SenderInv ==
    /\ PidInv
    /\ \A b \in Slots, i \in Indices : Honest(queues[b].msgs[i])

(* At start there are no messages.                                         *)
LEMMA SenderInit == Init => SenderInv
<1> SUFFICES ASSUME Init PROVE SenderInv
  OBVIOUS
<1>1. PidInv
  BY PidInit DEF Init
<1>2. ASSUME NEW b \in Slots, NEW i \in Indices PROVE Honest(queues[b].msgs[i])
  <2>1. queues[b].msgs[i] = NoMsg
    BY DEF Init, IpcInit
  <2> QED BY <2>1 DEF Honest, NoMsg
<1> QED BY <1>1, <1>2 DEF SenderInv

(* A send writes one message, under the pid its program is known by.       *)
LEMMA SenderSend ==
    ASSUME IpcInv, SenderInv, NEW dest \in Pids, NEW type \in Types,
           sys_ipc_send(dest, type)
    PROVE  SenderInv'
<1> DEFINE d == Box(dest)
           n == [type |-> type, from |-> current_pid, src |-> cpu.slot + 1]
<1>1. d \in Slots /\ queues \in [Slots -> IpcQueue]
  BY BoxIsSlot DEF IpcInv, IpcTypeOK
<1>2. ~queues[d].waiting
  BY <1>1 DEF sys_ipc_send, Executing, IpcInv
<1>3. UNCHANGED procVars
  BY <1>2 DEF sys_ipc_send, procVars
<1>4. queues' = [queues EXCEPT ![d] = Enqueue(queues[d], n)]
  BY DEF sys_ipc_send
<1>5. n.from = n.src \/ Gone(n.from)
  <2>1. CanExecute /\ cpu.who = "user"
    BY TheRunningProcess DEF sys_ipc_send, IpcInv
  <2> QED BY <2>1 DEF SenderInv, PidInv
<1> HIDE DEF n, d
<1>6. PidInv'
  BY <1>3 DEF SenderInv, PidInv, procVars, Gone, CanExecute, Executing
<1>7. ASSUME NEW b \in Slots, NEW i \in Indices
      PROVE  Honest(queues'[b].msgs[i])
  <2>1. queues[b] \in IpcQueue
    BY <1>1
  <2>2. CASE b # d
    BY <1>1, <1>4, <2>2 DEF SenderInv
  <2>3. CASE b = d
    <3>1. queues'[b].msgs = [queues[b].msgs EXCEPT ![queues[b].tail] = n]
      BY <1>1, <1>4, <2>1, <2>3 DEF Enqueue, IpcQueue
    <3>2. queues'[b].msgs[i] = n \/ queues'[b].msgs[i] = queues[b].msgs[i]
      BY <2>1, <3>1 DEF IpcQueue
    <3> QED BY <1>5, <3>2 DEF SenderInv, Honest
  <2> QED BY <2>2, <2>3
<1>8. ASSUME NEW b \in Slots, NEW i \in Indices
      PROVE  Honest(queues[b].msgs[i])'
  BY <1>3, <1>7 DEF Honest, Gone, procVars
<1> QED BY <1>6, <1>8 DEF SenderInv

(* Every other step leaves the messages in their places.                   *)
LEMMA SenderRest ==
    ASSUME IpcInv, SenderInv, [ProcNext]_procVars, PidInv',
           \A b \in Slots : queues'[b].msgs = queues[b].msgs
    PROVE  SenderInv'
<1>1. ASSUME NEW b \in Slots, NEW i \in Indices
      PROVE  Honest(queues[b].msgs[i])'
  <2>1. queues[b].msgs[i] \in IpcMsg
    BY DEF IpcInv, IpcTypeOK, IpcQueue
  <2>2. PICK m \in IpcMsg : m = queues[b].msgs[i] /\ m = queues'[b].msgs[i]
    BY <2>1
  <2>3. m.from \in 0 .. PROC_MAX /\ (m.from = m.src \/ Gone(m.from))
    BY <2>2 DEF SenderInv, Honest, IpcMsg, Pids
  <2>4. m.from = m.src \/ Gone(m.from)'
    BY <2>3, GoneStays DEF IpcInv
  <2> QED BY <2>2, <2>4 DEF Honest, Gone
<1> QED BY <1>1 DEF SenderInv

(* Every step of programs and processes keeps the senders honest.          *)
LEMMA SenderNext == IpcInv /\ SenderInv /\ [Next]_vars => SenderInv'
<1> SUFFICES ASSUME IpcInv, SenderInv, [Next]_vars PROVE SenderInv'
  OBVIOUS
<1>1. queues \in [Slots -> IpcQueue] /\ ProcInv /\ PidInv
  BY DEF IpcInv, IpcTypeOK, SenderInv
<1>2. CASE [ProcNext]_procVars /\ UNCHANGED ipcVars
  BY <1>1, <1>2, PidNext, SenderRest DEF ipcVars
<1>3. CASE UNCHANGED vars
  BY <1>2, <1>3 DEF vars
<1>4. CASE sys_ipc_recv
  <2>1. PICK b \in Slots : queues' = [queues EXCEPT ![b] = Dequeue(@)]
    BY <1>4, BoxIsSlot DEF sys_ipc_recv, IpcInv, ProcInv, TypeOK, Pids
  <2>2. \A c \in Slots : queues'[c].msgs = queues[c].msgs
    BY <1>1, <2>1 DEF Dequeue, IpcQueue
  <2>3. UNCHANGED procVars
    BY <1>4 DEF sys_ipc_recv
  <2> QED BY <1>1, <2>2, <2>3, PidNext, SenderRest
<1>5. CASE \E n \in Names : sys_ipc_register(n)
  <2>1. UNCHANGED procVars /\ queues' = queues
    BY <1>5 DEF sys_ipc_register
  <2> QED BY <1>1, <2>1, PidNext, SenderRest
<1>6. CASE RecvEmpty
  <2>1. PICK b \in Slots : queues' = [queues EXCEPT ![b].waiting = TRUE]
    BY <1>6, BoxIsSlot DEF RecvEmpty, IpcInv, ProcInv, TypeOK, Pids
  <2>2. \A c \in Slots : queues'[c].msgs = queues[c].msgs
    BY <1>1, <2>1 DEF IpcQueue
  <2>3. CanExecute /\ cpu.who = "user"
    BY <1>6, <1>1, TheRunningProcess DEF RecvEmpty
  <2>4. /\ UNCHANGED <<pcb, current_pid>> /\ cpu'.who = "spin"
        /\ cpu'.slot = cpu.slot
    BY <1>1, <1>6 DEF RecvEmpty, ProcInv, TypeOK, Cpu
  <2>5. PidInv'
    BY <1>1, <2>3, <2>4 DEF PidInv, Gone
  <2>6. \A b2 \in Slots, i \in Indices : Honest(queues[b2].msgs[i])'
    BY <2>2, <2>4 DEF SenderInv, Honest, Gone
  <2> QED BY <2>5, <2>6 DEF SenderInv
<1> QED BY <1>2, <1>3, <1>4, <1>5, <1>6, SenderSend DEF Next

(* sys_ipc_send stamps a message with current_pid, which is out of date    *)
(* while a program waits for its first timer tick; still no receiver is    *)
(* misled: a live process whose pid a message carries did send it.         *)
THEOREM HonestSenders == Spec => []NoForgedSender
<1>1. IpcInv /\ SenderInv => NoForgedSender
  <2> SUFFICES ASSUME IpcInv, SenderInv,
                      NEW b \in Slots, NEW k \in 1 .. queues[b].count,
                      NEW s \in Slots, Live(s),
                      pcb[s].pid = Contents(queues[b])[k].from
               PROVE  Contents(queues[b])[k].src = s + 1
    BY DEF NoForgedSender
  <2>1. queues[b] \in IpcQueue /\ k \in 1 .. IPC_QUEUE_DEPTH + 1
    BY IpcAssumption DEF IpcAssumption, IpcInv, IpcTypeOK, IpcQueue
  <2>2. PICK i \in Indices : Contents(queues[b])[k] = queues[b].msgs[i]
    BY <2>1, ContentsIsSeq, PlaceValue
  <2>3. pcb[s].pid = s + 1
    BY DEF Live, LiveStates, SenderInv, PidInv
  <2>4. queues[b].msgs[i].from = s + 1
    BY <2>2, <2>3
  <2>5. ~Gone(s + 1)
    <3>1. s + 1 # 0 /\ (s + 1) - 1 = s
      BY DEF Slots
    <3> QED BY <3>1 DEF Gone, Live, LiveStates
  <2> QED BY <2>2, <2>4, <2>5 DEF SenderInv, Honest
<1>2. Spec => []SenderInv
  BY SenderInit, SenderNext, IpcInvAlways, PTL DEF Spec
<1> QED BY <1>1, <1>2, IpcInvAlways, PTL

-----------------------------------------------------------------------------
(* The setting of plain programs.  Its actions are those of Proc.          *)
(* The steps of that setting: a program that is started has an image.      *)
PlainStep ==
    \/ RunProgram /\ loaded' = loaded \cup {cpu'.cr3}
    \/ ShellOutOfMemory
    \/ SysExit
    \/ SysExitGroup
    \/ FutexWait
    \/ FutexTimeout
    \/ UnhandledFault
    \/ TimerTick

LEMMA PlainSteps ==
    ASSUME PlainCalls \subseteq Calls, Plain!ProcNext
    PROVE  PlainStep
<1> USE DEF Plain!Slots, Slots, Plain!InState, InState, Plain!IsRunning, IsRunning,
        Plain!process_current_pcb, process_current_pcb, Plain!Min, Min,
        Plain!Nil, Nil, Plain!KernelSpace, KernelSpace
<1>1. Plain!Executing => Executing
  BY DEF Plain!Executing, Executing
<1>2. ASSUME Plain!RunProgram PROVE RunProgram /\ loaded' = loaded \cup {cpu'.cr3}
  <2>1. PICK c \in 1 .. MaxSpaces :
           /\ Plain!process_create("RUNNING", c)
           /\ Plain!EnterUser(Plain!FirstEmpty, c)
           /\ loaded' = loaded \cup {c}
    BY <1>2 DEF Plain!RunProgram, PlainCalls
  <2>2. process_create("RUNNING", c)
    BY <2>1, Zenon DEF Plain!process_create, process_create, Plain!HasEmpty, HasEmpty,
       Plain!FirstEmpty, FirstEmpty, Plain!KernelStack, KernelStack, Plain!VmaTable, VmaTable
  <2>3. EnterUser(FirstEmpty, c)
    BY <2>1, Zenon DEF Plain!EnterUser, EnterUser, Plain!FirstEmpty, FirstEmpty
  <2>4. cpu'.cr3 = c
    BY <2>3 DEF EnterUser
  <2> QED BY <1>2, <2>1, <2>2, <2>3, <2>4, Zenon DEF Plain!RunProgram, RunProgram
<1>3. Plain!ShellOutOfMemory => ShellOutOfMemory
  BY DEF Plain!ShellOutOfMemory, ShellOutOfMemory, Plain!HasEmpty, HasEmpty
<1>4. Plain!SysExit => SysExit
  BY <1>1 DEF Plain!SysExit, SysExit, PlainCalls
<1>5. Plain!SysExitGroup => SysExitGroup
  BY <1>1 DEF Plain!SysExitGroup, SysExitGroup, PlainCalls
<1>6. Plain!FutexWait => FutexWait
  BY <1>1 DEF Plain!FutexWait, FutexWait, PlainCalls
<1>7. Plain!FutexTimeout => FutexTimeout
  BY DEF Plain!FutexTimeout, FutexTimeout
<1>8. Plain!UnhandledFault => UnhandledFault
  BY DEF Plain!UnhandledFault, UnhandledFault, PlainCalls
<1>9. Plain!TimerTick => TimerTick
  BY Zenon DEF Plain!TimerTick, TimerTick, Plain!NextReady, NextReady, Plain!Distance, Distance,
     Plain!procVars, procVars
<1>10. ~Plain!SysExecve /\ ~Plain!SysFork /\ ~Plain!OutOfMemory
  BY DEF Plain!SysExecve, Plain!SysFork, Plain!OutOfMemory, PlainCalls
<1> QED
  BY <1>2, <1>3, <1>4, <1>5, <1>6, <1>7, <1>8, <1>9, <1>10 DEF Plain!ProcNext, PlainStep

(* What the accounting rests on: a program that has the processor, or      *)
(* sleeps, has an image, so it executes and is the live process.           *)
PlainInv ==
    /\ ProcInv
    /\ SpacesAccounted
    /\ cpu.who \in {"user", "sleep"} => cpu.cr3 \in loaded

LEMMA PlainExecutes ==
    ASSUME PlainInv, cpu.who \in {"shell", "user", "sleep"}
    PROVE  CanExecute
BY DEF PlainInv, CanExecute, Executing

(* Exit and exit_group free the space of the only live process.            *)
LEMMA PlainEnds ==
    ASSUME PlainInv, Executing, NEW st \in {"DEAD", "EMPTY"},
           IF IsRunning
           THEN /\ \A s \in Slots :
                     pcb'[s].state = IF s = process_current_pcb THEN st
                                     ELSE pcb[s].state
                /\ spaces' = spaces \ {pcb[process_current_pcb].cr3}
           ELSE UNCHANGED <<pcb, spaces>>
    PROVE  SpacesAccounted'
<1>1. \A s \in Slots : Live(s) => IsRunning /\ s = process_current_pcb
  BY TheRunningProcess DEF PlainInv
<1>2. spaces = {pcb[s].cr3 : s \in {t \in Slots : Live(t)}}
  BY DEF PlainInv, SpacesAccounted
<1>3. \A s \in Slots : ~Live(s)'
  BY <1>1 DEF Live, LiveStates
<1>4. spaces' = {}
  BY <1>1, <1>2
<1> QED BY <1>3, <1>4 DEF SpacesAccounted

(* The other steps leave the spaces and whose they are.                    *)
LEMMA PlainGoesOn ==
    ASSUME PlainInv, spaces' = spaces,
           \A s \in Slots : pcb'[s].cr3 = pcb[s].cr3 /\ (Live(s)' <=> Live(s))
    PROVE  SpacesAccounted'
BY DEF PlainInv, SpacesAccounted

LEMMA PlainInvInit == ProcInit => PlainInv
BY InvInit DEF ProcInit, PlainInv, SpacesAccounted, Live, LiveStates, EmptyPcb

LEMMA PlainInvStep ==
    ASSUME PlainInv, PlainStep
    PROVE  PlainInv'
<1>1. ProcInv'
  BY InvNext DEF PlainStep, ProcNext, PlainInv
<1>2. TypeOK /\ pcb \in [Slots -> PCB] /\ cpu \in Cpu
  BY DEF PlainInv, ProcInv, TypeOK
<1>3. IsRunning => process_current_pcb \in Slots /\ Live(process_current_pcb)
  BY Scans DEF Live, LiveStates
<1>4. CASE RunProgram /\ loaded' = loaded \cup {cpu'.cr3}
  <2>1. PICK c \in 1 .. MaxSpaces :
          process_create("RUNNING", c) /\ EnterUser(FirstEmpty, c)
    BY <1>4 DEF RunProgram
  <2>2. PICK n \in Slots :
          /\ spaces' = spaces \cup {c} /\ pcb'[n].state = "RUNNING" /\ pcb'[n].cr3 = c
          /\ \A s \in Slots : s # n => pcb'[s] = pcb[s]
    BY <2>1, Creation DEF States, PlainInv
  <2>3. cpu.who = "shell"
    BY <1>4 DEF RunProgram
  <2>4. \A s \in Slots : ~Live(s)
    BY <2>3 DEF PlainInv, ProcInv, Owner, CanExecute
  <2>5. \A s \in Slots : Live(s)' <=> s = n
    BY <2>2, <2>4 DEF Live, LiveStates
  <2>6. spaces = {}
    BY <2>4 DEF PlainInv, SpacesAccounted
  <2>7. SpacesAccounted'
    BY <2>2, <2>5, <2>6 DEF SpacesAccounted
  <2> QED BY <1>1, <1>4, <2>7 DEF PlainInv
<1>5. CASE SysExit
  <2>1. IsRunning => \A s \in Slots :
           pcb'[s].state = IF s = process_current_pcb THEN "DEAD" ELSE pcb[s].state
    BY <1>2, <1>3, <1>5 DEF SysExit, PCB
  <2>2. SpacesAccounted'
    BY <1>5, <2>1, PlainEnds DEF SysExit
  <2>3. cpu'.who = "shell"
    BY <1>2, <1>5 DEF SysExit, Cpu
  <2> QED BY <1>1, <2>2, <2>3 DEF PlainInv
<1>6. CASE SysExitGroup
  <2>1. IsRunning => \A s \in Slots :
           pcb'[s].state = IF s = process_current_pcb THEN "EMPTY" ELSE pcb[s].state
    BY <1>2, <1>3, <1>6 DEF SysExitGroup, PCB
  <2>2. SpacesAccounted'
    BY <1>6, <2>1, PlainEnds DEF SysExitGroup
  <2>3. cpu'.who = "hung"
    BY <1>2, <1>6 DEF SysExitGroup, Cpu
  <2> QED BY <1>1, <2>2, <2>3 DEF PlainInv
<1>7. CASE FutexWait
  <2> DEFINE r == process_current_pcb
  <2>1. r \in Slots /\ Live(r) /\ pcb' = [pcb EXCEPT ![r].state = "BLOCKED"]
    BY <1>3, <1>7 DEF FutexWait
  <2> HIDE DEF r
  <2>2. \A s \in Slots : pcb'[s].cr3 = pcb[s].cr3 /\ (Live(s)' <=> Live(s))
    BY <1>2, <2>1 DEF Live, LiveStates, PCB
  <2>3. spaces' = spaces /\ loaded' = loaded /\ cpu'.cr3 = cpu.cr3 /\ cpu.who = "user"
    BY <1>2, <1>7 DEF FutexWait, Executing, Cpu
  <2> QED BY <1>1, <2>2, <2>3, PlainGoesOn DEF PlainInv
<1>8. CASE FutexTimeout
  <2>1. cpu.slot \in Slots /\ Live(cpu.slot) /\ pcb' = [pcb EXCEPT ![cpu.slot].state = "RUNNING"]
    BY <1>2, <1>8 DEF FutexTimeout, Cpu, Live, LiveStates
  <2>2. \A s \in Slots : pcb'[s].cr3 = pcb[s].cr3 /\ (Live(s)' <=> Live(s))
    BY <1>2, <2>1 DEF Live, LiveStates, PCB
  <2>3. spaces' = spaces /\ loaded' = loaded /\ cpu'.cr3 = cpu.cr3 /\ cpu.who = "sleep"
    BY <1>2, <1>8 DEF FutexTimeout, Cpu
  <2> QED BY <1>1, <2>2, <2>3, PlainGoesOn DEF PlainInv
<1>9. CASE ShellOutOfMemory \/ UnhandledFault
  <2>1. cpu'.who = "halted" /\ UNCHANGED <<pcb, spaces>>
    BY <1>2, <1>9 DEF ShellOutOfMemory, UnhandledFault, Cpu
  <2> QED BY <1>1, <2>1, PlainGoesOn DEF PlainInv, Live
<1>10. CASE TimerTick
  <2>1. CASE UNCHANGED procVars
    BY <1>1, <2>1, PlainGoesOn DEF procVars, PlainInv, Live
  <2>2. CASE /\ IsRunning
             /\ pcb' = [pcb EXCEPT ![process_current_pcb] =
                          [@ EXCEPT !.cr3 = cpu.cr3, !.saved = cpu.slot]]
             /\ cpu' = [cpu EXCEPT !.who = "user"]
             /\ UNCHANGED <<spaces, loaded, stacks, vmas>>
    <3> DEFINE r == process_current_pcb
    <3>1. r \in Slots /\ Live(r) /\ pcb[r].state = "RUNNING"
      BY <1>3, <2>2, Scans
    <3>2. CanExecute
      BY <1>10, PlainExecutes DEF TimerTick
    <3>3. Owner(r)
      BY <3>1, <3>2 DEF PlainInv, ProcInv
    <3>4. cpu.who = "user" /\ cpu.cr3 = pcb[r].cr3
      BY <1>10, <3>1, <3>3 DEF TimerTick, Owner
    <3> HIDE DEF r
    <3>5. pcb' = [pcb EXCEPT ![r] = [@ EXCEPT !.cr3 = cpu.cr3, !.saved = cpu.slot]]
      BY <2>2 DEF r
    <3>6. \A s \in Slots : pcb'[s].cr3 = pcb[s].cr3 /\ pcb'[s].state = pcb[s].state
      BY <1>2, <3>1, <3>4, <3>5 DEF PCB
    <3>7. cpu'.cr3 = cpu.cr3
      BY <1>2, <2>2 DEF Cpu
    <3> QED BY <1>1, <2>2, <3>4, <3>6, <3>7, PlainGoesOn DEF PlainInv, Live
  <2> QED BY <1>10, <2>1, <2>2, TimerKeeps DEF PlainInv
<1> QED BY <1>4, <1>5, <1>6, <1>7, <1>8, <1>9, <1>10 DEF PlainStep

(* Programs that end by sys_exit or sys_exit_group lose no memory: the     *)
(* address spaces allocated are those of live processes, for every size of *)
(* the table and the pools, whatever other programs in the run may call.   *)
THEOREM NoSpaceIsLost ==
    ASSUME PlainCalls \subseteq Calls PROVE ProgramsSpec => []PlainSpaces
<1> DEFINE I == part = "plain" => PlainInv
<1>1. ProgramsInit => I
  BY PlainInvInit DEF ProgramsInit
<1>2. I /\ [ProgramsNext]_<<part, procVars>> => I'
  <2> SUFFICES ASSUME I, [ProgramsNext]_<<part, procVars>>, part' = "plain" PROVE PlainInv'
    OBVIOUS
  <2>1. part = "plain" /\ PlainInv
    BY DEF ProgramsNext
  <2>2. CASE ProgramsNext
    BY <2>1, <2>2, PlainSteps, PlainInvStep DEF ProgramsNext
  <2>3. CASE UNCHANGED <<part, procVars>>
    <3>1. ProcInv'
      BY <2>1, <2>3, InvNext DEF PlainInv
    <3> QED BY <2>1, <2>3, <3>1 DEF PlainInv, procVars, SpacesAccounted, Live
  <2> QED BY <2>2, <2>3
<1>3. I => PlainSpaces
  BY DEF PlainInv, PlainSpaces
<1> QED BY <1>1, <1>2, <1>3, PTL DEF ProgramsSpec
=============================================================================
