-------------------------------- MODULE Proc --------------------------------
(***************************************************************************)
(* Processes of SystrixOS: the process table and its life cycle            *)
(* (process.c, elf.c, fork_exec.c, sys_exit_handler in syscall.c), the     *)
(* timer interrupt that schedules (timer_isr and scheduler_exit in isr.S), *)
(* the futex sleep (futex.c) and the two ways the kernel kills a process   *)
(* that runs out of memory (oom_kill and kernel_panic in resilience.c).    *)
(*                                                                         *)
(* One processor.  The kernel shell starts a program by process_create and *)
(* process_run and gets the processor back when the program calls          *)
(* sys_exit.  A system call runs with interrupts masked (SFMASK clears     *)
(* IF), so it is one step; the timer interrupts the shell, user code and   *)
(* the loop of FUTEX_WAIT.  Memory is abstracted to the three resources a  *)
(* PCB owns: an address space (the page-table root in cr3), a kernel stack *)
(* (kbase) and a VMA table; each has an identity taken from a bounded pool *)
(* and may be handed out again once freed.                                 *)
(***************************************************************************)
EXTENDS Naturals, FiniteSetsExt

CONSTANTS
    PROC_MAX,    \* slots of the process table (64 in kernel.h)
    MaxSpaces,   \* address spaces the physical memory has room for
    MaxStacks,   \* kernel stacks the kernel heap has room for
    MaxVmas,     \* VMA tables the slab tier has room for
    Calls        \* what programs do: a subset of AllCalls

AllCalls == {"exit", "exit_group", "execve", "fork", "futex", "oom", "fault",
             "flat"}

ASSUME ProcAssumption ==
    /\ PROC_MAX \in Nat \ {0}
    /\ MaxSpaces \in Nat
    /\ MaxStacks \in Nat
    /\ MaxVmas \in Nat
    /\ Calls \subseteq AllCalls

VARIABLES
    pcb,          \* PROC_TABLE: slot -> process control block
    current_pid,  \* the global current_pid, written by timer_isr only
    cpu,          \* what the processor executes, and the address space in CR3
    spaces,       \* allocated address spaces
    loaded,       \* those whose user half holds a program
    stacks,       \* allocated kernel stacks
    vmas          \* allocated VMA tables

procVars == <<pcb, current_pid, cpu, spaces, loaded, stacks, vmas>>

-----------------------------------------------------------------------------
Slots == 0 .. PROC_MAX - 1
States == {"EMPTY", "READY", "RUNNING", "DEAD", "BLOCKED"}
Nil == 0                       \* the null pointer; resources start at 1
KernelSpace == 0               \* kernel_cr3, as a value of cpu.cr3
LiveStates == {"READY", "RUNNING", "BLOCKED"}

(* PCB.  saved is the slot of the program whose registers lie where        *)
(* PCB_KSTACK points; the name, brk, ursp and entry are left out.          *)
PCB == [state: States, pid: 0 .. PROC_MAX, cr3: 0 .. MaxSpaces,
        kbase: 0 .. MaxStacks, vma_table: 0 .. MaxVmas, saved: Slots]

(* who: "shell" the kernel's shell loop; "user" a program; "sleep" the     *)
(* loop of FUTEX_WAIT, with interrupts on; "spin" a loop of the kernel and *)
(* "hung" a hlt, both with interrupts masked; "halted" the fault screen.   *)
(* slot is the program that was started there; deadline tells a sleep that *)
(* has a timeout.                                                          *)
Cpu == [who: {"shell", "user", "sleep", "spin", "hung", "halted"},
        slot: Slots, cr3: 0 .. MaxSpaces, deadline: BOOLEAN]

TypeOK ==
    /\ pcb \in [Slots -> PCB]
    /\ current_pid \in 0 .. PROC_MAX
    /\ cpu \in Cpu
    /\ spaces \subseteq 1 .. MaxSpaces
    /\ loaded \subseteq 1 .. MaxSpaces
    /\ stacks \subseteq 1 .. MaxStacks
    /\ vmas \subseteq 1 .. MaxVmas

EmptyPcb == [state |-> "EMPTY", pid |-> 0, cr3 |-> Nil, kbase |-> Nil,
             vma_table |-> Nil, saved |-> 0]

ProcInit ==
    /\ pcb = [s \in Slots |-> EmptyPcb]
    /\ current_pid = 0
    /\ cpu = [who |-> "shell", slot |-> 0, cr3 |-> KernelSpace,
              deadline |-> FALSE]
    /\ spaces = {}
    /\ loaded = {}
    /\ stacks = {}
    /\ vmas = {}

-----------------------------------------------------------------------------
(* Scans of the process table: the first slot in a state, from slot 0.     *)
InState(table, st) == {s \in Slots : table[s].state = st}
IsRunning == InState(pcb, "RUNNING") # {}
process_current_pcb == Min(InState(pcb, "RUNNING"))
(* Mutant: a DEAD slot counts as free.                                     *)
FirstEmpty_TakesDead ==
    Min(InState(pcb, "EMPTY") \cup InState(pcb, "DEAD"))
HasEmpty == InState(pcb, "EMPTY") # {}
FirstEmpty == Min(InState(pcb, "EMPTY"))

(* heap_malloc, first fit for a kernel stack: the lowest free one.         *)
KernelStack == Min((1 .. MaxStacks) \ stacks)

(* heap_malloc of a VMA table: NULL when the heap has none left.           *)
VmaTable == IF vmas = 1 .. MaxVmas THEN Nil ELSE Min((1 .. MaxVmas) \ vmas)

(* Mutant: the pid counts from 1 twice, as get_pcb in fork_exec.c would.   *)
process_create_PidOffByOne(st, c) ==
    /\ HasEmpty
    /\ c \in (1 .. MaxSpaces) \ spaces
    /\ stacks # 1 .. MaxStacks
    /\ pcb' = [pcb EXCEPT ![FirstEmpty] =
                 [state |-> st, pid |-> FirstEmpty + 2, cr3 |-> c,
                  kbase |-> KernelStack, vma_table |-> VmaTable,
                  saved |-> FirstEmpty]]
    /\ spaces' = spaces \cup {c}
    /\ stacks' = stacks \cup {KernelStack}
    /\ vmas' = vmas \cup ({VmaTable} \ {Nil})

(* Mutant: pids count the processes that are alive, so they come back.     *)
process_create_PidReused(st, c) ==
    /\ HasEmpty
    /\ c \in (1 .. MaxSpaces) \ spaces
    /\ stacks # 1 .. MaxStacks
    /\ pcb' = [pcb EXCEPT ![FirstEmpty] =
                 [state |-> st, cr3 |-> c, kbase |-> KernelStack,
                  pid |-> IF IsRunning THEN 2 ELSE 1,
                  vma_table |-> VmaTable, saved |-> FirstEmpty]]
    /\ spaces' = spaces \cup {c}
    /\ stacks' = stacks \cup {KernelStack}
    /\ vmas' = vmas \cup ({VmaTable} \ {Nil})

(* process_create fills the first EMPTY slot, whatever it still points to, *)
(* and leaves it EMPTY.  Without a free slot or a kernel stack it returns  *)
(* -1 and changes nothing; without a page the kernel panics (below).       *)
process_create(st, c) ==
    /\ HasEmpty
    /\ c \in (1 .. MaxSpaces) \ spaces
    /\ stacks # 1 .. MaxStacks
    /\ pcb' = [pcb EXCEPT ![FirstEmpty] =
                 [state |-> st, pid |-> FirstEmpty + 1, cr3 |-> c,
                  kbase |-> KernelStack, vma_table |-> VmaTable,
                  saved |-> FirstEmpty]]
    /\ spaces' = spaces \cup {c}
    /\ stacks' = stacks \cup {KernelStack}
    /\ vmas' = vmas \cup ({VmaTable} \ {Nil})

EnterUser(s, c) ==
    cpu' = [who |-> "user", slot |-> s, cr3 |-> c, deadline |-> FALSE]

(* The shell starts a program: elf_load maps its image, the `run` command  *)
(* maps a stack only; then process_run.  current_pid keeps its old value.  *)
RunProgram ==
    /\ cpu.who = "shell"
    /\ \E c \in 1 .. MaxSpaces :
         /\ process_create("RUNNING", c)
         /\ EnterUser(FirstEmpty, c)
         /\ \/ loaded' = loaded \cup {c}
            \/ "flat" \in Calls /\ loaded' = loaded \ {c}
    /\ UNCHANGED current_pid

(* pmm_alloc finds no page while the shell runs: oom_kill has no victim    *)
(* and kernel_panic finds no RUNNING process, so the machine stops.        *)
ShellOutOfMemory ==
    /\ cpu.who = "shell"
    /\ spaces = 1 .. MaxSpaces
    /\ HasEmpty
    /\ cpu' = [cpu EXCEPT !.who = "halted"]
    /\ UNCHANGED <<pcb, current_pid, spaces, loaded, stacks, vmas>>

-----------------------------------------------------------------------------
(* A program can execute an instruction: its image is mapped, or CR3 holds *)
(* freed page tables that nobody has been given yet.                       *)
Executing == /\ cpu.who = "user"
             /\ cpu.cr3 \in loaded \/ cpu.cr3 \notin spaces

(* Mutant: scheduler_exit forgets to mark the slot DEAD.                   *)
SysExit_StaysRunning ==
    /\ Executing
    /\ "exit" \in Calls
    /\ IF IsRunning
       THEN LET r == process_current_pcb IN
            /\ spaces' = spaces \ {pcb[r].cr3}
            /\ loaded' = loaded \ {pcb[r].cr3}
            /\ stacks' = stacks \ {pcb[r].kbase}
       ELSE UNCHANGED <<spaces, loaded, stacks>>
    /\ cpu' = [cpu EXCEPT !.who = "shell", !.cr3 = KernelSpace]
    /\ UNCHANGED <<pcb, current_pid, vmas>>

(* Mutant: scheduler_exit does not call vmm_destroy.                       *)
SysExit_LeaksSpace ==
    /\ Executing
    /\ "exit" \in Calls
    /\ IF IsRunning
       THEN LET r == process_current_pcb IN
            /\ pcb' = [pcb EXCEPT ![r].state = "DEAD"]
            /\ stacks' = stacks \ {pcb[r].kbase}
       ELSE UNCHANGED <<pcb, stacks>>
    /\ cpu' = [cpu EXCEPT !.who = "shell", !.cr3 = KernelSpace]
    /\ UNCHANGED <<current_pid, spaces, loaded, vmas>>

(* sys_exit_handler: scheduler_exit marks the first RUNNING slot DEAD and  *)
(* frees its address space and kernel stack, and only those; the slot      *)
(* keeps the pointers.  Then the shell loop resumes on kernel_cr3.         *)
SysExit ==
    /\ Executing
    /\ "exit" \in Calls
    /\ IF IsRunning
       THEN LET r == process_current_pcb IN
            /\ pcb' = [pcb EXCEPT ![r].state = "DEAD"]
            /\ spaces' = spaces \ {pcb[r].cr3}
            /\ loaded' = loaded \ {pcb[r].cr3}
            /\ stacks' = stacks \ {pcb[r].kbase}
       ELSE UNCHANGED <<pcb, spaces, loaded, stacks>>
    /\ cpu' = [cpu EXCEPT !.who = "shell", !.cr3 = KernelSpace]
    /\ UNCHANGED <<current_pid, vmas>>

(* sys_exit_group: process_destroy, then hlt with interrupts masked.       *)
SysExitGroup ==
    /\ Executing
    /\ "exit_group" \in Calls
    /\ IF IsRunning
       THEN LET r == process_current_pcb IN
            /\ pcb' = [pcb EXCEPT ![r].state = "EMPTY", ![r].cr3 = Nil,
                                  ![r].kbase = Nil, ![r].vma_table = Nil]
            /\ spaces' = spaces \ {pcb[r].cr3}
            /\ loaded' = loaded \ {pcb[r].cr3}
            /\ stacks' = stacks \ {pcb[r].kbase}
            /\ vmas' = vmas \ {pcb[r].vma_table}
       ELSE UNCHANGED <<pcb, spaces, loaded, stacks, vmas>>
    /\ cpu' = [cpu EXCEPT !.who = "hung"]
    /\ UNCHANGED current_pid

(* sys_execve loads the file into a new process and returns 0 to the       *)
(* caller: the new process is never run and its slot stays EMPTY.          *)
SysExecve ==
    /\ Executing
    /\ "execve" \in Calls
    /\ \E c \in 1 .. MaxSpaces :
         /\ process_create("EMPTY", c)
         /\ loaded' = loaded \cup {c}
    /\ UNCHANGED <<current_pid, cpu>>

(* sys_fork creates the child in slot e and runs it, but get_pcb(pid) is   *)
(* slot e + 1: that is whose address space receives the copy of the        *)
(* parent's pages (physical page 0 when it has none).                      *)
SysFork ==
    /\ Executing
    /\ "fork" \in Calls
    /\ IsRunning
    /\ \E c \in 1 .. MaxSpaces :
         /\ process_create("RUNNING", c)
         /\ EnterUser(FirstEmpty, c)
         /\ LET copied == IF FirstEmpty + 1 \in Slots
                          THEN {pcb[FirstEmpty + 1].cr3} ELSE {}
            IN  loaded' = loaded \cup (copied \cap spaces)
    /\ UNCHANGED current_pid

(* Mutant: the sleeper gives the processor back to the shell.              *)
FutexWait_BackToShell ==
    /\ Executing
    /\ "futex" \in Calls
    /\ IsRunning
    /\ pcb' = [pcb EXCEPT ![process_current_pcb].state = "BLOCKED"]
    /\ \E timed \in BOOLEAN :
         cpu' = [cpu EXCEPT !.who = "shell", !.deadline = timed]
    /\ UNCHANGED <<current_pid, spaces, loaded, stacks, vmas>>

(* FUTEX_WAIT: the process becomes BLOCKED and loops with interrupts on.   *)
FutexWait ==
    /\ Executing
    /\ "futex" \in Calls
    /\ IsRunning
    /\ pcb' = [pcb EXCEPT ![process_current_pcb].state = "BLOCKED"]
    /\ \E timed \in BOOLEAN :
         cpu' = [cpu EXCEPT !.who = "sleep", !.deadline = timed]
    /\ UNCHANGED <<current_pid, spaces, loaded, stacks, vmas>>

(* Mutant: a deadline of 0, "wait for ever", is the one that expires.      *)
FutexTimeout_Inverted ==
    /\ cpu.who = "sleep"
    /\ ~cpu.deadline
    /\ pcb[cpu.slot].state = "BLOCKED"
    /\ pcb' = [pcb EXCEPT ![cpu.slot].state = "RUNNING"]
    /\ cpu' = [cpu EXCEPT !.who = "user", !.deadline = FALSE]
    /\ UNCHANGED <<current_pid, spaces, loaded, stacks, vmas>>

(* The loop sees pit_ticks past its deadline: -ETIMEDOUT.                  *)
FutexTimeout ==
    /\ cpu.who = "sleep"
    /\ cpu.deadline
    /\ pcb[cpu.slot].state = "BLOCKED"
    /\ pcb' = [pcb EXCEPT ![cpu.slot].state = "RUNNING"]
    /\ cpu' = [cpu EXCEPT !.who = "user", !.deadline = FALSE]
    /\ UNCHANGED <<current_pid, spaces, loaded, stacks, vmas>>

(* A program faults where no VMA helps (or has no image at all): the fault *)
(* screen, for good.                                                       *)
UnhandledFault ==
    /\ cpu.who = "user"
    /\ "fault" \in Calls \/ ~Executing
    /\ cpu' = [cpu EXCEPT !.who = "halted"]
    /\ UNCHANGED <<pcb, current_pid, spaces, loaded, stacks, vmas>>

(* pmm_alloc finds no page for a running program (page fault, sys_malloc,  *)
(* sys_execve): oom_kill counts pages from PML4 entry 1 on and sees none,  *)
(* so kernel_panic kills the first RUNNING process, frees its page tables  *)
(* and returns to its caller.  Without a RUNNING process it stops.         *)
OutOfMemory ==
    /\ Executing
    /\ "oom" \in Calls
    /\ IF IsRunning
       THEN LET r == process_current_pcb IN
            /\ pcb' = [pcb EXCEPT ![r].state = "DEAD"]
            /\ spaces' = spaces \ {pcb[r].cr3}
            /\ loaded' = loaded \ {pcb[r].cr3}
            /\ UNCHANGED cpu
       ELSE /\ cpu' = [cpu EXCEPT !.who = "halted"]
            /\ UNCHANGED <<pcb, spaces, loaded>>
    /\ UNCHANGED <<current_pid, stacks, vmas>>

-----------------------------------------------------------------------------
(* timer_isr.  The slot after cur and on, around the table, cur last.      *)
Distance(cur, s) == IF s > cur THEN s - cur ELSE s + PROC_MAX - cur
NextReady(table, cur) ==
    CHOOSE n \in InState(table, "READY") :
        \A s \in InState(table, "READY") : Distance(cur, n) <= Distance(cur, s)

(* Mutant: current_pid is written only when another slot is picked.        *)
TimerTick_PidOnSwitchOnly ==
    /\ cpu.who \in {"shell", "user", "sleep"}
    /\ LET cur == IF IsRunning THEN process_current_pcb ELSE PROC_MAX - 1
           table == IF IsRunning
                    THEN [pcb EXCEPT ![cur].state = "READY",
                                     ![cur].cr3 = cpu.cr3,
                                     ![cur].saved = cpu.slot]
                    ELSE pcb
           next == NextReady(table, cur)
       IN  IF InState(table, "READY") = {}
           THEN UNCHANGED procVars
           ELSE /\ pcb' = [table EXCEPT ![next].state = "RUNNING"]
                /\ cpu' = [cpu EXCEPT !.who = "user",
                                      !.slot = table[next].saved]
                /\ current_pid' = IF next = cur THEN current_pid
                                  ELSE table[next].pid
                /\ UNCHANGED <<spaces, loaded, stacks, vmas>>

(* The first RUNNING slot is taken for the interrupted process: it gets    *)
(* the interrupted registers and CR3 and becomes READY.  The next READY    *)
(* slot runs; current_pid changes here.  Without a READY slot the          *)
(* interrupted code goes on.                                               *)
TimerTick ==
    /\ cpu.who \in {"shell", "user", "sleep"}
    /\ LET cur == IF IsRunning THEN process_current_pcb ELSE PROC_MAX - 1
           table == IF IsRunning
                    THEN [pcb EXCEPT ![cur].state = "READY",
                                     ![cur].cr3 = cpu.cr3,
                                     ![cur].saved = cpu.slot]
                    ELSE pcb
           next == NextReady(table, cur)
       IN  IF InState(table, "READY") = {}
           THEN UNCHANGED procVars
           ELSE /\ pcb' = [table EXCEPT ![next].state = "RUNNING"]
                /\ cpu' = [cpu EXCEPT
                     !.who = "user",
                     !.slot = table[next].saved,
                     !.cr3 = IF table[next].cr3 # Nil THEN table[next].cr3
                             ELSE @]
                /\ current_pid' = table[next].pid
                /\ UNCHANGED <<spaces, loaded, stacks, vmas>>

-----------------------------------------------------------------------------
ProcNext ==
    \/ RunProgram
    \/ ShellOutOfMemory
    \/ SysExit
    \/ SysExitGroup
    \/ SysExecve
    \/ SysFork
    \/ FutexWait
    \/ FutexTimeout
    \/ UnhandledFault
    \/ OutOfMemory
    \/ TimerTick

(* The only progress assumed is the clock's, because interrupts are on in  *)
(* user code and in the sleeping loop: the timer fires, and pit_ticks      *)
(* passes a deadline sooner or later.                                      *)
ProcSpec ==
    /\ ProcInit
    /\ [][ProcNext]_procVars
    /\ WF_procVars(FutexTimeout)
    /\ WF_procVars(TimerTick)

-----------------------------------------------------------------------------
Live(s) == pcb[s].state \in LiveStates

(* The machine can execute another instruction.  It cannot after a fork:   *)
(* the child has no image, so two live processes never run side by side.   *)
CanExecute == cpu.who # "halted" /\ (cpu.who = "user" => Executing)

(* A process that may run owns its memory: the address space and the       *)
(* kernel stack its PCB points to are allocated, and no other live process *)
(* is about to free or use them.  DEAD slots and slots that execve left    *)
(* EMPTY keep stale pointers, which may have been handed out again.        *)
LiveResources ==
    CanExecute =>
        \A s \in Slots : Live(s) =>
            /\ pcb[s].cr3 \in spaces
            /\ pcb[s].kbase \in stacks
            /\ pcb[s].vma_table \in vmas \cup {Nil}
            /\ \A t \in Slots \ {s} : Live(t) =>
                 /\ pcb[t].cr3 # pcb[s].cr3
                 /\ pcb[t].kbase # pcb[s].kbase

(* At most one process is live, and while a program has the processor it   *)
(* is the one: the assumption of every scan for "the" RUNNING process      *)
(* (syscall_entry, process_current_pcb, timer_isr, scheduler_exit).        *)
OneLiveProcess ==
    CanExecute =>
        /\ \A s, t \in Slots : Live(s) /\ Live(t) => s = t
        /\ \A s \in Slots : Live(s) /\ cpu.who \in {"user", "sleep", "spin"}
                              => cpu.slot = s

(* Every address space is reachable from the one PCB that owns it, so the  *)
(* memory of programs that ended by sys_exit is never lost.                *)
SpacesAccounted ==
    spaces = {pcb[s].cr3 : s \in {t \in Slots : Live(t)}}

(* A program that keeps the processor is known by its own pid after a      *)
(* while: process_run does not set current_pid, the first timer tick does. *)
PidCatchesUp ==
    \A s \in Slots :
        cpu.who = "user" /\ cpu.slot = s /\ Live(s)
            ~> current_pid = s + 1 \/ cpu.who # "user" \/ ~Live(s)

(* A slot that is DEAD stays as it is for ever: sys_exit does not give the *)
(* slot back, process_create only takes EMPTY ones.                        *)
DeadIsFinal ==
    [][\A s \in Slots : pcb[s].state = "DEAD" => pcb'[s] = pcb[s]]_procVars

(* A FUTEX_WAIT with a timeout returns.                                    *)
TimedSleepEnds == (cpu.who = "sleep" /\ cpu.deadline) ~> cpu.who # "sleep"

-----------------------------------------------------------------------------
(* What comments of the code say and the code does not do.                 *)

(* docs/kernel.md:63: fork gives the child a copy of the parent's memory.  *)
RunningHasImage ==
    \A s \in Slots : pcb[s].state = "RUNNING" => pcb[s].cr3 \in loaded
=============================================================================
