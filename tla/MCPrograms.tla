----------------------------- MODULE MCPrograms -----------------------------
(* Proc for TLC in two settings: programs that exit, sleep and fault, and  *)
(* programs that make every call.                                          *)
EXTENDS Proc

VARIABLE part

EveryCall == AllCalls
PlainCalls == {"exit", "exit_group", "futex", "fault"}

Plain == INSTANCE Proc WITH Calls <- PlainCalls

ProgramsInit == ProcInit /\ part \in {"plain", "every"}

ProgramsNext ==
    /\ UNCHANGED part
    /\ \/ part = "plain" /\ Plain!ProcNext
       \/ part = "every" /\ ProcNext

(* The fairness of Proc, in both settings.                                 *)
ProgramsSpec ==
    /\ ProgramsInit
    /\ [][ProgramsNext]_<<part, procVars>>
    /\ WF_procVars(FutexTimeout)
    /\ WF_procVars(TimerTick)

-----------------------------------------------------------------------------
(* Programs that end by sys_exit lose no memory (sys_exit_handler).        *)
PlainSpaces == part = "plain" => SpacesAccounted

(* A program that keeps the processor is known by its own pid after a      *)
(* while (process_run, timer_isr).                                         *)
PlainPids == part = "plain" => PidCatchesUp

(* A FUTEX_WAIT with a timeout returns (sys_futex).                        *)
PlainSleeps == part = "plain" => TimedSleepEnds
=============================================================================
