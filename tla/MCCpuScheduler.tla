--------------------------- MODULE MCCpuScheduler ---------------------------
(* Instances of CpuScheduler for TLC. *)
EXTENDS CpuScheduler

AllCalls == {"fork", "exit", "stop", "waitpid", "usleep", "uart_read",
             "uart_write", "other", "fault"}
LiveCalls == {"fork", "stop", "usleep", "exec"}
ExecCalls == {"exec", "exit"}
MCTargets == 2..MaxPid
=============================================================================
