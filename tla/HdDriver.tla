------------------------------ MODULE HdDriver ------------------------------
(***************************************************************************)
(* The disk driver and its one client over the message kernel: task_hd     *)
(* with hd_identify, hd_cmd_out, waitfor, interrupt_wait and hd_read_bytes *)
(* (src/kernel/hd.c), the interrupt handler hd_handler, and task_fs        *)
(* (src/kernel/main.c), which opens the disk once and then serves read().  *)
(*                                                                         *)
(* Data is counted in sectors.  DEV_OPEN identifies the disk and reads the *)
(* file system (read_vbr_16): a few requests of one or more sectors; which *)
(* ones is module Fat.  The disk is the ATA device as the driver uses it:  *)
(* after a command it raises one interrupt for every sector it has ready,  *)
(* and goes on to the next when the sector has been read out.              *)
(***************************************************************************)
EXTENDS Ipc

CONSTANTS
  TASK_HD, TASK_FS,
  COUNT_MOD,      \* the sector count is a byte: 256
  MaxSectors,     \* bound: sectors of one request
  MaxRequests     \* bound: requests that read_vbr_16 makes

ASSUME HdAssumption ==
  /\ {TASK_HD, TASK_FS} \subseteq Proc /\ TASK_HD # TASK_FS
  /\ COUNT_MOD \in Nat \ {0} /\ MaxSectors \in 1 .. COUNT_MOD
  /\ MaxRequests \in Nat \ {0}

VARIABLES
  disk,     \* idle, busy, or with a sector to read; the sectors left of the command
  irq,      \* the interrupt line
  hd,       \* task_hd: where it is, src, the sectors to read, the requests made
  fs,       \* task_fs: where it is and src
  misuse    \* history: a command or a read that the disk was not ready for

hdVars == <<ipcVars, disk, irq, hd, fs, misuse>>

HdInit ==
  /\ disk = [st |-> "idle", left |-> 0]
  /\ irq = FALSE
  /\ hd = [at |-> "receive", src |-> NO_TASK, need |-> 0, count |-> 0, made |-> 0]
  /\ fs = [at |-> "start", src |-> NO_TASK]
  /\ misuse = FALSE

\* A message: its type, and RETVAL or PID, whichever the type uses.
Body(t, v) == [type |-> t, val |-> v]

runs(p) == fault = "none" /\ p_flags[p] = {}

----------------------------------------------------------------------------
(* The disk *)

\* The next sector of the command is in the buffer.
fetch ==
  /\ fault = "none" /\ disk.st = "busy" /\ disk.left > 0
  /\ disk' = [disk EXCEPT !.st = "drq"]
  /\ irq' = TRUE
  /\ UNCHANGED <<ipcVars, hd, fs, misuse>>

\* The command is done.
settle ==
  /\ fault = "none" /\ disk.st = "busy" /\ disk.left = 0
  /\ disk' = [disk EXCEPT !.st = "idle"]
  /\ UNCHANGED <<ipcVars, irq, hd, fs, misuse>>

hd_handler_silent ==
  /\ fault = "none" /\ irq
  /\ irq' = FALSE
  /\ UNCHANGED <<ipcVars, disk, hd, fs, misuse>>

\* The handler reads REG_STATUS, which takes the line back.
hd_handler ==
  /\ fault = "none" /\ irq
  /\ irq' = FALSE
  /\ inform_int(TASK_HD)
  /\ UNCHANGED <<disk, hd, fs, misuse>>

----------------------------------------------------------------------------
(* task_hd *)

hdAt(a) == runs(TASK_HD) /\ hd.at = a

hd_receive ==
  /\ hdAt("receive")
  /\ msg_recevie(TASK_HD, ANY)
  /\ hd' = [hd EXCEPT !.at = "got"]
  /\ UNCHANGED <<disk, irq, fs, misuse>>

\* DEV_OPEN begins with hd_identify, one sector; anything else is a panic.
hd_dispatch ==
  /\ hdAt("got")
  /\ fault' = IF msg[TASK_HD].type.type = "DEV_OPEN" THEN fault ELSE "panic"
  /\ hd' = [at |-> "waitfor", src |-> msg[TASK_HD].source, need |-> 1, count |-> 1,
            made |-> 0]
  /\ UNCHANGED <<p_flags, p_msg, p_recvfrom, p_sendto, has_int_msg, q_sending, msg,
                 disk, irq, fs, misuse>>

\* waitfor(STATUS_BSY, 0, ..) succeeds and the command goes out.
hd_cmd_out ==
  /\ hdAt("waitfor") /\ disk.st # "busy"
  /\ disk' = [st |-> "busy", left |-> hd.count]
  /\ misuse' = (misuse \/ disk.st = "drq")
  /\ hd' = [hd EXCEPT !.at = "wait"]
  /\ UNCHANGED <<ipcVars, irq, fs>>

\* The clock is tested before the status, so a task_hd that has not run for
\* HD_TIMEOUT gives up whatever the disk says: panic("hd error").
hd_timeout ==
  /\ hdAt("waitfor")
  /\ fault' = "panic"
  /\ hd' = [hd EXCEPT !.at = "timeout"]
  /\ UNCHANGED <<p_flags, p_msg, p_recvfrom, p_sendto, has_int_msg, q_sending, msg,
                 disk, irq, fs, misuse>>

interrupt_skipped ==
  /\ hdAt("wait")
  /\ hd' = [hd EXCEPT !.at = "read"]
  /\ UNCHANGED <<ipcVars, disk, irq, fs, misuse>>

interrupt_wait ==
  /\ hdAt("wait")
  /\ msg_recevie(TASK_HD, INTERRUPT)
  /\ hd' = [hd EXCEPT !.at = "read"]
  /\ UNCHANGED <<disk, irq, fs, misuse>>

more_but_last(need) == need > 2

\* while (byte_to_read), after this sector.
more(need) == need > 1

\* port_read of one sector into hdbuf, and the copy to the caller's buffer.
port_read ==
  /\ hdAt("read")
  /\ misuse' = (misuse \/ disk.st # "drq")
  /\ disk' = IF disk.st = "drq" THEN [st |-> "busy", left |-> disk.left - 1] ELSE disk
  /\ hd' = [hd EXCEPT !.at = IF more(hd.need) THEN "wait" ELSE "done", !.need = @ - 1]
  /\ UNCHANGED <<ipcVars, irq, fs>>

rounded_down(n) == IF n = 1 THEN 1 ELSE n - 1

\* What the disk makes of the byte cmd.count: 0 stands for COUNT_MOD sectors.
sectors(n) == IF n % COUNT_MOD = 0 THEN COUNT_MOD ELSE n % COUNT_MOD

\* read_vbr_16 makes one more request: hd_read_bytes for n sectors.
hd_read_bytes(n) ==
  /\ hdAt("done") /\ hd.made < MaxRequests
  /\ hd' = [hd EXCEPT !.at = "waitfor", !.need = n, !.count = sectors(n), !.made = @ + 1]
  /\ UNCHANGED <<ipcVars, disk, irq, fs, misuse>>

\* The message goes back to where it came from.
hd_reply ==
  /\ hdAt("done") /\ hd.made > 0
  /\ msg_send(TASK_HD, hd.src, Body("DEV_OPEN", 0))
  /\ hd' = [hd EXCEPT !.at = "receive", !.src = NO_TASK, !.count = 0, !.made = 0]
  /\ UNCHANGED <<disk, irq, fs, misuse>>

----------------------------------------------------------------------------
(* task_fs: send_rec(BOTH, TASK_HD), then the loop *)

fsAt(a) == runs(TASK_FS) /\ fs.at = a

fs_open ==
  /\ fsAt("start")
  /\ msg_send(TASK_FS, TASK_HD, Body("DEV_OPEN", 0))
  /\ fs' = [fs EXCEPT !.at = "opening"]
  /\ UNCHANGED <<disk, irq, hd, misuse>>

fs_await ==
  /\ fsAt("opening")
  /\ msg_recevie(TASK_FS, TASK_HD)
  /\ fs' = [fs EXCEPT !.at = "receive"]
  /\ UNCHANGED <<disk, irq, hd, misuse>>

fs_receive ==
  /\ fsAt("receive")
  /\ msg_recevie(TASK_FS, ANY)
  /\ fs' = [fs EXCEPT !.at = "got"]
  /\ UNCHANGED <<disk, irq, hd, misuse>>

\* READ: do_read, which is done when the line has been typed (TtyInput).
fs_dispatch ==
  /\ fsAt("got")
  /\ fault' = IF msg[TASK_FS].type.type = "READ" THEN fault ELSE "panic"
  /\ fs' = [at |-> "reply", src |-> msg[TASK_FS].source]
  /\ UNCHANGED <<p_flags, p_msg, p_recvfrom, p_sendto, has_int_msg, q_sending, msg,
                 disk, irq, hd, misuse>>

fs_reply ==
  /\ fsAt("reply")
  /\ msg_send(TASK_FS, fs.src, Body("SYSCALL_RET", 0))
  /\ fs' = [at |-> "receive", src |-> NO_TASK]
  /\ UNCHANGED <<disk, irq, hd, misuse>>

----------------------------------------------------------------------------

HdStep ==
  \/ hd_receive \/ hd_dispatch \/ hd_cmd_out \/ interrupt_wait \/ port_read
  \/ (\E n \in 1 .. MaxSectors : hd_read_bytes(n)) \/ hd_reply
FsStep == fs_open \/ fs_await \/ fs_receive \/ fs_dispatch \/ fs_reply

\* The disk answers and its interrupt comes through; the scheduler runs both
\* tasks whenever they are READY, and the lines that are read get typed.
HdFairness ==
  /\ WF_hdVars(fetch) /\ WF_hdVars(settle) /\ WF_hdVars(hd_handler)
  /\ WF_hdVars(HdStep) /\ WF_hdVars(FsStep)

----------------------------------------------------------------------------

\* hd_read_bytes never reads a sector the disk has not got yet, and no command
\* goes out before the last one's sectors have all been read, though one
\* has_int_msg stands for all the interrupts and its messages carry no number.
InStep == ~misuse

\* task_hd never sleeps for an interrupt that will not come: interrupt_wait has
\* no timeout, so then the disk is at work or its interrupt is on the way.
WakeupComing ==
  fault = "none" /\ hd.at = "read" /\ "RECEIVING" \in p_flags[TASK_HD] =>
    irq \/ (disk.st = "busy" /\ disk.left > 0)

\* Nothing but the timeout stops the machine: no interrupt is left over to
\* arrive in the main loop as an unknown message, the asserts of the kernel
\* hold, and nobody waits in a circle.
OnlyTimeoutPanics == fault # "none" => hd.at = "timeout"
=============================================================================
