---------------------------- MODULE UpgradeLoop ----------------------------
(***************************************************************************)
(* The device side of an upgrade: the boot decision of main(), the UART    *)
(* receive path (one DMA buffer, one flag) and the command loop of         *)
(* user_boot/app/src/user.c, over the flash zone of the application.       *)
(*                                                                         *)
(* Flash is modelled at the granularity of an erase unit ("block"): block  *)
(* 0 holds the head that jlfs_mount looks for.  The content of a block is  *)
(* an uninterpreted value; Erased is what jlfs_erase leaves, Torn is any   *)
(* content nobody asked for (an operation cut half way, a program over     *)
(* cells that were not erased).                                            *)
(*                                                                         *)
(* wire and tx are the two directions of the serial line.  A frame carries *)
(* a ghost flag, live: the session that sent it is still open.             *)
(***************************************************************************)
EXTENDS Integers, Sequences

CONSTANTS
  N,             \* erase units of the application zone
  Content,       \* what an erase unit may hold
  Erased, Torn,
  Heads,         \* the contents of block 0 that jlfs_mount accepts
  CrcValue,
  Crc,           \* chip_crc16 over one erase unit
  SilentFaults   \* BOOLEAN: flash operations may report success and fail

ASSUME SizeAssumption == N \in Nat \ {0}
ASSUME ContentAssumption ==
  /\ Erased \in Content /\ Torn \in Content
  /\ Heads \subseteq Content /\ Erased \notin Heads /\ Torn \notin Heads
ASSUME CrcAssumption == Crc \in [Content -> CrcValue]
ASSUME FaultAssumption == SilentFaults \in BOOLEAN

Block == 0 .. N - 1

Opcode == {"INIT", "CHECK", "CRC", "ERASE", "WRITE", "REBOOT"}

\* JL_SECTOR_COMMAND_ITEM: the fields a command uses of the union it carries
Frame == {f \in [op : Opcode \cup {"NONE"}, blk : Block, cnt : 0 .. N,
                 data : Content, live : BOOLEAN] : f.blk + f.cnt <= N}

NoFrame == [op |-> "NONE", blk |-> 0, cnt |-> 0, data |-> Erased, live |-> FALSE]

CrcList == UNION {[0 .. k - 1 -> CrcValue] : k \in 0 .. N}
NoList  == [i \in {} |-> Crc[Erased]]

\* JL_SECTOR_COMMAND_DEV_ITEM; cmd (ghost) is the command it answers, whose
\* opcode the reply echoes
Reply == [cmd : Frame, status : {"SUSS", "ERROR"}, list : CrcList]

VARIABLES
  flash,      \* the application zone
  mode,       \* "off" | "app" (the application runs) | "loop" (upgrade_loop)
              \* | "stuck" (__boot_failed: neither)
  rx,         \* the frame in ut_up_buf with new_data set
  exec,       \* *g_ops, the command being executed
  clobbered,  \* bytes arrived in ut_up_buf since exec was taken from it
  wire,       \* the frame the host is transmitting
  tx          \* replies transmitted and not yet read by the host

devVars == <<flash, mode, rx, exec, clobbered, wire, tx>>

----------------------------------------------------------------------------
(* Boot *)

Mountable(fl) == fl[0] \in Heads

\* Mutant: without "|| err" only the magic would lead to the upgrade loop.
BootTarget_MagicOnly(fl) == "app"

\* main(): a zone that does not mount goes to the upgrade loop (unless BootFails),
\* one that does goes to the application.
BootTarget(fl) == IF Mountable(fl) THEN "app" ELSE "loop"

PowerOn ==
  /\ mode = "off"
  /\ mode' = BootTarget(flash)
  /\ UNCHANGED <<flash, rx, exec, clobbered, wire, tx>>

\* The application leaves the magic in NVRAM and resets: main() enters the loop
\* although the zone mounts.  If app_dir_head cannot be opened then, sfc_mode_boot
\* starts the application again, and nothing has changed.
EnterUpdate ==
  /\ mode = "app"
  /\ mode' = "loop"
  /\ UNCHANGED <<flash, rx, exec, clobbered, wire, tx>>

----------------------------------------------------------------------------
(* Reception *)

\* uart0_irq after 1 ms of silence.  The DMA always restarts at the beginning
\* of ut_up_buf: the frame replaces one not yet taken, and the payload of the
\* one being executed.
Arrive ==
  /\ mode = "loop" /\ wire # NoFrame
  /\ rx' = wire /\ wire' = NoFrame
  /\ clobbered' = (exec # NoFrame)
  /\ UNCHANGED <<flash, mode, exec, tx>>

\* Nobody listens while the device is off, stuck or runs the application.
Unheard ==
  /\ mode # "loop" /\ wire # NoFrame
  /\ wire' = NoFrame
  /\ UNCHANGED <<flash, mode, rx, exec, clobbered, tx>>

LoseFrame ==
  /\ mode = "loop" /\ wire # NoFrame
  /\ wire' = NoFrame
  /\ UNCHANGED <<flash, mode, rx, exec, clobbered, tx>>

\* Bytes that enc_cmd_data rejects (a damaged frame, noise) land in ut_up_buf.
Noise ==
  /\ mode = "loop" /\ (rx # NoFrame \/ (exec # NoFrame /\ ~clobbered))
  /\ rx' = NoFrame
  /\ clobbered' = (exec # NoFrame)
  /\ UNCHANGED <<flash, mode, exec, wire, tx>>

\* recv_new_data between two commands: new_data is cleared, g_ops points into
\* the receive buffer.
TakeCommand ==
  /\ mode = "loop" /\ exec = NoFrame /\ rx # NoFrame
  /\ exec' = rx /\ rx' = NoFrame
  /\ clobbered' = FALSE
  /\ UNCHANGED <<flash, mode, wire, tx>>

----------------------------------------------------------------------------
(* Execution: set_remain_and_upgrade_rsp ends every handler but REBOOT's *)

Answer(status, list) ==
  /\ tx' = Append(tx, [cmd |-> exec, status |-> status, list |-> list])
  /\ exec' = NoFrame /\ clobbered' = FALSE
  /\ UNCHANGED <<mode, rx, wire>>

Handles(op) == mode = "loop" /\ exec.op = op

DeviceInit  == Handles("INIT") /\ Answer("SUSS", NoList) /\ UNCHANGED flash
\* jlfs_fopen_by_name finds no such zone: JL_SU_CMD_OTHER_ERROR
InitFails   == Handles("INIT") /\ Answer("ERROR", NoList) /\ UNCHANGED flash
DeviceCheck == Handles("CHECK") /\ Answer("SUSS", NoList) /\ UNCHANGED flash

FlashCrc ==
  /\ Handles("CRC")
  /\ Answer("SUSS", [i \in 0 .. exec.cnt - 1 |-> Crc[flash[exec.blk + i]]])
  /\ UNCHANGED flash

\* Programming clears bits only: over cells that are not erased (and do not
\* already hold the data) the outcome is nothing anybody asked for.
Programmed(old, data) == IF old \in {Erased, data} THEN data ELSE Torn

\* What the running command leaves in its block once it is through
Outcome == IF exec.op = "ERASE" THEN Erased ELSE Programmed(flash[exec.blk], exec.data)

\* Mutant: the wrong erase type takes the following units along.
Erase_WholeBlock ==
  /\ Handles("ERASE")
  /\ flash' = [b \in Block |-> IF b < exec.blk THEN flash[b] ELSE Erased]
  /\ Answer("SUSS", NoList)

Erase ==
  /\ Handles("ERASE")
  /\ flash' = [flash EXCEPT ![exec.blk] = Outcome]
  /\ Answer("SUSS", NoList)

\* Mutant: the length is kept in a local, not read again after jlfs_write.
WriteEffects_LengthKept ==
  ({Outcome} \cup (IF clobbered THEN {Torn} ELSE {})) \X {"SUSS"}

\* jlfs_write reads g_ops->write.data in the receive buffer, and data_length is
\* read again after it.  data_length precedes the data and the DMA fills the
\* buffer upwards: bytes that arrive meanwhile spoil the comparison before they
\* spoil the data.
WriteEffects ==
  {<<Outcome, "SUSS">>}
    \cup (IF clobbered THEN {Outcome, Torn} \X {"ERROR"} ELSE {})

WriteFlash ==
  /\ Handles("WRITE")
  /\ \E e \in WriteEffects :
       /\ flash' = [flash EXCEPT ![exec.blk] = e[1]]
       /\ Answer(e[2], NoList)

\* jlfs_erase returns 0, or jlfs_write less than the length: ERASE_ERROR, WRITE_ERROR
FlashFails ==
  /\ mode = "loop" /\ exec.op \in {"ERASE", "WRITE"}
  /\ \E c \in {flash[exec.blk], Torn} : flash' = [flash EXCEPT ![exec.blk] = c]
  /\ Answer("ERROR", NoList)

\* jlfs reports success for an operation the cells did not follow
FlashLies ==
  /\ SilentFaults
  /\ mode = "loop" /\ exec.op \in {"ERASE", "WRITE"}
  /\ flash' = [flash EXCEPT ![exec.blk] = Torn]
  /\ Answer("SUSS", NoList)

\* JL_SU_CMD_REBOOT: no reply; DUAL_BANK_MODE is 1, so the chip resets.
Reboot ==
  /\ Handles("REBOOT")
  /\ mode' = BootTarget(flash)
  /\ rx' = NoFrame /\ exec' = NoFrame /\ clobbered' = FALSE
  /\ UNCHANGED <<flash, wire, tx>>

\* user_check_upgrade returns 1 because app_dir_head cannot be opened: main() goes
\* past the loop, and sfc_mode_boot finds no application in a zone that does not
\* mount.  Only the power switch leads out of __boot_failed.
BootFails ==
  /\ mode = "off" \/ Handles("REBOOT")
  /\ ~Mountable(flash) /\ mode' = "stuck"
  /\ rx' = NoFrame /\ exec' = NoFrame /\ clobbered' = FALSE
  /\ UNCHANGED <<flash, wire, tx>>

----------------------------------------------------------------------------
(* Environment *)

\* A power cut in the middle of an erase or a program leaves the block as it
\* was, finished, or torn.
PowerCut ==
  /\ mode # "off" /\ mode' = "off"
  /\ rx' = NoFrame /\ exec' = NoFrame /\ clobbered' = FALSE
  /\ IF exec.op \in {"ERASE", "WRITE"}
     THEN \E c \in {flash[exec.blk], Outcome, Torn} :
            flash' = [flash EXCEPT ![exec.blk] = c]
     ELSE UNCHANGED flash
  /\ UNCHANGED <<wire, tx>>

\* A reply is damaged on its way; on_readReady drops it.
LoseReply ==
  /\ tx # <<>>
  /\ tx' = SubSeq(tx, 1, Len(tx) - 1)
  /\ UNCHANGED <<flash, mode, rx, exec, clobbered, wire>>

\* The steps of code, by handler
Receive == Arrive \/ Unheard \/ TakeCommand
Execute == DeviceInit \/ DeviceCheck \/ FlashCrc \/ Erase \/ WriteFlash \/ Reboot
LineFault  == LoseFrame \/ Noise \/ LoseReply
FlashFault == InitFails \/ FlashFails \/ FlashLies \/ BootFails

DevTypeOK ==
  /\ flash \in [Block -> Content]
  /\ mode \in {"off", "app", "loop", "stuck"}
  /\ rx \in Frame /\ exec \in Frame /\ wire \in Frame
  /\ clobbered \in BOOLEAN
  /\ tx \in Seq(Reply)
=============================================================================
