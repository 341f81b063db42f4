----------------------------- MODULE UartUpdate -----------------------------
(***************************************************************************)
(* UpdateThread::runInner of the win-uart tool (the branch that updates    *)
(* the application) driving the device of UpgradeLoop over the serial      *)
(* line.  A session is one UpdateThread: it opens the port, asks, waits at *)
(* most 8 s for each answer, and gives up at the first answer it does not  *)
(* like.  Sessions follow each other, with any of the files.               *)
(***************************************************************************)
EXTENDS UpgradeLoop

CONSTANTS
  Images,      \* files, cut into the erase units after appZoneAddr
  MaxCrcList,  \* JL_MAX_CRC_LIST_COUNT
  NoCrc        \* a CRC not fetched yet

\* blockCount erase units, the last one padded with 0xFF
Image == [len : 0 .. N, unit : [Block -> Content]]

ASSUME ImageAssumption == Images \subseteq Image
ASSUME BatchAssumption == MaxCrcList \in Nat \ {0}
ASSUME NoCrcAssumption == NoCrc \notin CrcValue

VARIABLES
  pc,    \* the answer runInner waits for
  file,  \* m_fileContent
  blk,   \* the block, or the first block of the batch, it is about
  crcs   \* chipCrcList, then ubootChipCrcList of ensureCrcMatch

hostVars == <<pc, file, blk, crcs>>
vars == <<flash, mode, rx, exec, clobbered, wire, tx, pc, file, blk, crcs>>

NoCrcs == [b \in Block |-> NoCrc]

Phase == {"idle", "opened", "init", "check", "fetch", "eraseHead", "erase",
          "write", "writeHead", "verify", "reboot"}
Waiting == Phase \ {"idle", "opened", "reboot"}

UnitsOf(img) == 0 .. img.len - 1
Units == UnitsOf(file)

\* Mutant: every batch has the maximal size.
BatchSize_Whole(b) == MaxCrcList

\* readCount of fetchChipCrcList
BatchSize(b) == IF file.len - b > MaxCrcList THEN MaxCrcList ELSE file.len - b

\* No session
NoFile == [len |-> 0, unit |-> [b \in Block |-> Erased]]

----------------------------------------------------------------------------
(* The commands: make...Cmd *)

Cmd(op, b, k, data) == [op |-> op, blk |-> b, cnt |-> k, data |-> data, live |-> TRUE]

\* What runInner sends before it waits in phase p about block b
Request(p, b) ==
  CASE p = "init"                 -> Cmd("INIT", 0, 0, Erased)
    [] p = "check"                -> Cmd("CHECK", 0, 0, Erased)
    [] p \in {"fetch", "verify"}  -> Cmd("CRC", b, BatchSize(b), Erased)
    [] p \in {"eraseHead", "erase"} -> Cmd("ERASE", b, 0, Erased)
    [] p \in {"write", "writeHead"} -> Cmd("WRITE", b, 0, file.unit[b])
    [] p = "reboot"               -> Cmd("REBOOT", 0, 0, Erased)

\* on_writeBuffer waits until the bytes are written: one frame at a time.
Ask(p, b) ==
  /\ pc' = p /\ blk' = b
  /\ wire = NoFrame /\ wire' = Request(p, b)

\* Mutant: the status byte is not looked at.
Answers_AnyStatus(r) ==
  /\ r.cmd.op = Request(pc, blk).op
  /\ DOMAIN r.list = 0 .. Request(pc, blk).cnt - 1

\* isReply...Cmd: the opcode, the size, and success
Answers(r) ==
  /\ r.cmd.op = Request(pc, blk).op
  /\ DOMAIN r.list = 0 .. Request(pc, blk).cnt - 1
  /\ r.status = "SUSS"

Accept(p) == pc = p /\ tx # <<>> /\ Answers(Head(tx)) /\ tx' = Tail(tx)

----------------------------------------------------------------------------
(* The session *)

Stale(f) ==
  [op |-> f.op, blk |-> f.blk, cnt |-> f.cnt, data |-> f.data, live |-> FALSE]

\* run() returns from runInner and stops the serial thread, which closes the
\* port: what was received is gone, what was sent may still arrive.
Close ==
  /\ pc' = "idle" /\ blk' = 0 /\ crcs' = NoCrcs
  /\ wire' = Stale(wire) /\ tx' = <<>>
  /\ rx' = Stale(rx) /\ exec' = Stale(exec)
  /\ file' = NoFile
  /\ UNCHANGED <<flash, mode, clobbered>>

\* Mutant: what is pending in the port is not dropped.
StartSession_KeepsPending ==
  /\ pc = "idle"
  /\ pc' = "opened" /\ file' \in Images
  /\ UNCHANGED <<flash, mode, rx, exec, clobbered, wire, tx, blk, crcs>>

\* on_btnStart_clicked and on_reOpenRequest: readAll drops what is pending.
StartSession ==
  /\ pc = "idle"
  /\ pc' = "opened" /\ file' \in Images
  /\ wire' = NoFrame /\ tx' = <<>>
  /\ UNCHANGED <<flash, mode, rx, exec, clobbered, blk, crcs>>

SendInit ==
  /\ pc = "opened"
  /\ Ask("init", 0)
  /\ UNCHANGED <<flash, mode, rx, exec, clobbered, tx, file, crcs>>

HostOnly == UNCHANGED <<flash, mode, rx, exec, clobbered, file>>

InitAnswered == Accept("init") /\ Ask("check", 0) /\ HostOnly /\ UNCHANGED crcs

CheckAnswered ==
  /\ Accept("check") /\ Units # {}
  /\ Ask("fetch", 0)
  /\ HostOnly /\ UNCHANGED crcs

\* fileContent.size() <= appZoneAddr: return without a word
FileTooShort == pc = "check" /\ tx # <<>> /\ Answers(Head(tx)) /\ Units = {} /\ Close

\* Mutant: address and blockCount are not advanced.
NextBatch_Stuck == blk

\* One round of fetchChipCrcList
NextBatch == blk + BatchSize(blk)
Fetched ==
  [b \in Block |-> IF b \in blk .. NextBatch - 1 THEN Head(tx).list[b - blk] ELSE crcs[b]]

BatchAnswered(p) ==
  /\ Accept(p) /\ NextBatch \in Units
  /\ Ask(p, NextBatch)
  /\ crcs' = Fetched /\ HostOnly

\* Mutant: memcmp of blockCount bytes, half of the lists.
SameCrcs_HalfList(list) ==
  \A b \in Units : 2 * b < file.len => Crc[file.unit[b]] = list[b]

\* memcmp of the whole lists
SameCrcs(list) == \A b \in Units : Crc[file.unit[b]] = list[b]

\* Mutant: i < blockCount - 1.
Dirty_LastSkipped(b) ==
  {j \in Units : j > b /\ j < file.len - 1 /\ Crc[file.unit[j]] # crcs[j]}

\* "for (i = 1; ...) if (fileCrcList[i] != chipCrcList[i])", from block b on,
\* then the first unit
Dirty(b) == {j \in Units : j > b /\ Crc[file.unit[j]] # crcs[j]}

NextDirty(b) ==
  \/ Dirty(b) = {} /\ Ask("writeHead", 0)
  \/ \E j \in Dirty(b) : (\A k \in Dirty(b) : j <= k) /\ Ask("erase", j)

\* Mutant: the head is left in place while the body is rewritten.
FetchDone_HeadKept ==
  /\ Accept("fetch") /\ NextBatch \notin Units
  /\ IF SameCrcs(Fetched) \/ file.len = 1 THEN Ask("reboot", 0) ELSE Ask("erase", 1)
  /\ crcs' = Fetched /\ HostOnly

FetchDone ==
  /\ Accept("fetch") /\ NextBatch \notin Units
  /\ IF SameCrcs(Fetched) THEN Ask("reboot", 0) ELSE Ask("eraseHead", 0)
  /\ crcs' = Fetched /\ HostOnly

\* Mutant: the head is written right after it was erased.
HeadErased_HeadFirst ==
  Accept("eraseHead") /\ Ask("writeHead", 0) /\ HostOnly /\ UNCHANGED crcs

HeadErased == Accept("eraseHead") /\ NextDirty(0) /\ HostOnly /\ UNCHANGED crcs
UnitErased == Accept("erase") /\ Ask("write", blk) /\ HostOnly /\ UNCHANGED crcs
UnitWritten == Accept("write") /\ NextDirty(blk) /\ HostOnly /\ UNCHANGED crcs

HeadWritten ==
  /\ Accept("writeHead") /\ Ask("verify", 0)
  /\ crcs' = NoCrcs /\ HostOnly

\* Mutant: "update ok" without comparing.
Verified_Unchecked ==
  /\ Accept("verify") /\ NextBatch \notin Units
  /\ Ask("reboot", 0)
  /\ crcs' = Fetched /\ HostOnly

\* ensureCrcMatch, "update ok", reboot
Verified ==
  /\ Accept("verify") /\ NextBatch \notin Units
  /\ SameCrcs(Fetched) /\ Ask("reboot", 0)
  /\ crcs' = Fetched /\ HostOnly

VerifyFails ==
  /\ pc = "verify" /\ tx # <<>> /\ Answers(Head(tx)) /\ NextBatch \notin Units
  /\ ~SameCrcs(Fetched)
  /\ Close

\* The empty reply on_writeBuffer makes up once the REBOOT frame is written, or
\* any late reply
RebootSent == pc = "reboot" /\ (wire = NoFrame \/ tx # <<>>) /\ Close

BadAnswer == pc \in Waiting /\ tx # <<>> /\ ~Answers(Head(tx)) /\ Close

\* 8 s without an answer, and none under way
Timeout ==
  /\ pc \in Waiting /\ tx = <<>>
  /\ wire = NoFrame
  /\ mode = "loop" => rx = NoFrame /\ exec = NoFrame
  /\ Close

\* The tool is killed, or the device is slower than 8 s.
Abandon == pc # "idle" /\ Close

----------------------------------------------------------------------------
(* The system *)

HostStep ==
  \/ SendInit \/ InitAnswered \/ CheckAnswered \/ FileTooShort
  \/ BatchAnswered("fetch") \/ FetchDone
  \/ HeadErased \/ UnitErased \/ UnitWritten \/ HeadWritten
  \/ BatchAnswered("verify") \/ Verified \/ VerifyFails
  \/ RebootSent \/ BadAnswer \/ Timeout

DeviceStep == (Receive \/ Execute \/ PowerOn) /\ UNCHANGED hostVars

User == StartSession \/ (EnterUpdate /\ UNCHANGED hostVars)

Fault == Abandon \/ ((LineFault \/ FlashFault \/ PowerCut) /\ UNCHANGED hostVars)

\* The zone holds an image completely, as far as CRCs tell.
Matches(img) ==
  /\ img.len > 0
  /\ \A b \in UnitsOf(img) : Crc[flash[b]] = Crc[img.unit[b]]

\* A blank device, or one that left the factory with an image
Factory(img) == [b \in Block |-> IF b \in UnitsOf(img) THEN img.unit[b] ELSE Erased]

Init ==
  /\ flash \in {Factory(img) : img \in Images \cup {NoFile}}
  /\ mode = "off"
  /\ rx = NoFrame /\ exec = NoFrame /\ wire = NoFrame /\ clobbered = FALSE
  /\ tx = <<>>
  /\ pc = "idle" /\ file = NoFile /\ blk = 0 /\ crcs = NoCrcs

Next == HostStep \/ DeviceStep \/ User \/ Fault

Spec == Init /\ [][Next]_vars

----------------------------------------------------------------------------
(* Properties *)

\* Type invariant.
TypeOK ==
  /\ DevTypeOK
  /\ pc \in Phase
  /\ file \in Images \cup {NoFile}
  /\ blk \in Block
  /\ crcs \in [Block -> CrcValue \cup {NoCrc}]

\* Whatever was cut, lost or abandoned: a zone that mounts, and that main()
\* therefore boots, holds one image completely.
BootsComplete == Mountable(flash) => \E img \in Images : Matches(img)

\* When the tool says "update ok" (or finds the same CRCs) and asks for the
\* reboot, every unit on the chip has the CRC of the file's unit, also when
\* flash operations lie.
OkMeansFlashed == pc = "reboot" => Matches(file)

\* Frames carry no sequence number and late replies of earlier sessions do
\* arrive: yet from the first CRC answer on, the answer the tool accepts is that
\* to the command it just sent.
AnswerIsOurs ==
  pc \in Waiting \ {"init", "check"} /\ tx # <<>> /\ Answers(Head(tx))
    => Head(tx).cmd = Request(pc, blk)

\* No unit is programmed over cells that are not erased.
ProgramsErased == exec.op = "WRITE" => flash[exec.blk] = Erased

\* The body of the zone changes only while the head does not mount.
HeadGuardsBody ==
  [][\A b \in Block \ {0} : (flash'[b] # flash[b] => ~Mountable(flash))]_vars

\* From the first CRC command on, nothing but the unit just asked for changes
\* under the tool: the CRC list it fetched stays true of every other unit.
ListStaysTrue ==
  [][(pc \in Waiting \ {"init", "check"}) =>
       \A b \in Block : (flash'[b] # flash[b] =>
           b = blk /\ pc \in {"eraseHead", "erase", "write", "writeHead"})]_vars

----------------------------------------------------------------------------
(* Refinement *)

\* A zone that mounts and holds no image: AtomicInstall knows no such value.
Broken == [len |-> N + 1, unit |-> [b \in Block |-> Torn]]

\* The image main() boots, were the device reset now
Booted ==
  IF ~Mountable(flash) THEN NoFile
  ELSE IF BootsComplete THEN CHOOSE img \in Images : Matches(img) ELSE Broken

Abstract == INSTANCE AtomicInstall
  WITH Nothing <- NoFile, boot <- Booted,
       told <- IF pc = "reboot" THEN file ELSE NoFile

\* Every step of tool, line, device and power is a step of AtomicInstall.
ImplementsAtomicInstall == Abstract!Spec
=============================================================================
