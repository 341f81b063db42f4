------------------------------ MODULE HidUpdate ------------------------------
(***************************************************************************)
(* The USB tools (win-usb_hid, and the Android updater made from it) and   *)
(* the upgrade loop behind a HID endpoint.  Two things differ from the     *)
(* serial line.  A unit is written in chunks that fit a report, so the     *)
(* order of the chunks of the head unit matters.  And read_deice tells its *)
(* caller nothing of a time limit: the caller judges whatever hid_rx_buf   *)
(* holds, the report of an earlier command if none came.                   *)
(*                                                                         *)
(* A unit is a tuple of chunks; chunk 1 of unit 0 is the head, its first   *)
(* 32 bytes, which alone decides whether the zone mounts (the tools write  *)
(* it separately because of that).                                         *)
(***************************************************************************)
EXTENDS Integers, Sequences

CONSTANTS
  N,            \* erase units of the application zone
  Chunks,       \* chunks of a unit
  Content,      \* what a chunk may hold
  Erased, Torn,
  Heads,        \* the contents of the first chunk that jlfs_mount accepts
  CrcValue, Crc,
  NoCrc,        \* a CRC not fetched yet
  Images,       \* files, cut into units and chunks
  MaxCrcList,   \* JL_MAX_CRC_LIST_COUNT
  HeadOrder,    \* the order in which a tool writes the chunks of unit 0
  SlowReplies,  \* BOOLEAN: an answer may take longer than the 3 s of read_deice
  SilentFaults  \* BOOLEAN: flash operations may report success and fail

Block == 0 .. N - 1
Chunk == 1 .. Chunks
UnitData == [Chunk -> Content]

ASSUME SizesAssumption ==
  N \in Nat \ {0} /\ Chunks \in Nat \ {0} /\ MaxCrcList \in Nat \ {0}
ASSUME CellAssumption ==
  Heads \subseteq Content /\ {Erased, Torn} \subseteq Content \ Heads
ASSUME SumAssumption == Crc \in [UnitData -> CrcValue] /\ NoCrc \notin CrcValue
ASSUME FileAssumption == Images \subseteq [len : 1 .. N, unit : [Block -> UnitData]]
ASSUME OrderAssumption ==
  /\ HeadOrder \in [Chunk -> Chunk]
  /\ \A c \in Chunk : \E k \in Chunk : \A j \in Chunk : HeadOrder[j] = c <=> j = k
ASSUME SlowAssumption == SlowReplies \in BOOLEAN /\ SilentFaults \in BOOLEAN

VARIABLES
  zone,     \* the application zone
  mode,     \* "off" | "app" | "loop" | "stuck" (__boot_failed)
  out,      \* commands in the device: the one it executes, one in the endpoint
  reports,  \* replies the operating system holds for the open handle
  link,     \* a handle is open and its device is still there
  pc,       \* what the tool waits for
  file,     \* fileContent
  unit,     \* the unit, or first unit of a batch, it is about
  chunk,    \* how many chunks of the unit were sent
  crcs,     \* chipCrcList, then ubootChipCrcList
  seen      \* hid_rx_buf

dev == <<zone, mode>>
usb == <<out, reports, link>>
tool == <<pc, file, unit, chunk, crcs, seen>>
vars == <<zone, mode, out, reports, link, pc, file, unit, chunk, crcs, seen>>

NoCrcs == [b \in Block |-> NoCrc]
Blank  == [c \in Chunk |-> Erased]
NoFile == [len |-> 0, unit |-> [b \in Block |-> Blank]]
Units  == 0 .. file.len - 1

----------------------------------------------------------------------------
(* The device *)

Depth == 2

NoReply == [op |-> "NONE", ok |-> TRUE, list |-> <<>>]

Mountable(z) == z[0][1] \in Heads

\* main(): what does not mount stays in the upgrade loop, unless BootFails
BootTarget(z) == IF Mountable(z) THEN "app" ELSE "loop"

PowerOn ==
  /\ mode = "off" /\ mode' = BootTarget(zone)
  /\ UNCHANGED <<zone, usb, tool>>

\* The application asks for an update and resets.
EnterUpdate ==
  /\ mode = "app" /\ mode' = "loop"
  /\ UNCHANGED <<zone, usb, tool>>

Executes(op) == mode = "loop" /\ out # <<>> /\ Head(out).op = op
Cmd == Head(out)

\* hid_tx_data; a report nobody has opened the device for is dropped.
Answer(ok, list) ==
  /\ out' = Tail(out)
  /\ reports' =
       IF link THEN Append(reports, [op |-> Cmd.op, ok |-> ok, list |-> list]) ELSE reports
  /\ UNCHANGED <<mode, link, tool>>

DeviceInit == Executes("INIT") /\ Answer(TRUE, <<>>) /\ UNCHANGED zone

FlashCrc ==
  /\ Executes("CRC")
  /\ Answer(TRUE, [i \in 1 .. Cmd.cnt |-> Crc[zone[Cmd.unit + i - 1]]])
  /\ UNCHANGED zone

Programmed(old, data) == IF old \in {Erased, data} THEN data ELSE Torn

\* The unit of a mutating command once it is through, and cut in the middle
After ==
  IF Cmd.op = "ERASE" THEN Blank
  ELSE [zone[Cmd.unit] EXCEPT ![Cmd.chunk] = Programmed(@, Cmd.data)]
Halfway ==
  IF Cmd.op = "ERASE" THEN [c \in Chunk |-> Torn]
  ELSE [zone[Cmd.unit] EXCEPT ![Cmd.chunk] = Torn]

Becomes(u) == zone' = [zone EXCEPT ![Cmd.unit] = u]

\* jl_su_erase and jl_su_write_flash.  The payload lies in recv_data_buf, which
\* nothing overwrites before the command is through.
Mutate ==
  /\ Executes("ERASE") \/ Executes("WRITE")
  /\ Becomes(After) /\ Answer(TRUE, <<>>)

\* JL_SU_CMD_ERASE_ERROR, JL_SU_CMD_WRITE_ERROR
MutateFails ==
  /\ Executes("ERASE") \/ Executes("WRITE")
  /\ \E u \in {zone[Cmd.unit], Halfway} : Becomes(u)
  /\ Answer(FALSE, <<>>)

\* jlfs reports success, and the cells did not follow.
MutateLies ==
  /\ SilentFaults
  /\ Executes("ERASE") \/ Executes("WRITE")
  /\ \E u \in {zone[Cmd.unit], Halfway} : Becomes(u)
  /\ Answer(TRUE, <<>>)

\* What the endpoints hold goes with the device, and the handle is of no use.
Disappears == out' = <<>> /\ reports' = <<>> /\ link' = FALSE

Reboot ==
  /\ Executes("REBOOT")
  /\ mode' = BootTarget(zone) /\ Disappears
  /\ UNCHANGED <<zone, tool>>

\* user_check_upgrade cannot open app_dir_head: no loop, and nothing to start
BootFails ==
  /\ mode = "off" \/ Executes("REBOOT")
  /\ ~Mountable(zone) /\ mode' = "stuck" /\ Disappears
  /\ UNCHANGED <<zone, tool>>

PowerCut ==
  /\ mode # "off" /\ mode' = "off" /\ Disappears
  /\ IF Executes("ERASE") \/ Executes("WRITE")
     THEN \E u \in {zone[Cmd.unit], After, Halfway} : Becomes(u)
     ELSE UNCHANGED zone
  /\ UNCHANGED tool

----------------------------------------------------------------------------
(* The tool: commands *)

\* Mutant: every batch has the maximal size.
BatchSize_Whole(b) == MaxCrcList

\* readCount of fetchChipCrcList
BatchSize(b) == IF file.len - b > MaxCrcList THEN MaxCrcList ELSE file.len - b

\* Mutant: the unit from its beginning, like every other unit.
HeadChunk_InOrder(k) == k

\* "fileBuf + 32" first, the first 32 bytes last
HeadChunk(k) == HeadOrder[k]

\* writeFlash goes through a unit in order.
ChunkOf(u, k) == IF u = 0 THEN HeadChunk(k) ELSE k

Opcode(p) ==
  CASE p = "init"                     -> "INIT"
    [] p \in {"fetch", "verify"}      -> "CRC"
    [] p \in {"eraseHead", "erase"}   -> "ERASE"
    [] p \in {"write", "writeHead"}   -> "WRITE"
    [] p \in {"reboot", "unfetched"}  -> "REBOOT"

Request(p, u, k) ==
  [op |-> Opcode(p),
   unit |-> u,
   cnt |-> IF p \in {"fetch", "verify"} THEN BatchSize(u) ELSE 0,
   chunk |-> IF p \in {"write", "writeHead"} THEN ChunkOf(u, k) ELSE 0,
   data |-> IF p \in {"write", "writeHead"} THEN file.unit[u][ChunkOf(u, k)] ELSE Erased]

\* The result of hid_write is ignored: a report that does not go out is lost.
Sent(c) == IF link /\ Len(out) < Depth THEN Append(out, c) ELSE out

Ask(p, u, k) ==
  /\ pc' = p /\ unit' = u /\ chunk' = k
  /\ out' = Sent(Request(p, u, k))

\* "update ok" is printed and makeCommand(REBOOT) is next.
SayOk(p) == pc' = p /\ unit' = 0 /\ chunk' = 0 /\ UNCHANGED out

----------------------------------------------------------------------------
(* The tool: answers *)

\* read_deice: a report, or 3 s of nothing, after which hid_rx_buf still holds
\* the previous one
Got == IF reports = <<>> THEN seen ELSE Head(reports)

Returns == reports # <<>> \/ SlowReplies \/ ~link

Read ==
  /\ Returns
  /\ reports' = IF reports = <<>> THEN reports ELSE Tail(reports)
  /\ seen' = Got

\* Mutant: the status byte is not looked at.
Good_AnyStatus(op) == Got.op = op

\* Mutant: only the status byte is looked at.
Good_AnyOpcode(op) == Got.ok

\* isReply...Cmd; the opcode and the status, and not whose answer it is
Good(op) == Got.op = op /\ Got.ok

Reads(p, op) == pc = p /\ Read /\ Good(op)
Rest == UNCHANGED <<zone, mode, link, file>>

\* main returns: the handle is closed and its reports are gone.
Leave ==
  /\ pc' = "idle" /\ file' = NoFile /\ unit' = 0 /\ chunk' = 0
  /\ crcs' = NoCrcs /\ seen' = NoReply
  /\ reports' = <<>> /\ link' = FALSE
  /\ UNCHANGED <<zone, mode>>

End == Leave /\ UNCHANGED out

----------------------------------------------------------------------------
(* The tool: main *)

StartSession ==
  /\ pc = "idle" /\ mode = "loop"
  /\ file' \in Images
  /\ link' = TRUE /\ reports' = <<>>
  /\ pc' = "init"
  /\ out' = IF Len(out) < Depth THEN Append(out, Request("init", 0, 0)) ELSE out
  /\ UNCHANGED <<zone, mode, unit, chunk, crcs, seen>>

InitAnswered ==
  /\ pc = "init" /\ reports # <<>>
  /\ Reads("init", "INIT")
  /\ Ask("fetch", 0, 0)
  /\ Rest /\ UNCHANGED crcs

\* Only the status of this answer is looked at: without one, or with the report of
\* an earlier command, the tool goes on with the geometry that happens to be in
\* memory.  It is taken to end there, by a division by zero or outside its file.
InitFails ==
  /\ pc = "init" /\ Returns
  /\ reports = <<>> \/ ~Good("INIT")
  /\ End

NextBatch == unit + BatchSize(unit)

\* memcpy of readCount CRCs: those the report does not have are whatever lies
\* behind it.
Fetched(behind) ==
  [b \in Block |->
     IF b \notin unit .. NextBatch - 1 THEN crcs[b]
     ELSE IF b - unit + 1 \in DOMAIN Got.list THEN Got.list[b - unit + 1] ELSE behind]

Behind == IF BatchSize(unit) <= Len(Got.list) THEN {NoCrc} ELSE CrcValue

BatchAnswered(p) ==
  /\ Reads(p, "CRC") /\ NextBatch \in Units
  /\ \E g \in Behind : crcs' = Fetched(g)
  /\ Ask(p, NextBatch, 0)
  /\ Rest

SameCrcs(list) == \A b \in Units : Crc[file.unit[b]] = list[b]

\* Mutant: the head stays where it is, the loop starts at once.
FetchDone_HeadKept ==
  /\ Reads("fetch", "CRC") /\ NextBatch \notin Units
  /\ \E g \in Behind :
       /\ crcs' = Fetched(g)
       /\ IF SameCrcs(Fetched(g)) \/ file.len = 1 THEN SayOk("reboot") ELSE Ask("erase", 1, 0)
  /\ Rest

FetchDone ==
  /\ Reads("fetch", "CRC") /\ NextBatch \notin Units
  /\ \E g \in Behind :
       /\ crcs' = Fetched(g)
       /\ IF SameCrcs(Fetched(g)) THEN SayOk("reboot") ELSE Ask("eraseHead", 0, 0)
  /\ Rest

\* "if (!fetchChipCrcList(...)) goto __reboot"
FetchFails ==
  /\ pc = "fetch" /\ Read /\ ~Good("CRC")
  /\ SayOk("unfetched")
  /\ Rest /\ UNCHANGED crcs

\* The units that differ, from unit u on, then the first one
Dirty(u) == {j \in Units : j > u /\ Crc[file.unit[j]] # crcs[j]}

NextDirty(u) ==
  \/ Dirty(u) = {} /\ Ask("writeHead", 0, 1)
  \/ \E j \in Dirty(u) : (\A i \in Dirty(u) : j <= i) /\ Ask("erase", j, 0)

HeadErased == Reads("eraseHead", "ERASE") /\ NextDirty(0) /\ Rest /\ UNCHANGED crcs
UnitErased == Reads("erase", "ERASE") /\ Ask("write", unit, 1) /\ Rest /\ UNCHANGED crcs

ChunkWritten(p) ==
  /\ Reads(p, "WRITE") /\ chunk < Chunks
  /\ Ask(p, unit, chunk + 1)
  /\ Rest /\ UNCHANGED crcs

UnitWritten ==
  /\ Reads("write", "WRITE") /\ chunk = Chunks
  /\ NextDirty(unit)
  /\ Rest /\ UNCHANGED crcs

HeadWritten ==
  /\ Reads("writeHead", "WRITE") /\ chunk = Chunks
  /\ Ask("verify", 0, 0) /\ crcs' = NoCrcs
  /\ Rest

\* Mutant: the CRCs fetched after the last write are not compared.
Verified_Unchecked ==
  /\ Reads("verify", "CRC") /\ NextBatch \notin Units
  /\ \E g \in Behind : crcs' = Fetched(g)
  /\ SayOk("reboot")
  /\ Rest

\* ensureCrcMatch
Verified ==
  /\ Reads("verify", "CRC") /\ NextBatch \notin Units
  /\ \E g \in Behind : SameCrcs(Fetched(g)) /\ crcs' = Fetched(g)
  /\ SayOk("reboot")
  /\ Rest

VerifyFails ==
  /\ pc = "verify" /\ Returns /\ Good("CRC") /\ NextBatch \notin Units
  /\ \E g \in Behind : ~SameCrcs(Fetched(g))
  /\ End

\* return -1
BadAnswer ==
  /\ Returns
  /\ \/ pc = "verify" /\ ~Good("CRC")
     \/ pc \in {"eraseHead", "erase"} /\ ~Good("ERASE")
     \/ pc \in {"write", "writeHead"} /\ ~Good("WRITE")
  /\ End

RebootSent ==
  /\ pc \in {"reboot", "unfetched"}
  /\ out' = Sent(Request(pc, 0, 0))
  /\ Leave

\* Closed by the user; or the copy of 64 KB out of the 65 bytes of hid_rx_buf,
\* which follows every time limit because cmd_len was filled with 0xff, faults.
Abandon == pc # "idle" /\ End

----------------------------------------------------------------------------
Device == DeviceInit \/ FlashCrc \/ Mutate \/ Reboot \/ PowerOn

Tool ==
  \/ InitAnswered \/ InitFails \/ BatchAnswered("fetch") \/ FetchDone \/ FetchFails
  \/ HeadErased \/ UnitErased \/ ChunkWritten("write") \/ UnitWritten
  \/ ChunkWritten("writeHead") \/ HeadWritten
  \/ BatchAnswered("verify") \/ Verified \/ VerifyFails
  \/ BadAnswer \/ RebootSent

User  == StartSession \/ EnterUpdate
Fault == MutateFails \/ MutateLies \/ BootFails \/ PowerCut \/ Abandon

Factory(img) == [b \in Block |-> IF b < img.len THEN img.unit[b] ELSE Blank]

Init ==
  /\ zone \in {Factory(img) : img \in Images \cup {NoFile}}
  /\ mode = "off" /\ out = <<>> /\ reports = <<>> /\ link = FALSE
  /\ pc = "idle" /\ file = NoFile /\ unit = 0 /\ chunk = 0
  /\ crcs = NoCrcs /\ seen = NoReply

Next == Device \/ Tool \/ User \/ Fault
Spec == Init /\ [][Next]_vars

----------------------------------------------------------------------------
(* Properties *)

Command == [op : {"INIT", "CRC", "ERASE", "WRITE", "REBOOT"}, unit : Block,
            cnt : 0 .. N, chunk : 0 .. Chunks, data : Content]

\* Type invariant; no command reaches beyond the zone.
TypeOK ==
  /\ zone \in [Block -> UnitData]
  /\ mode \in {"off", "app", "loop", "stuck"}
  /\ Len(out) <= Depth
  /\ \A i \in 1 .. Len(out) : out[i] \in Command /\ out[i].unit + out[i].cnt <= N
  /\ link \in BOOLEAN
  /\ file \in Images \cup {NoFile}
  /\ unit \in Block /\ chunk \in 0 .. Chunks
  /\ crcs \in [Block -> CrcValue \cup {NoCrc}]

Matches(img) ==
  img.len > 0 /\ \A b \in 0 .. img.len - 1 : Crc[zone[b]] = Crc[img.unit[b]]

\* A zone that mounts, and that main() therefore boots, holds an image: it needs
\* the head chunk to be the last one that is written.
BootsComplete == Mountable(zone) => \E img \in Images : Matches(img)

\* Only a zone that does not mount is changed beyond its first unit.
HeadGuardsBody ==
  [][\A b \in Block \ {0} : (zone'[b] # zone[b] => ~Mountable(zone))]_vars

\* While the device is there, "update ok" after the writes is true, although flash
\* operations may have lied and whatever earlier sessions left in the device.
VerifiedMeansFlashed ==
  [][(link /\ pc = "verify" /\ pc' = "reboot") => Matches(file)]_vars

\* While the device is there, the tool writes only to what was erased.
ErasedBeforeWrite ==
  [][(link /\ pc = "erase" /\ pc' = "write") => zone[unit] = Blank]_vars

\* The documented meaning of REBOOT: the upgrade succeeded.
RebootMeansSuccess == pc \in {"reboot", "unfetched"} => Matches(file)

\* "same crc, no need to upgrade", and "update ok" after a comparison: the zone
\* holds the file.
ComparedMeansFlashed == pc = "reboot" => Matches(file)

Broken == [len |-> N + 1, unit |-> [b \in Block |-> Blank]]

Booted ==
  IF ~Mountable(zone) THEN NoFile
  ELSE IF BootsComplete THEN CHOOSE img \in Images : Matches(img) ELSE Broken

Abstract == INSTANCE AtomicInstall
  WITH Nothing <- NoFile, boot <- Booted, told <- NoFile

\* The same promise as over the serial line, but for what the tool tells.
ImplementsAtomicInstall == Abstract!Spec
=============================================================================
