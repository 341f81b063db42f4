------------------------- MODULE HidLockstepProofs --------------------------
(***************************************************************************)
(* Type correctness of HidUpdate for every zone, chunking, set of files,   *)
(* checksum and batch size; tool and device in lockstep, and the lists the *)
(* tool reads, with SlowReplies = FALSE.  Nothing is assumed of the flash. *)
(***************************************************************************)
EXTENDS HidInvariants, TLAPS

----------------------------------------------------------------------------
(* Types and ranges *)

\* Facts about the numbers
LEMMA Numbers ==
  /\ N \in Nat /\ Chunks \in Nat /\ MaxCrcList \in Nat
  /\ 0 < N /\ 0 < Chunks /\ 0 < MaxCrcList
  /\ \A f \in Images : f.len \in 1 .. N /\ f.unit \in [Block -> UnitData]
  /\ 0 \in Block /\ 1 \in Chunk
  BY SizesAssumption, FileAssumption DEF Block, Chunk

\* What Typed says implies what the runs check.
LEMMA TypedIsTypeOK == Typed => TypeOK
  BY DEF Typed, TypeOK, Sendable

\* Append and Tail, element by element
LEMMA Appended ==
  ASSUME NEW S, NEW s \in Seq(S), NEW e \in S
  PROVE  /\ Append(s, e) \in Seq(S)
         /\ Len(Append(s, e)) = Len(s) + 1
         /\ \A i \in 1 .. Len(s) : Append(s, e)[i] = s[i]
         /\ Append(s, e)[Len(s) + 1] = e
  OBVIOUS

LEMMA Rest1 ==
  ASSUME NEW S, NEW s \in Seq(S), s # <<>>
  PROVE  /\ Tail(s) \in Seq(S)
         /\ Len(s) \in Nat /\ Len(s) >= 1
         /\ Len(Tail(s)) = Len(s) - 1
         /\ \A i \in 1 .. Len(s) - 1 : Tail(s)[i] = s[i + 1]
         /\ Head(s) = s[1] /\ s[1] \in S
  OBVIOUS

\* An erased unit, and the file between sessions
LEMMA BlankTyped == Blank \in UnitData /\ NoFile.len = 0 /\ NoFile.unit \in [Block -> UnitData]
  BY CellAssumption DEF Blank, UnitData, NoFile

\* A batch that starts inside the file ends inside it.
LEMMA BatchInside ==
  ASSUME file \in Images, NEW u \in Block, u < file.len
  PROVE  BatchSize(u) \in 1 .. MaxCrcList /\ u + BatchSize(u) \in 1 .. file.len
  BY Numbers DEF BatchSize, Block

\* The command of each phase
LEMMA Opcodes ==
  /\ Opcode("init") = "INIT"
  /\ Opcode("fetch") = "CRC" /\ Opcode("verify") = "CRC"
  /\ Opcode("eraseHead") = "ERASE" /\ Opcode("erase") = "ERASE"
  /\ Opcode("write") = "WRITE" /\ Opcode("writeHead") = "WRITE"
  /\ Opcode("reboot") = "REBOOT" /\ Opcode("unfetched") = "REBOOT"
  BY DEF Opcode

\* What the tool asks is a command that stays inside the zone.
LEMMA RequestTyped ==
  ASSUME file \in Images, NEW p \in Phase \ {"idle"}, NEW u \in Block, NEW k \in 0 .. Chunks,
         p \in {"fetch", "verify"} => u < file.len,
         p \in {"write", "writeHead"} => k \in Chunk
  PROVE  Request(p, u, k) \in Sendable
  <1>1. file.unit \in [Block -> UnitData] /\ file.len \in 1 .. N
    BY Numbers
  <1>2. CASE p \in {"fetch", "verify"}
    <2>1. BatchSize(u) \in 0 .. N /\ u + BatchSize(u) <= N
      BY <1>1, <1>2, BatchInside, Numbers DEF Block
    <2> QED BY <1>2, <2>1, CellAssumption, Opcodes, Numbers DEF Request, Sendable, Command
  <1>3. CASE p \in {"write", "writeHead"}
    <2>1. ChunkOf(u, k) \in Chunk
      BY <1>3, OrderAssumption DEF ChunkOf, HeadChunk
    <2>2. file.unit[u][ChunkOf(u, k)] \in Content
      BY <1>1, <2>1 DEF UnitData
    <2>3. u + 0 <= N
      BY Numbers DEF Block
    <2> QED BY <1>3, <2>1, <2>2, <2>3, Numbers, Opcodes DEF Request, Sendable, Command, Chunk
  <1>4. CASE p \in {"init", "eraseHead", "erase", "reboot", "unfetched"}
    BY <1>4, Numbers, CellAssumption, Opcodes DEF Request, Sendable, Command, Block
  <1> QED BY <1>2, <1>3, <1>4 DEF Phase

----------------------------------------------------------------------------
(* Type correctness *)

\* The device answers the command in front.
LEMMA AnswerTyped ==
  ASSUME Typed, out # <<>>, NEW ok \in BOOLEAN, NEW list \in Seq(CrcValue), Answer(ok, list)
  PROVE  /\ out' \in Seq(Sendable) /\ Len(out') <= Depth
         /\ reports' \in Seq(Report)
         /\ mode' = mode /\ link' = link /\ tool' = tool
  <1>1. Cmd \in Sendable
    BY Rest1 DEF Typed, Cmd
  <1>2. [op |-> Cmd.op, ok |-> ok, list |-> list] \in Report
    BY <1>1 DEF Sendable, Command, Report
  <1>3. reports' \in Seq(Report)
    BY <1>2, Appended DEF Answer, Typed
  <1>4. out' \in Seq(Sendable) /\ Len(out') <= Depth
    BY Rest1 DEF Answer, Typed, Depth
  <1> QED BY <1>3, <1>4 DEF Answer

\* The units a command that changes flash may leave
LEMMA AftermathTyped ==
  ASSUME Typed, out # <<>>, Cmd.op \in Mutating
  PROVE  /\ Cmd.unit \in Block
         /\ After \in UnitData /\ Halfway \in UnitData /\ zone[Cmd.unit] \in UnitData
  <1>1. Cmd \in Sendable
    BY Rest1 DEF Typed, Cmd
  <1>2. Cmd.unit \in Block /\ Cmd.data \in Content /\ (Cmd.op = "WRITE" => Cmd.chunk \in Chunk)
    BY <1>1 DEF Sendable, Command
  <1>3. zone[Cmd.unit] \in UnitData
    BY <1>2 DEF Typed
  <1>4. Torn \in Content /\ [c \in Chunk |-> Torn] \in UnitData
    BY CellAssumption DEF UnitData
  <1>5. CASE Cmd.op = "ERASE"
    BY <1>2, <1>3, <1>4, <1>5, BlankTyped DEF After, Halfway
  <1>6. CASE Cmd.op = "WRITE"
    <2>1. \A x \in Content : Programmed(x, Cmd.data) \in Content
      BY <1>2, <1>4 DEF Programmed
    <2>2. After \in UnitData
      BY <1>2, <1>3, <1>6, <2>1 DEF After, UnitData
    <2>3. Halfway \in UnitData
      BY <1>2, <1>3, <1>4, <1>6 DEF Halfway, UnitData
    <2> QED BY <1>2, <1>3, <2>2, <2>3
  <1> QED BY <1>5, <1>6 DEF Mutating

LEMMA BecomesTyped ==
  ASSUME Typed, out # <<>>, Cmd.op \in Mutating, NEW u \in UnitData, Becomes(u)
  PROVE  zone' \in [Block -> UnitData]
  BY AftermathTyped DEF Typed, Becomes

\* The tool takes a report.
LEMMA ReadTyped ==
  ASSUME Typed, Read
  PROVE  Got \in Report /\ reports' \in Seq(Report) /\ seen' \in Report
  <1>1. CASE reports = <<>>
    BY <1>1 DEF Read, Got, Typed
  <1>2. CASE reports # <<>>
    BY <1>2, Rest1 DEF Read, Got, Typed
  <1> QED BY <1>1, <1>2

LEMMA FetchedTyped ==
  ASSUME Typed, Got \in Report, NEW g \in Behind
  PROVE  Fetched(g) \in [Block -> CrcValue \cup {NoCrc}]
  <1>1. g \in CrcValue \cup {NoCrc}
    BY DEF Behind
  <1>2. \A i \in DOMAIN Got.list : Got.list[i] \in CrcValue
    BY DEF Report
  <1> QED BY <1>1, <1>2 DEF Fetched, Typed

\* Every question keeps the types, and so does every end.
LEMMA AskShape ==
  ASSUME Shape, pc # "idle", Read, Rest,
         NEW p \in Steady, NEW u \in Block, NEW k \in 0 .. Chunks, Ask(p, u, k),
         crcs' \in [Block -> CrcValue \cup {NoCrc}],
         p \in {"fetch", "verify"} => u < file.len,
         p \in {"erase", "write"} => u \in 1 .. file.len - 1,
         p \in {"eraseHead", "writeHead"} => u = 0,
         IF p \in {"write", "writeHead"} THEN k \in Chunk ELSE k = 0
  PROVE  Shape'
  <1>1. file \in Images
    BY DEF Shape, Ranges
  <1>2. Request(p, u, k) \in Sendable
    BY <1>1, RequestTyped DEF Steady, Phase
  <1>3. out' \in Seq(Sendable) /\ Len(out') <= Depth
    BY <1>2, Appended DEF Ask, Sent, Shape, Typed, Depth
  <1>4. Typed'
    BY <1>3, ReadTyped DEF Shape, Typed, Ask, Rest, Steady, Phase
  <1>5. Ranges'
    BY <1>1 DEF Ranges, Ask, Rest, Steady
  <1> QED BY <1>4, <1>5 DEF Shape

LEMMA SayOkShape ==
  ASSUME Shape, pc # "idle", Read, Rest, NEW p \in Leaving, SayOk(p),
         crcs' \in [Block -> CrcValue \cup {NoCrc}]
  PROVE  Shape'
  <1>1. Typed'
    BY ReadTyped, Numbers DEF Shape, Typed, SayOk, Rest, Leaving, Phase
  <1>2. Ranges'
    BY DEF Shape, Ranges, SayOk, Rest, Leaving
  <1> QED BY <1>1, <1>2 DEF Shape

LEMMA LeaveShape ==
  ASSUME Typed, Leave, out' \in Seq(Sendable) /\ Len(out') <= Depth
  PROVE  Shape'
  <1>1. NoReply \in Report
    BY DEF NoReply, Report
  <1>2. NoCrcs \in [Block -> CrcValue \cup {NoCrc}]
    BY DEF NoCrcs
  <1>3. reports' \in Seq(Report)
    BY DEF Leave
  <1>4. Typed'
    <2>1. zone' \in [Block -> UnitData] /\ mode' \in {"off", "app", "loop", "stuck"}
      BY DEF Typed, Leave
    <2>2. unit' \in Block /\ chunk' \in 0 .. Chunks /\ pc' \in Phase
      BY Numbers DEF Leave, Phase
    <2>3. seen' \in Report /\ crcs' \in [Block -> CrcValue \cup {NoCrc}]
      BY <1>1, <1>2 DEF Leave
    <2>4. link' \in BOOLEAN /\ file' \in Images \cup {NoFile}
      BY DEF Leave
    <2> QED BY <1>3, <2>1, <2>2, <2>3, <2>4 DEF Typed
  <1>5. Ranges'
    BY DEF Ranges, Leave
  <1> QED BY <1>4, <1>5 DEF Shape

LEMMA EndShape == ASSUME Typed, End PROVE Shape'
  <1>1. Leave /\ out' = out
    BY DEF End
  <1>2. out' \in Seq(Sendable) /\ Len(out') <= Depth
    BY <1>1 DEF Typed
  <1> QED BY <1>1, <1>2, LeaveShape

\* A step of the device that leaves the tool alone
LEMMA DeviceShape ==
  ASSUME Shape, tool' = tool, zone' \in [Block -> UnitData], mode' \in {"off", "app", "loop", "stuck"},
         out' \in Seq(Sendable) /\ Len(out') <= Depth, reports' \in Seq(Report),
         link' \in BOOLEAN
  PROVE  Shape'
  <1>1. Typed'
    BY DEF Shape, Typed, tool
  <1>2. Ranges'
    BY DEF Shape, Ranges, tool
  <1> QED BY <1>1, <1>2 DEF Shape

LEMMA ExecutedShape ==
  ASSUME Shape, Device \/ MutateFails \/ MutateLies \/ BootFails
  PROVE  Shape'
  <1> USE DEF Shape
  <1>1. CASE DeviceInit
    <2>1. out # <<>> /\ Answer(TRUE, <<>>) /\ zone' = zone
      BY <1>1 DEF DeviceInit, Executes
    <2>2. <<>> \in Seq(CrcValue)
      OBVIOUS
    <2> QED BY <2>1, <2>2, AnswerTyped, DeviceShape DEF Typed
  <1>2. CASE FlashCrc
    <2> DEFINE list == [i \in 1 .. Cmd.cnt |-> Crc[zone[Cmd.unit + i - 1]]]
    <2>1. out # <<>> /\ Answer(TRUE, list) /\ zone' = zone
      BY <1>2 DEF FlashCrc, Executes
    <2>2. Cmd \in Sendable
      BY <2>1, Rest1 DEF Typed, Cmd
    <2>3. Cmd.unit \in Block /\ Cmd.cnt \in Nat /\ Cmd.unit + Cmd.cnt <= N
      BY <2>2, Numbers DEF Sendable, Command
    <2>4. \A i \in 1 .. Cmd.cnt : Cmd.unit + i - 1 \in Block
      BY <2>3, Numbers DEF Block
    <2>5. \A i \in 1 .. Cmd.cnt : Crc[zone[Cmd.unit + i - 1]] \in CrcValue
      BY <2>4, SumAssumption DEF Typed
    <2>6. list \in Seq(CrcValue)
      BY <2>3, <2>5
    <2> HIDE DEF list
    <2> QED BY <2>1, <2>6, AnswerTyped, DeviceShape DEF Typed
  <1>3. CASE Mutate \/ MutateFails \/ MutateLies
    <2>1. out # <<>> /\ Cmd.op \in Mutating
      BY <1>3 DEF Mutate, MutateFails, MutateLies, Executes, Cmd, Mutating
    <2>2. PICK u \in {After, Halfway, zone[Cmd.unit]} : Becomes(u)
      BY <1>3 DEF Mutate, MutateFails, MutateLies
    <2>3. PICK ok \in BOOLEAN : Answer(ok, <<>>)
      BY <1>3 DEF Mutate, MutateFails, MutateLies
    <2>4. zone' \in [Block -> UnitData]
      BY <2>1, <2>2, AftermathTyped, BecomesTyped
    <2>5. <<>> \in Seq(CrcValue)
      OBVIOUS
    <2> QED BY <2>1, <2>3, <2>4, <2>5, AnswerTyped, DeviceShape DEF Typed
  <1>4. CASE Reboot \/ BootFails
    <2>2. out' = <<>> /\ reports' = <<>>
      BY <1>4 DEF Reboot, BootFails, Disappears
    <2>1. out' \in Seq(Sendable) /\ Len(out') <= Depth /\ reports' \in Seq(Report)
      BY <2>2 DEF Depth
    <2> QED BY <1>4, <2>1, DeviceShape DEF Reboot, BootFails, Disappears, BootTarget, Typed
  <1>5. CASE PowerOn
    BY <1>5, DeviceShape DEF PowerOn, BootTarget, Typed, usb
  <1> QED BY <1>1, <1>2, <1>3, <1>4, <1>5 DEF Device

LEMMA PowerCutShape == ASSUME Shape, PowerCut PROVE Shape'
  <1> USE DEF Shape
  <1>1. zone' \in [Block -> UnitData]
    <2>1. CASE Executes("ERASE") \/ Executes("WRITE")
      <3>1. out # <<>> /\ Cmd.op \in Mutating
        BY <2>1 DEF Executes, Cmd, Mutating
      <3> QED BY <2>1, <3>1, AftermathTyped, BecomesTyped DEF PowerCut
    <2>2. CASE ~(Executes("ERASE") \/ Executes("WRITE"))
      BY <2>2 DEF PowerCut, Typed
    <2> QED BY <2>1, <2>2
  <1>2. out' \in Seq(Sendable) /\ Len(out') <= Depth /\ reports' \in Seq(Report)
    BY DEF PowerCut, Disappears, Depth
  <1> QED BY <1>1, <1>2, DeviceShape DEF PowerCut, Disappears

LEMMA UserShape == ASSUME Shape, User PROVE Shape'
  <1> USE DEF Shape
  <1>1. CASE EnterUpdate
    BY <1>1, DeviceShape DEF EnterUpdate, Typed, usb
  <1>2. CASE StartSession
    <2> USE <1>2
    <2>1. Request("init", 0, 0) = [op |-> "INIT", unit |-> 0, cnt |-> 0, chunk |-> 0, data |-> Erased]
      BY Opcodes DEF Request
    <2>2. Request("init", 0, 0) \in Sendable
      BY <2>1, Numbers, CellAssumption DEF Sendable, Command
    <2>3. out' \in Seq(Sendable) /\ Len(out') <= Depth
      BY <2>2, Appended DEF StartSession, Typed, Depth
    <2>4. reports' \in Seq(Report)
      BY DEF StartSession
    <2>5. Typed'
      BY <2>3, <2>4 DEF StartSession, Typed, Phase
    <2>6. Ranges'
      BY DEF StartSession, Ranges
    <2> QED BY <2>5, <2>6
  <1> QED BY <1>1, <1>2 DEF User

\* The answers to CRC commands
LEMMA FetchShape ==
  ASSUME Shape, NEW p \in {"fetch", "verify"}, pc = p, Read, Rest,
         NEW g \in Behind, crcs' = Fetched(g)
  PROVE  /\ crcs' \in [Block -> CrcValue \cup {NoCrc}]
         /\ NextBatch \in 1 .. file.len
         /\ NextBatch \in Units => NextBatch \in Block /\ NextBatch < file.len
  <1>1. file \in Images /\ unit \in Block /\ unit < file.len
    BY DEF Shape, Typed, Ranges
  <1>2. NextBatch \in 1 .. file.len
    BY <1>1, BatchInside DEF NextBatch
  <1>3. crcs' \in [Block -> CrcValue \cup {NoCrc}]
    BY ReadTyped, FetchedTyped DEF Shape
  <1> QED BY <1>1, <1>2, <1>3, Numbers DEF Units, Block

LEMMA BatchShape ==
  ASSUME Shape, BatchAnswered("fetch") \/ BatchAnswered("verify") PROVE Shape'
  <1>1. PICK p \in {"fetch", "verify"} : BatchAnswered(p)
    OBVIOUS
  <1>2. pc = p /\ Read /\ Rest /\ NextBatch \in Units /\ Ask(p, NextBatch, 0)
    BY <1>1 DEF BatchAnswered, Reads
  <1>3. PICK g \in Behind : crcs' = Fetched(g)
    BY <1>1 DEF BatchAnswered
  <1>4. /\ crcs' \in [Block -> CrcValue \cup {NoCrc}]
        /\ NextBatch \in Block /\ NextBatch < file.len
    BY <1>2, <1>3, FetchShape
  <1>5. 0 \in 0 .. Chunks
    BY Numbers
  <1> QED BY <1>2, <1>4, <1>5, AskShape DEF Steady

LEMMA ComparedShape ==
  ASSUME Shape, FetchDone \/ FetchFails \/ Verified PROVE Shape'
  <1>1. Read /\ Rest /\ pc \in {"fetch", "verify"}
    BY DEF FetchDone, FetchFails, Verified, Reads
  <1>2. crcs' \in [Block -> CrcValue \cup {NoCrc}]
    <2>1. CASE FetchFails
      BY <2>1 DEF FetchFails, Shape, Typed
    <2>2. CASE FetchDone \/ Verified
      <3>1. PICK g \in Behind : crcs' = Fetched(g)
        BY <2>2 DEF FetchDone, Verified
      <3> QED BY <1>1, <3>1, FetchShape
    <2> QED BY <2>1, <2>2
  <1>3. SayOk("reboot") \/ SayOk("unfetched") \/ Ask("eraseHead", 0, 0)
    BY DEF FetchDone, FetchFails, Verified
  <1>4. 0 \in 0 .. Chunks /\ 0 \in Block
    BY Numbers
  <1> QED BY <1>1, <1>2, <1>3, <1>4, AskShape, SayOkShape DEF Steady, Leaving

\* The answers after which the tool writes
LEMMA NextDirtyShape ==
  ASSUME Shape, pc # "idle", Read, Rest, crcs' = crcs, NEW u \in Block, NextDirty(u)
  PROVE  Shape'
  <1>1. crcs' \in [Block -> CrcValue \cup {NoCrc}] /\ file \in Images
    BY DEF Shape, Typed, Ranges
  <1>2. CASE Ask("writeHead", 0, 1)
    <2>1. 0 \in Block /\ 1 \in 0 .. Chunks /\ 1 \in Chunk
      BY Numbers
    <2> QED BY <1>1, <1>2, <2>1, AskShape DEF Steady
  <1>3. ASSUME NEW j \in Dirty(u), Ask("erase", j, 0) PROVE Shape'
    <2>1. j \in 1 .. file.len - 1 /\ j \in Block /\ 0 \in 0 .. Chunks
      BY <1>1, Numbers DEF Dirty, Units, Block
    <2> QED BY <1>1, <1>3, <2>1, AskShape DEF Steady
  <1> QED BY <1>2, <1>3 DEF NextDirty

LEMMA WriteShape ==
  ASSUME Shape,
         \/ HeadErased \/ UnitErased \/ ChunkWritten("write") \/ UnitWritten
         \/ ChunkWritten("writeHead") \/ HeadWritten
  PROVE  Shape'
  <1> DEFINE Lists1 == [Block -> CrcValue \cup {NoCrc}]
  <1>1. Read /\ Rest /\ pc # "idle" /\ crcs \in Lists1
    BY DEF HeadErased, UnitErased, ChunkWritten, UnitWritten, HeadWritten, Reads, Shape, Typed
  <1>2. unit \in Block /\ 0 \in Block /\ 0 \in 0 .. Chunks /\ 1 \in Chunk /\ 1 \in 0 .. Chunks
    BY Numbers DEF Shape, Typed
  <1>3. CASE HeadErased \/ UnitWritten
    BY <1>1, <1>2, <1>3, NextDirtyShape DEF HeadErased, UnitWritten
  <1>4. CASE UnitErased
    BY <1>1, <1>2, <1>4, AskShape DEF UnitErased, Reads, Steady, Shape, Ranges
  <1>5. CASE ChunkWritten("write") \/ ChunkWritten("writeHead")
    <2>1. PICK p \in {"write", "writeHead"} : ChunkWritten(p)
      BY <1>5
    <2>2. pc = p /\ chunk < Chunks /\ Ask(p, unit, chunk + 1) /\ crcs' = crcs
      BY <2>1 DEF ChunkWritten, Reads
    <2>3. chunk + 1 \in Chunk /\ chunk + 1 \in 0 .. Chunks
      BY <2>2, Numbers DEF Shape, Typed, Ranges, Chunk
    <2>4. IF p = "write" THEN unit \in 1 .. file.len - 1 ELSE unit = 0
      BY <2>2 DEF Shape, Ranges
    <2> QED BY <1>1, <1>2, <2>2, <2>3, <2>4, AskShape DEF Steady
  <1>6. CASE HeadWritten
    <2>1. NoCrcs \in Lists1
      BY DEF NoCrcs
    <2>2. 0 < file.len
      BY <1>6, Numbers DEF HeadWritten, Reads, Shape, Ranges
    <2> QED BY <1>1, <1>2, <1>6, <2>1, <2>2, AskShape DEF HeadWritten, Steady
  <1> QED BY <1>3, <1>4, <1>5, <1>6

LEMMA EnterShape == ASSUME Shape, InitAnswered PROVE Shape'
  <1>1. 0 \in Block /\ 0 \in 0 .. Chunks /\ 0 < file.len
    BY Numbers DEF InitAnswered, Reads, Shape, Ranges
  <1> QED BY <1>1, AskShape DEF InitAnswered, Reads, Steady, Shape, Typed

LEMMA RebootShape == ASSUME Shape, RebootSent PROVE Shape'
  <1>1. file \in Images /\ pc \in Phase \ {"idle"} /\ pc \notin {"fetch", "verify", "write", "writeHead"}
    BY DEF RebootSent, Shape, Typed, Ranges
  <1>2. Request(pc, 0, 0) \in Sendable
    BY <1>1, RequestTyped, Numbers
  <1>3. out' \in Seq(Sendable) /\ Len(out') <= Depth
    BY <1>2, Appended DEF RebootSent, Sent, Shape, Typed, Depth
  <1> QED BY <1>3, LeaveShape DEF RebootSent, Shape

\* Every end of a session without a REBOOT
LEMMA Ends ==
  ASSUME InitFails \/ VerifyFails \/ BadAnswer \/ Abandon
  PROVE  End /\ pc # "idle"
  BY DEF InitFails, VerifyFails, BadAnswer, Abandon

LEMMA ShapeInit == Init => Shape
  <1> SUFFICES ASSUME Init PROVE Shape
    OBVIOUS
  <1>1. PICK img \in Images \cup {NoFile} : zone = Factory(img)
    BY DEF Init
  <1>2. img.len \in Nat /\ img.unit \in [Block -> UnitData]
    BY Numbers, BlankTyped
  <1>3. zone \in [Block -> UnitData]
    BY <1>1, <1>2, BlankTyped DEF Factory
  <1>4. NoReply \in Report /\ NoCrcs \in [Block -> CrcValue \cup {NoCrc}]
    BY DEF NoReply, Report, NoCrcs
  <1>5. out \in Seq(Sendable) /\ Len(out) <= Depth /\ reports \in Seq(Report)
    BY DEF Init, Depth
  <1>6. Typed
    BY <1>3, <1>4, <1>5, Numbers DEF Init, Typed, Phase
  <1>7. Ranges
    BY DEF Init, Ranges
  <1> QED BY <1>6, <1>7 DEF Shape

LEMMA ShapeNext == Shape /\ [Next]_vars => Shape'
  <1> SUFFICES ASSUME Shape, [Next]_vars PROVE Shape'
    OBVIOUS
  <1>1. CASE Device \/ MutateFails \/ MutateLies \/ BootFails
    BY <1>1, ExecutedShape
  <1>2. CASE PowerCut
    BY <1>2, PowerCutShape
  <1>3. CASE User
    BY <1>3, UserShape
  <1>4. CASE InitFails \/ VerifyFails \/ BadAnswer \/ Abandon
    BY <1>4, Ends, EndShape DEF Shape
  <1>5. CASE RebootSent
    BY <1>5, RebootShape
  <1>6. CASE InitAnswered
    BY <1>6, EnterShape
  <1>7. CASE BatchAnswered("fetch") \/ BatchAnswered("verify")
    BY <1>7, BatchShape
  <1>8. CASE FetchDone \/ FetchFails \/ Verified
    BY <1>8, ComparedShape
  <1>9. CASE \/ HeadErased \/ UnitErased \/ ChunkWritten("write") \/ UnitWritten
            \/ ChunkWritten("writeHead") \/ HeadWritten
    BY <1>9, WriteShape
  <1>10. CASE UNCHANGED vars
    BY <1>10 DEF vars, Shape, Typed, Ranges
  <1> QED
    BY <1>1, <1>2, <1>3, <1>4, <1>5, <1>6, <1>7, <1>8, <1>9, <1>10
    DEF Next, Tool, Fault

\* The loops of main() are where the phase says: a unit of the file, a chunk of the unit.
THEOREM HidShape == Spec => []Shape
  BY ShapeInit, ShapeNext, PTL DEF Spec

\* The types of HidUpdate, and no command reaches beyond the zone: the batches of CRC
\* commands (readCount) and the units of ERASE and WRITE stay inside it.
THEOREM HidTypeCorrect == Spec => []TypeOK
  <1>1. Shape => TypeOK
    BY TypedIsTypeOK DEF Shape
  <1> QED BY <1>1, HidShape, PTL

----------------------------------------------------------------------------
(* Lockstep *)

LEMMA Small ==
  /\ \A n \in Nat : n <= 1 => n = 0 \/ n = 1
  /\ \A n \in Nat : n <= 2 /\ n # 0 => n = 1 \/ n = 2
  /\ \A n \in Nat : n + 1 = 2 => n = 1
  /\ \A m, n \in Nat : m + n = 1 /\ n # 0 => m = 0 /\ n = 1
  OBVIOUS

LEMMA Lengths ==
  ASSUME NEW S, NEW s \in Seq(S)
  PROVE  Len(s) \in Nat /\ (s = <<>> <=> Len(s) = 0)
  OBVIOUS

LEMMA QueueLengths ==
  ASSUME Typed
  PROVE  /\ Len(out) \in Nat /\ Len(out) <= 2 /\ (out = <<>> <=> Len(out) = 0)
         /\ Len(reports) \in Nat /\ (reports = <<>> <=> Len(reports) = 0)
  <1>1. out \in Seq(Sendable) /\ Len(out) <= 2
    BY DEF Typed, Depth
  <1>2. reports \in Seq(Report)
    BY DEF Typed
  <1>3. Len(out) \in Nat /\ (out = <<>> <=> Len(out) = 0)
    BY <1>1, Lengths
  <1>4. Len(reports) \in Nat /\ (reports = <<>> <=> Len(reports) = 0)
    BY <1>2, Lengths
  <1> QED BY <1>1, <1>3, <1>4

\* What a command's execution does to the two queues
LEMMA Executed ==
  ASSUME Typed, out # <<>>, NEW ok, NEW list, Answer(ok, list)
  PROVE  /\ Len(out) = 1 \/ Len(out) = 2
         /\ Len(out') = Len(out) - 1 /\ Cmd = out[1]
         /\ out' # <<>> => Len(out) = 2 /\ Len(out') = 1 /\ out'[1] = out[2]
         /\ out' = <<>> => Len(out) = 1
         /\ ~link => reports' = reports
         /\ link => /\ Len(reports') = Len(reports) + 1 /\ reports' # <<>>
                    /\ \A i \in 1 .. Len(reports) : reports'[i] = reports[i]
                    /\ reports'[Len(reports) + 1] = [op |-> out[1].op, ok |-> ok, list |-> list]
         /\ mode' = mode /\ link' = link /\ tool' = tool
  <1>1. out \in Seq(Sendable) /\ Len(out) <= 2
    BY DEF Typed, Depth
  <1>2. (Len(out) = 1 \/ Len(out) = 2) /\ out' = Tail(out) /\ Cmd = out[1]
    <2>1. Len(out) \in Nat /\ Len(out) <= 2 /\ Len(out) # 0
      BY QueueLengths
    <2>2. Cmd = out[1]
      BY <1>1, Rest1 DEF Cmd
    <2>3. Len(out) = 1 \/ Len(out) = 2
      BY <2>1, Small
    <2> QED BY <2>2, <2>3 DEF Answer
  <1>3. /\ Len(out') = Len(out) - 1
        /\ out' # <<>> => Len(out) = 2 /\ Len(out') = 1 /\ out'[1] = out[2]
        /\ out' = <<>> => Len(out) = 1
    <2>1. /\ out' \in Seq(Sendable) /\ Len(out') = Len(out) - 1
          /\ \A i \in 1 .. Len(out) - 1 : out'[i] = out[i + 1]
      BY <1>1, <1>2, Rest1
    <2>2. out' = <<>> <=> Len(out') = 0
      BY <2>1, Lengths
    <2> QED BY <1>2, <2>1, <2>2
  <1>4. ~link => reports' = reports
    BY DEF Answer
  <1>5. link => /\ Len(reports') = Len(reports) + 1 /\ reports' # <<>>
                /\ \A i \in 1 .. Len(reports) : reports'[i] = reports[i]
                /\ reports'[Len(reports) + 1] = [op |-> out[1].op, ok |-> ok, list |-> list]
    <2> DEFINE r == [op |-> out[1].op, ok |-> ok, list |-> list]
    <2>1. link => reports' = Append(reports, r)
      BY <1>2 DEF Answer
    <2>2. reports \in Seq(Report)
      BY DEF Typed
    <2> HIDE DEF r
    <2>3. \A s \in Seq(Report) :
            /\ Len(Append(s, r)) = Len(s) + 1 /\ Append(s, r) # <<>>
            /\ \A i \in 1 .. Len(s) : Append(s, r)[i] = s[i]
            /\ Append(s, r)[Len(s) + 1] = r
      OBVIOUS
    <2>4. link => /\ Len(reports') = Len(reports) + 1 /\ reports' # <<>>
                  /\ \A i \in 1 .. Len(reports) : reports'[i] = reports[i]
                  /\ reports'[Len(reports) + 1] = r
      BY ONLY <2>1, <2>2, <2>3
    <2> QED
      BY <2>4 DEF r
  <1> QED BY <1>2, <1>3, <1>4, <1>5 DEF Answer

\* The tool, if it waits, has something to read while the device is there.
LEMMA Waits ==
  ASSUME ~SlowReplies, Typed, Read, link
  PROVE  /\ reports # <<>> /\ Got = reports[1]
         /\ Len(reports) \in Nat /\ Len(reports) >= 1
         /\ Len(reports') = Len(reports) - 1
         /\ \A i \in 1 .. Len(reports) - 1 : reports'[i] = reports[i + 1]
  BY Rest1 DEF Read, Returns, Got, Typed

\* What the tool sends while the device is there and it has read something
LEMMA SentOut ==
  ASSUME Typed, link, Len(out) <= 1, NEW c, c \in Sendable, out' = Sent(c)
  PROVE  /\ Len(out') = Len(out) + 1 /\ out' # <<>> /\ out'[Len(out')] = c
         /\ Len(out) = 1 => out'[1] = out[1]
  <1>1. out \in Seq(Sendable) /\ Len(out) \in Nat /\ out' = Append(out, c)
    BY QueueLengths DEF Sent, Depth, Typed
  <1>2. out' \in Seq(Sendable) /\ Len(out') = Len(out) + 1
    BY <1>1, Appended
  <1>3. out'[Len(out) + 1] = c /\ (Len(out) = 1 => out'[1] = out[1])
    BY <1>1, Appended
  <1>4. out' # <<>>
    BY <1>1, <1>2, Lengths
  <1> QED BY <1>2, <1>3, <1>4

LEMMA SameRequest ==
  ASSUME file' = file
  PROVE  Request(pc, unit, chunk)' = Request(pc', unit', chunk')
  BY DEF Request, BatchSize

LEMMA ExecutedLockstep ==
  ASSUME Shape, Lockstep, out # <<>>, NEW ok, NEW list, Answer(ok, list)
  PROVE  Lockstep'
  <1> USE DEF Lockstep
  <1>1. Typed /\ Len(reports) \in Nat
    BY DEF Shape, Typed
  <1>2. /\ Len(out) = 1 \/ Len(out) = 2
        /\ Len(out') = Len(out) - 1
        /\ out' # <<>> => Len(out) = 2 /\ Len(out') = 1 /\ out'[1] = out[2]
        /\ out' = <<>> => Len(out) = 1
    BY <1>1, Executed
  <1>3. ~link => reports' = reports
    BY <1>1, Executed
  <1>4. link => /\ Len(reports') = Len(reports) + 1 /\ reports' # <<>>
                /\ \A i \in 1 .. Len(reports) : reports'[i] = reports[i]
                /\ reports'[Len(reports) + 1].op = out[1].op
    <2>1. link => reports'[Len(reports) + 1] = [op |-> out[1].op, ok |-> ok, list |-> list]
      BY <1>1, Executed
    <2>2. [op |-> out[1].op, ok |-> ok, list |-> list].op = out[1].op
      OBVIOUS
    <2> QED BY <1>1, <2>1, <2>2, Executed
  <1>5. link' = link /\ pc' = pc /\ unit' = unit /\ chunk' = chunk /\ file' = file
    BY <1>1, Executed DEF tool
  <1>6. Linked'
    BY <1>3, <1>5 DEF Linked
  <1>7. Counted'
    BY <1>1, <1>2, <1>4, <1>5 DEF Counted, Pending
  <1>8. OwnLast'
    <2> SUFFICES ASSUME link, pc \in Steady
                 PROVE  /\ out' # <<>> => out'[Len(out')] = Request(pc, unit, chunk)'
                        /\ out' = <<>> => reports'[Len(reports')].op = Opcode(pc')
      BY <1>5 DEF OwnLast
    <2>1. out[Len(out)] = Request(pc, unit, chunk)
      BY DEF OwnLast
    <2>2. Request(pc, unit, chunk)' = Request(pc, unit, chunk)
      BY <1>5, SameRequest
    <2>3. CASE out' # <<>>
      BY <1>2, <2>1, <2>2, <2>3
    <2>4. CASE out' = <<>>
      <3>1. out[1] = Request(pc, unit, chunk)
        BY <1>2, <2>1, <2>4
      <3>2. Request(pc, unit, chunk).op = Opcode(pc)
        BY DEF Request
      <3> QED BY <1>1, <1>4, <1>5, <2>4, <3>1, <3>2
    <2> QED BY <2>3, <2>4
  <1>9. LateHead'
    <2> SUFFICES ASSUME link, pc = "eraseHead", Pending' = 2
                 PROVE  reports' # <<>> /\ reports'[1].op = "CRC"
      BY <1>5 DEF LateHead
    <2>1. Pending = 2
      BY <1>1, <1>2, <1>4 DEF Pending
    <2>2. CASE reports = <<>>
      BY <1>4, <2>1, <2>2 DEF LateHead
    <2>3. CASE reports # <<>>
      BY <1>1, <1>4, <2>1, <2>3 DEF LateHead, Shape, Typed
    <2> QED BY <2>2, <2>3
  <1>10. MutatingApart'
    BY <1>2 DEF MutatingApart
  <1>11. Quiet'
    <2> SUFFICES ASSUME link, ReadsZone', NEW i \in 1 .. Len(out')
                 PROVE  out'[i].op \notin Mutating
      BY <1>5 DEF Quiet
    <2>1. i = 1 /\ Len(out) = 2 /\ out'[1] = out[2]
      BY <1>2
    <2>2. CASE ReadsZone
      BY <2>1, <2>2 DEF Quiet
    <2>3. CASE ~ReadsZone
      <3>1. reports'[1].op = "INIT" /\ pc = "init"
        BY <1>5, <2>3 DEF ReadsZone
      <3>2. reports = <<>>
        BY <1>1, <1>4, <2>3, <3>1 DEF ReadsZone, Shape, Typed
      <3>3. out[1].op = "INIT"
        BY <1>4, <3>1, <3>2
      <3> QED BY <2>1, <3>3 DEF MutatingApart, Mutating
    <2> QED BY <2>2, <2>3
  <1> QED BY <1>6, <1>7, <1>8, <1>9, <1>10, <1>11

\* Without a link there is nothing to be in step with.
LEMMA UnlinkedLockstep ==
  ASSUME ~link', reports' = <<>>, pc' # "idle" => out' = <<>>, MutatingApart'
  PROVE  Lockstep'
  BY DEF Lockstep, Linked, Counted, OwnLast, LateHead, Quiet

LEMMA VanishedLockstep == ASSUME Disappears PROVE Lockstep'
  BY UnlinkedLockstep DEF Disappears, MutatingApart

LEMMA EndLockstep == ASSUME Lockstep, End PROVE Lockstep'
  BY UnlinkedLockstep DEF End, Leave, Lockstep, MutatingApart

LEMMA RebootLockstep == ASSUME Shape, Lockstep, RebootSent PROVE Lockstep'
  <1>1. ~link' /\ reports' = <<>> /\ pc' = "idle"
    BY DEF RebootSent, Leave
  <1>2. CASE link /\ Len(out) < Depth
    <2>1. pc \in Leaving /\ out' = Sent(Request(pc, 0, 0)) /\ Request(pc, 0, 0).op = "REBOOT"
      BY Opcodes DEF RebootSent, Leaving, Request
    <2>2. \A i \in 1 .. Len(out) : out[i].op \notin Mutating
      BY <1>2, <2>1 DEF Lockstep, Quiet, ReadsZone
    <2>3. Len(out') = Len(out) + 1 /\ out'[Len(out) + 1].op = "REBOOT"
      BY <1>2, <2>1 DEF Sent, Shape, Typed
    <2>4. \A i \in 1 .. Len(out) : out'[i] = out[i]
      BY <1>2, <2>1 DEF Sent, Shape, Typed
    <2>5. \A i \in 1 .. Len(out') : out'[i].op \notin Mutating
      BY <2>2, <2>3, <2>4 DEF Mutating, Shape, Typed
    <2>6. MutatingApart'
      BY <2>5 DEF MutatingApart
    <2> QED BY <1>1, <2>6, UnlinkedLockstep
  <1>3. CASE ~(link /\ Len(out) < Depth)
    <2>1. out' = out
      BY <1>3 DEF RebootSent, Sent
    <2> QED BY <1>1, <2>1, UnlinkedLockstep DEF Lockstep, MutatingApart
  <1> QED BY <1>2, <1>3

LEMMA StartLockstep == ASSUME Shape, Lockstep, StartSession PROVE Lockstep'
  <1> DEFINE c == Request("init", 0, 0)
  <1>1. c.op = "INIT"
    BY Opcodes DEF Request
  <1> HIDE DEF c
  <1>2. link' /\ reports' = <<>> /\ pc' = "init" /\ Len(reports') = 0
    BY DEF StartSession
  <1>3. out' = IF Len(out) < 2 THEN Append(out, c) ELSE out
    BY DEF StartSession, Depth, c
  <1>4. out \in Seq(Sendable) /\ Len(out) \in Nat /\ Len(out) <= 2
    BY QueueLengths DEF Shape, Typed
  <1>5. Len(out') \in Nat /\ Len(out') >= 1 /\ Len(out') <= 2
    BY <1>3, <1>4
  <1>6. Len(out') = 2 /\ Len(out) # 2 => out'[2] = c /\ out'[1] = out[1]
    BY <1>3, <1>4
  <1>7. MutatingApart'
    BY <1>1, <1>3, <1>4, <1>6 DEF Lockstep, MutatingApart, Mutating
  <1>8. Linked' /\ OwnLast' /\ LateHead' /\ Quiet'
    BY <1>2 DEF Linked, OwnLast, LateHead, Quiet, ReadsZone, Steady, Leaving
  <1>9. Counted'
    <2>1. Pending' >= 1 /\ Pending' <= 2
      BY <1>2, <1>5 DEF Pending
    <2> QED BY <1>2, <2>1 DEF Counted, Leaving
  <1> QED BY <1>7, <1>8, <1>9 DEF Lockstep

\* The tool reads an answer and sends the next command.
LEMMA AskLockstep ==
  ASSUME ~SlowReplies, Shape, Lockstep, pc # "idle", Read, Rest,
         NEW p \in Steady, NEW u, NEW k, Ask(p, u, k), link => Request(p, u, k) \in Sendable,
         link /\ p = "fetch" => ReadsZone,
         link /\ p = "eraseHead" => pc = "fetch",
         link /\ p \notin {"fetch", "eraseHead"} => Pending = 1
  PROVE  Lockstep'
  <1> USE DEF Lockstep
  <1> DEFINE c == Request(p, u, k)
  <1>1. Typed /\ out \in Seq(Sendable) /\ reports \in Seq(Report)
    BY DEF Shape, Typed
  <1>2. link' = link /\ file' = file /\ pc' = p /\ unit' = u /\ chunk' = k /\ out' = Sent(c)
    BY DEF Rest, Ask
  <1>3. Request(pc, unit, chunk)' = c /\ c.op = Opcode(p)
    BY <1>2, SameRequest DEF Request
  <1> HIDE DEF c
  <1>4. CASE ~link
    <2>1. out = <<>> /\ reports = <<>>
      BY <1>4 DEF Linked
    <2>2. out' = <<>> /\ reports' = <<>>
      BY <1>2, <1>4, <2>1 DEF Sent, Read
    <2> QED BY <1>2, <1>4, <2>2, UnlinkedLockstep DEF MutatingApart
  <1>5. CASE link
    <2>1. /\ Len(reports) \in Nat /\ Len(reports) >= 1
          /\ Len(reports') = Len(reports) - 1
          /\ \A i \in 1 .. Len(reports) - 1 : reports'[i] = reports[i + 1]
      BY <1>1, <1>5, Waits
    <2>2. Pending \in Nat /\ Pending >= 1 /\ Pending <= 2 /\ Len(out) \in Nat /\ Len(out) <= 1
      <3>1. Pending <= 2 /\ Len(out) \in Nat
        BY <1>1, <1>5, QueueLengths DEF Counted
      <3>2. Pending = Len(reports) + Len(out)
        BY DEF Pending
      <3> QED BY <2>1, <3>1, <3>2
    <2>3. /\ Len(out') = Len(out) + 1 /\ out' # <<>> /\ out'[Len(out')] = c
          /\ Len(out) = 1 => out'[1] = out[1]
      <3>1. c \in Sendable
        BY <1>5 DEF c
      <3>2. Len(out) <= 1
        BY <2>2
      <3> QED BY <1>1, <1>2, <1>5, <3>1, <3>2, SentOut
    <2>4. Pending' = Pending
      BY <2>1, <2>2, <2>3 DEF Pending
    <2>5. Linked'
      BY <1>2, <1>5 DEF Linked, Steady
    <2>6. Counted'
      BY <1>2, <1>5, <2>2, <2>4 DEF Counted, Steady, Leaving
    <2>7. OwnLast'
      BY <1>3, <2>3 DEF OwnLast
    <2>8. Len(out) = 1 => Pending = 2 /\ Len(reports) = 1
      BY <2>1, <2>2 DEF Pending
    <2>9. LateHead'
      <3> SUFFICES ASSUME p = "eraseHead", Pending = 2
                   PROVE  IF reports' = <<>> THEN out'[1].op = "CRC" ELSE reports'[1].op = "CRC"
        BY <1>2, <2>4 DEF LateHead
      <3>1. pc = "fetch" /\ pc \in Steady
        BY <1>5 DEF Steady
      <3>2. CASE Len(out) = 1
        <4>1. out[1] = Request(pc, unit, chunk)
          BY SMTT(30), <1>5, <3>1, <3>2 DEF OwnLast
        <4>2. out[1].op = "CRC"
          BY <3>1, <4>1, Opcodes DEF Request
        <4>3. reports' = <<>>
          BY <1>1, <2>1, <2>8, <3>2, ReadTyped
        <4> QED BY <2>3, <3>2, <4>2, <4>3
      <3>3. CASE Len(out) = 0
        <4>1. out = <<>> /\ Len(reports) = 2
          BY <1>1, <2>1, <3>3 DEF Pending
        <4>2. reports[2].op = "CRC"
          BY <1>5, <3>1, <4>1, Opcodes DEF OwnLast
        <4>3. reports' # <<>> /\ reports'[1] = reports[2]
          BY <2>1, <4>1
        <4> QED BY <4>2, <4>3
      <3>4. Len(out) = 0 \/ Len(out) = 1
        BY <2>2, Small
      <3> QED BY <3>2, <3>3, <3>4
    <2>10. p \in {"fetch", "verify"} => c.op = "CRC"
      BY <1>3, Opcodes
    <2>11. MutatingApart'
      <3> SUFFICES ASSUME Len(out') = 2
                   PROVE  /\ out'[1].op \in Mutating => out'[2].op = "INIT"
                          /\ out'[2].op \in Mutating => out'[1].op = "CRC"
        BY DEF MutatingApart
      <3>1. Len(out) = 1
        <4>1. Len(out) \in Nat /\ Len(out) + 1 = 2
          BY <2>2, <2>3
        <4> QED BY <4>1, Small
      <3>2. out'[1] = out[1] /\ out'[2] = c
        BY <2>3, <3>1
      <3>3. p \in {"fetch", "eraseHead"}
        BY <1>5, <2>8, <3>1
      <3>4. CASE p = "fetch"
        <4>1. out[1].op \notin Mutating
          BY <1>5, <3>1, <3>4 DEF Quiet
        <4> QED BY <2>10, <3>2, <3>4, <4>1 DEF Mutating
      <3>5. CASE p = "eraseHead"
        <4>1. out[1] = Request(pc, unit, chunk) /\ pc = "fetch"
          <5>1. out # <<>> /\ pc = "fetch"
            BY <1>1, <1>5, <3>1, <3>5, QueueLengths
          <5> QED BY <1>5, <3>1, <5>1 DEF OwnLast, Steady
        <4>2. out[1].op = "CRC"
          BY <4>1, Opcodes DEF Request
        <4> QED BY <3>2, <4>2 DEF Mutating
      <3> QED BY <3>3, <3>4, <3>5
    <2>12. Quiet'
      <3> SUFFICES ASSUME p \in {"fetch", "verify"}, NEW i \in 1 .. Len(out')
                   PROVE  out'[i].op \notin Mutating
        BY <1>2 DEF Quiet, ReadsZone, Steady, Leaving
      <3>1. CASE i = Len(out')
        BY <2>3, <2>10, <3>1 DEF Mutating
      <3>2. CASE i # Len(out')
        <4>1. i = 1 /\ Len(out) = 1 /\ out'[1] = out[1] /\ p = "fetch"
          <5>1. Len(out') = Len(out) + 1 /\ Len(out) \in Nat /\ Len(out) <= 1
            BY <2>2, <2>3
          <5>2. Len(out) = 0 \/ Len(out) = 1
            BY <5>1, Small
          <5>3. i = 1 /\ Len(out) = 1
            BY <3>2, <5>1, <5>2
          <5> QED BY <1>5, <2>3, <2>8, <5>3
        <4> QED BY <1>5, <4>1 DEF Quiet
      <3> QED BY <3>1, <3>2
    <2> QED BY <2>5, <2>6, <2>7, <2>9, <2>11, <2>12
  <1> QED BY <1>4, <1>5

LEMMA SayOkLockstep ==
  ASSUME ~SlowReplies, Shape, Lockstep, pc \in {"fetch", "verify"}, Read, Rest,
         NEW p \in Leaving, SayOk(p)
  PROVE  Lockstep'
  <1> USE DEF Lockstep
  <1>1. Typed /\ out' = out /\ link' = link /\ pc' = p /\ p \notin Steady /\ p # "idle"
    BY DEF Shape, SayOk, Rest, Leaving, Steady
  <1>2. CASE ~link
    <2>1. out = <<>> /\ reports' = <<>>
      BY <1>2 DEF Linked, Read
    <2> QED BY <1>1, <1>2, <2>1, UnlinkedLockstep DEF MutatingApart
  <1>3. CASE link
    <2>1. Len(reports') = Len(reports) - 1 /\ Len(reports) \in Nat /\ Len(out) \in Nat
      BY <1>1, <1>3, Waits DEF Typed
    <2>2. Counted'
      BY <1>1, <1>3, <2>1 DEF Counted, Pending, Leaving
    <2>3. Linked' /\ OwnLast' /\ LateHead' /\ MutatingApart'
      BY <1>1, <1>3 DEF Linked, OwnLast, LateHead, MutatingApart, Steady
    <2>4. Quiet'
      BY <1>1, <1>3 DEF Quiet, ReadsZone
    <2> QED BY <2>2, <2>3, <2>4
  <1> QED BY <1>2, <1>3

\* An answer the tool accepts while the device is there
LEMMA Accepted ==
  ASSUME ~SlowReplies, Shape, Read, link, NEW op, Good(op)
  PROVE  reports # <<>> /\ reports[1].op = op /\ reports[1].ok /\ Got = reports[1]
  BY Waits DEF Shape, Good

LEMMA EnterLockstep ==
  ASSUME ~SlowReplies, Shape, Lockstep, InitAnswered PROVE Lockstep'
  <1>1. pc = "init" /\ Read /\ Rest /\ Good("INIT") /\ Ask("fetch", 0, 0)
    BY DEF InitAnswered, Reads
  <1>2. link => ReadsZone
    BY <1>1, Accepted DEF ReadsZone
  <1>3. file \in Images /\ 0 \in Block /\ 0 \in 0 .. Chunks /\ 0 < file.len
    BY <1>1, Numbers DEF Shape, Ranges
  <1>4. Request("fetch", 0, 0) \in Sendable
    BY <1>3, RequestTyped DEF Phase
  <1> QED BY <1>1, <1>2, <1>4, AskLockstep DEF Steady

LEMMA BatchLockstep ==
  ASSUME ~SlowReplies, Shape, Lockstep, BatchAnswered("fetch") \/ BatchAnswered("verify")
  PROVE  Lockstep'
  <1>1. PICK p \in {"fetch", "verify"} : BatchAnswered(p)
    OBVIOUS
  <1>2. pc = p /\ Read /\ Rest /\ NextBatch \in Units /\ Ask(p, NextBatch, 0)
    BY <1>1 DEF BatchAnswered, Reads
  <1>3. NextBatch \in Block /\ NextBatch < file.len
    <2>1. PICK g \in Behind : crcs' = Fetched(g)
      BY <1>1 DEF BatchAnswered
    <2> QED BY <1>2, <2>1, FetchShape
  <1>4. file \in Images /\ 0 \in 0 .. Chunks
    BY <1>2, Numbers DEF Shape, Ranges
  <1>5. Request(p, NextBatch, 0) \in Sendable
    BY <1>3, <1>4, RequestTyped DEF Phase
  <1>6. link => ReadsZone
    BY <1>2 DEF ReadsZone
  <1>7. link /\ p = "verify" => Pending = 1
    BY <1>2 DEF Lockstep, Counted
  <1> QED BY <1>2, <1>5, <1>6, <1>7, AskLockstep DEF Steady

LEMMA ComparedLockstep ==
  ASSUME ~SlowReplies, Shape, Lockstep, FetchDone \/ FetchFails \/ Verified
  PROVE  Lockstep'
  <1>1. Read /\ Rest /\ pc \in {"fetch", "verify"}
    BY DEF FetchDone, FetchFails, Verified, Reads
  <1>2. CASE SayOk("reboot") \/ SayOk("unfetched")
    BY <1>1, <1>2, SayOkLockstep DEF Leaving
  <1>3. CASE Ask("eraseHead", 0, 0) /\ pc = "fetch"
    <2>1. file \in Images /\ 0 \in Block /\ 0 \in 0 .. Chunks
      BY <1>1, Numbers DEF Shape, Ranges
    <2>2. Request("eraseHead", 0, 0) \in Sendable
      BY <2>1, RequestTyped DEF Phase
    <2> QED BY <1>1, <1>3, <2>2, AskLockstep DEF Steady
  <1> QED BY <1>2, <1>3 DEF FetchDone, FetchFails, Verified, Reads

\* Who gets the head erased is alone.
LEMMA WriterAlone ==
  ASSUME ~SlowReplies, Shape, Lockstep, link,
         \/ HeadErased \/ UnitErased \/ ChunkWritten("write") \/ UnitWritten
         \/ ChunkWritten("writeHead") \/ HeadWritten
  PROVE  Pending = 1
  <1>1. CASE HeadErased
    <2>1. pc = "eraseHead" /\ Read /\ Good("ERASE")
      BY <1>1 DEF HeadErased, Reads
    <2>2. reports # <<>> /\ reports[1].op = "ERASE"
      BY <2>1, Accepted
    <2>3. Pending # 2
      BY <2>1, <2>2 DEF Lockstep, LateHead
    <2>4. Pending >= 1 /\ Pending <= 2
      BY <2>1 DEF Lockstep, Counted, Leaving
    <2>5. Pending \in Nat
      BY QueueLengths DEF Pending, Shape
    <2> QED BY <2>3, <2>4, <2>5
  <1>2. CASE pc \in {"erase", "write", "writeHead"}
    BY <1>2 DEF Lockstep, Counted
  <1> QED BY <1>1, <1>2 DEF UnitErased, ChunkWritten, UnitWritten, HeadWritten, Reads

LEMMA NextDirtyLockstep ==
  ASSUME ~SlowReplies, Shape, Lockstep, pc # "idle", Read, Rest, link => Pending = 1,
         NEW u \in Block, NextDirty(u)
  PROVE  Lockstep'
  <1>1. file \in Images /\ file.len \in 1 .. N
    BY Numbers DEF Shape, Ranges
  <1>2. CASE Ask("writeHead", 0, 1)
    <2>1. 0 \in Block /\ 1 \in 0 .. Chunks /\ 1 \in Chunk
      BY Numbers
    <2>2. Request("writeHead", 0, 1) \in Sendable
      BY <1>1, <2>1, RequestTyped DEF Phase
    <2> QED BY <1>2, <2>2, AskLockstep DEF Steady
  <1>3. ASSUME NEW j \in Dirty(u), Ask("erase", j, 0) PROVE Lockstep'
    <2>1. j \in Block /\ 0 \in 0 .. Chunks
      BY <1>1, Numbers DEF Dirty, Units, Block
    <2>2. Request("erase", j, 0) \in Sendable
      BY <1>1, <2>1, RequestTyped DEF Phase
    <2> QED BY <1>3, <2>2, AskLockstep DEF Steady
  <1> QED BY <1>2, <1>3 DEF NextDirty

LEMMA WriteLockstep ==
  ASSUME ~SlowReplies, Shape, Lockstep,
         \/ HeadErased \/ UnitErased \/ ChunkWritten("write") \/ UnitWritten
         \/ ChunkWritten("writeHead") \/ HeadWritten
  PROVE  Lockstep'
  <1>1. Read /\ Rest /\ pc # "idle"
    BY DEF HeadErased, UnitErased, ChunkWritten, UnitWritten, HeadWritten, Reads
  <1>2. unit \in Block /\ 0 \in Block /\ 0 \in 0 .. Chunks /\ 1 \in Chunk /\ 1 \in 0 .. Chunks
    BY Numbers DEF Shape, Typed
  <1>3. file \in Images /\ 0 < file.len
    BY <1>1, Numbers DEF Shape, Ranges
  <1>4. link => Pending = 1
    BY WriterAlone
  <1>5. CASE HeadErased \/ UnitWritten
    BY <1>1, <1>2, <1>4, <1>5, NextDirtyLockstep DEF HeadErased, UnitWritten
  <1>6. CASE UnitErased
    <2>1. Request("write", unit, 1) \in Sendable
      BY <1>2, <1>3, RequestTyped DEF Phase
    <2> QED BY <1>1, <1>4, <1>6, <2>1, AskLockstep DEF UnitErased, Steady
  <1>7. CASE ChunkWritten("write") \/ ChunkWritten("writeHead")
    <2>1. PICK p \in {"write", "writeHead"} : ChunkWritten(p)
      BY <1>7
    <2>2. pc = p /\ chunk < Chunks /\ Ask(p, unit, chunk + 1)
      BY <2>1 DEF ChunkWritten, Reads
    <2>3. chunk + 1 \in Chunk /\ chunk + 1 \in 0 .. Chunks
      BY <2>2, Numbers DEF Shape, Typed, Ranges, Chunk
    <2>4. Request(p, unit, chunk + 1) \in Sendable
      BY <1>2, <1>3, <2>3, RequestTyped DEF Phase
    <2> QED BY <1>1, <1>4, <2>2, <2>4, AskLockstep DEF Steady
  <1>8. CASE HeadWritten
    <2>1. Request("verify", 0, 0) \in Sendable
      BY <1>2, <1>3, RequestTyped DEF Phase
    <2> QED BY <1>1, <1>4, <1>8, <2>1, AskLockstep DEF HeadWritten, Steady
  <1> QED BY <1>5, <1>6, <1>7, <1>8

\* Every step that executes a command
LEMMA Executions ==
  ASSUME DeviceInit \/ FlashCrc \/ Mutate \/ MutateFails \/ MutateLies
  PROVE  out # <<>> /\ \E ok, list : Answer(ok, list)
  BY DEF DeviceInit, FlashCrc, Mutate, MutateFails, MutateLies, Executes

LEMMA SameLockstep == ASSUME Lockstep, usb' = usb, tool' = tool PROVE Lockstep'
  <1>1. out' = out /\ reports' = reports /\ link' = link /\ pc' = pc /\ unit' = unit
        /\ chunk' = chunk /\ file' = file
    BY DEF usb, tool
  <1>2. Request(pc, unit, chunk)' = Request(pc, unit, chunk)
    BY <1>1, SameRequest
  <1>3. OwnLast'
    BY <1>1, <1>2 DEF OwnLast, Lockstep
  <1>4. Linked' /\ Counted' /\ LateHead' /\ MutatingApart'
    BY <1>1 DEF Lockstep, Linked, Counted, Pending, LateHead, MutatingApart
  <1>5. Quiet'
    BY <1>1 DEF Lockstep, Quiet, ReadsZone
  <1> QED BY <1>3, <1>4, <1>5 DEF Lockstep

LEMMA LockstepInit == Init => Lockstep
  <1> SUFFICES ASSUME Init PROVE Lockstep
    OBVIOUS
  <1>1. ~link /\ reports = <<>> /\ out = <<>>
    BY DEF Init
  <1> QED BY <1>1
      DEF Lockstep, Linked, Counted, OwnLast, LateHead, MutatingApart, Quiet

LEMMA LockstepNext ==
  ASSUME ~SlowReplies, Shape, Lockstep, [Next]_vars PROVE Lockstep'
  <1>1. CASE DeviceInit \/ FlashCrc \/ Mutate \/ MutateFails \/ MutateLies
    BY <1>1, Executions, ExecutedLockstep
  <1>2. CASE Reboot \/ BootFails \/ PowerCut
    BY <1>2, VanishedLockstep DEF Reboot, BootFails, PowerCut
  <1>3. CASE PowerOn \/ EnterUpdate
    BY <1>3, SameLockstep DEF PowerOn, EnterUpdate
  <1>4. CASE StartSession
    BY <1>4, StartLockstep
  <1>5. CASE InitFails \/ VerifyFails \/ BadAnswer \/ Abandon
    BY <1>5, Ends, EndLockstep
  <1>6. CASE RebootSent
    BY <1>6, RebootLockstep
  <1>7. CASE InitAnswered
    BY <1>7, EnterLockstep
  <1>8. CASE BatchAnswered("fetch") \/ BatchAnswered("verify")
    BY <1>8, BatchLockstep
  <1>9. CASE FetchDone \/ FetchFails \/ Verified
    BY <1>9, ComparedLockstep
  <1>10. CASE \/ HeadErased \/ UnitErased \/ ChunkWritten("write") \/ UnitWritten
             \/ ChunkWritten("writeHead") \/ HeadWritten
    BY <1>10, WriteLockstep
  <1>11. CASE UNCHANGED vars
    BY <1>11, SameLockstep DEF vars, usb, tool
  <1> QED
    BY <1>1, <1>2, <1>3, <1>4, <1>5, <1>6, <1>7, <1>8, <1>9, <1>10, <1>11
    DEF Next, Device, Tool, User, Fault

\* Tool and device stay in step although no report carries a number: whoever gets
\* the head erased has nothing of an earlier session left before it.
THEOREM HidLockstep == ASSUME ~SlowReplies PROVE Spec => [](Shape /\ Lockstep)
  <1>1. Init => Shape /\ Lockstep
    BY ShapeInit, LockstepInit
  <1>2. Shape /\ Lockstep /\ [Next]_vars => (Shape /\ Lockstep)'
    BY ShapeNext, LockstepNext
  <1> QED BY <1>1, <1>2, PTL DEF Spec

----------------------------------------------------------------------------
(* The lists *)

\* A question put by whoever is alone
LEMMA AskAlone ==
  ASSUME ~SlowReplies, Shape, Lockstep, Read, Rest, link, Alone',
         NEW p \in Steady, NEW u, NEW k, Ask(p, u, k), Request(p, u, k) \in Sendable
  PROVE  /\ Alone /\ out = <<>> /\ Len(reports) = 1
         /\ reports' = <<>> /\ out' = <<Request(p, u, k)>>
  <1> DEFINE c == Request(p, u, k)
  <1>1. /\ Typed /\ out \in Seq(Sendable) /\ Len(out) \in Nat
        /\ (out = <<>> <=> Len(out) = 0)
    BY QueueLengths DEF Shape, Typed
  <1>2. Len(reports) \in Nat /\ Len(reports) >= 1 /\ Len(reports') = Len(reports) - 1
    BY <1>1, Waits
  <1>3. out' = Sent(c) /\ c \in Sendable /\ link'
    BY DEF Ask, Rest
  <1> HIDE DEF c
  <1>4. Pending <= 2
    BY DEF Lockstep, Counted
  <1>5. Len(out) <= 1
    BY <1>1, <1>2, <1>4 DEF Pending
  <1>6. Len(out') = Len(out) + 1
    BY <1>1, <1>3, <1>5, SentOut
  <1>7. Len(reports') + Len(out') = 1
    BY DEF Alone, Pending
  <1>8. Len(out) = 0 /\ Len(reports) = 1
    BY <1>1, <1>2, <1>6, <1>7
  <1>9. out = <<>> /\ Len(reports') = 0
    BY <1>1, <1>2, <1>8
  <1>10. reports' = <<>>
    BY <1>1, <1>9, ReadTyped, Lengths
  <1>11. out' = <<c>>
    BY <1>3, <1>9 DEF Sent, Depth
  <1>12. Alone
    BY <1>8 DEF Alone, Pending
  <1> QED BY <1>8, <1>9, <1>10, <1>11, <1>12 DEF c

\* What whoever is alone has in the device is the command just sent.
LEMMA AloneOut ==
  ASSUME Shape, Lockstep, Alone, out # <<>>
  PROVE  /\ Len(out) = 1 /\ reports = <<>>
         /\ pc \in Steady => Cmd = Request(pc, unit, chunk) /\ out[1] = Cmd
  <1>1. /\ Len(out) \in Nat /\ Len(out) # 0 /\ Len(reports) \in Nat
        /\ (reports = <<>> <=> Len(reports) = 0)
    BY QueueLengths DEF Shape
  <1>2. Len(reports) + Len(out) = 1
    BY DEF Alone, Pending
  <1>3. Len(out) = 1 /\ Len(reports) = 0
    BY <1>1, <1>2, Small
  <1>4. Cmd = out[1]
    BY Rest1 DEF Cmd, Shape, Typed
  <1>5. pc \in Steady => out[1] = Request(pc, unit, chunk)
    BY <1>3 DEF Lockstep, OwnLast, Alone
  <1> QED BY <1>1, <1>3, <1>4, <1>5

\* An execution keeps whoever is alone alone.
LEMMA ExecutedAlone ==
  ASSUME Shape, Lockstep, out # <<>>, NEW ok, NEW list, Answer(ok, list), Alone'
  PROVE  /\ Alone /\ pc' = pc /\ unit' = unit /\ chunk' = chunk /\ file' = file /\ crcs' = crcs
         /\ Len(out) = 1 /\ reports = <<>> /\ out' = <<>>
         /\ Len(reports') = 1 /\ reports' # <<>>
         /\ reports'[1] = [op |-> out[1].op, ok |-> ok, list |-> list]
  <1>1. Typed
    BY DEF Shape
  <1>2. /\ Len(out) \in Nat /\ Len(reports) \in Nat
        /\ (reports = <<>> <=> Len(reports) = 0)
    BY <1>1, QueueLengths
  <1>3. link' /\ link' = link /\ tool' = tool /\ Len(reports') + Len(out') = 1
    BY <1>1, Executed DEF Alone, Pending
  <1>4. Len(out') = Len(out) - 1
    BY <1>1, Executed
  <1>5. Len(reports') = Len(reports) + 1
    BY <1>1, <1>3, Executed
  <1>6. Len(reports) + Len(out) = 1
    BY <1>2, <1>3, <1>4, <1>5
  <1>7. Alone
    BY <1>3, <1>6 DEF Alone, Pending
  <1>8. Len(out) = 1 /\ reports = <<>> /\ Len(reports) = 0
    BY <1>2, <1>7, AloneOut
  <1>9. reports'[1] = [op |-> out[1].op, ok |-> ok, list |-> list] /\ reports' # <<>>
    <2>1. /\ reports'[Len(reports) + 1] = [op |-> out[1].op, ok |-> ok, list |-> list]
          /\ reports' # <<>>
      BY <1>1, <1>3, Executed
    <2> QED BY <1>8, <2>1
  <1>10. out' = <<>>
    <2>1. out' # <<>> => Len(out) = 2
      BY <1>1, Executed
    <2> QED BY <1>8, <2>1
  <1> QED BY <1>3, <1>5, <1>7, <1>8, <1>9, <1>10 DEF tool

\* The command in front changes at most its unit.
LEMMA Mutated ==
  ASSUME Typed, Mutate \/ MutateFails \/ MutateLies
  PROVE  /\ out # <<>> /\ Cmd = out[1] /\ Cmd \in Sendable
         /\ Cmd.op \in Mutating /\ Cmd.unit \in Block
         /\ \E ok \in BOOLEAN : Answer(ok, <<>>)
         /\ \A b \in Block : b # Cmd.unit => zone'[b] = zone[b]
  <1>1. out # <<>> /\ Cmd.op \in Mutating
    BY DEF Mutate, MutateFails, MutateLies, Executes, Cmd, Mutating
  <1>2. Cmd \in Sendable /\ Cmd = out[1]
    BY <1>1, Rest1 DEF Typed, Cmd
  <1>3. Cmd.unit \in Block
    BY <1>1, AftermathTyped
  <1>4. PICK w : Becomes(w)
    BY DEF Mutate, MutateFails, MutateLies
  <1>5. \A b \in Block : b # Cmd.unit => zone'[b] = zone[b]
    BY <1>4 DEF Becomes, Typed
  <1>6. \E ok \in BOOLEAN : Answer(ok, <<>>)
    BY DEF Mutate, MutateFails, MutateLies
  <1> QED BY <1>1, <1>2, <1>3, <1>5, <1>6

\* The list read by whoever is alone is true.
LEMMA FetchedTrue ==
  ASSUME ~SlowReplies, Shape, Lists, Alone, Read, NEW p \in {"fetch", "verify"}, pc = p,
         NEW g \in Behind, NEW b \in Units, b < NextBatch
  PROVE  Fetched(g)[b] = Crc[zone[b]]
  <1>1. Typed /\ link
    BY DEF Shape, Alone
  <1>2. reports # <<>> /\ Got = reports[1]
    BY <1>1, Waits
  <1>3. TrueReport
    BY <1>2 DEF Lists
  <1>4. b \in Block /\ file \in Images /\ unit \in Block /\ unit < file.len /\ b \in Nat
    BY Numbers DEF Shape, Typed, Ranges, Units, Block
  <1>5. BatchSize(unit) \in 1 .. MaxCrcList
    BY <1>4, BatchInside
  <1>6. CASE b < unit
    <2>1. Fetched(g)[b] = crcs[b]
      BY <1>4, <1>6 DEF Fetched, Block
    <2> QED BY <1>6, <2>1 DEF Lists, Fresh
  <1>7. CASE b >= unit
    <2>1. b \in unit .. NextBatch - 1
      BY <1>4, <1>5, <1>7, Numbers DEF NextBatch, Block
    <2>2. b - unit + 1 \in 1 .. BatchSize(unit)
      BY <1>4, <1>5, <2>1, Numbers DEF NextBatch, Block
    <2>3. Got.list \in Seq(CrcValue)
      BY <1>1, ReadTyped DEF Report
    <2>4. b - unit + 1 \in DOMAIN Got.list
      BY <1>2, <1>3, <2>2, <2>3 DEF TrueReport
    <2>5. Fetched(g)[b] = Got.list[b - unit + 1]
      BY <1>4, <2>1, <2>4 DEF Fetched
    <2>6. Got.list[b - unit + 1] = Crc[zone[unit + (b - unit + 1) - 1]]
      BY <1>2, <1>3, <2>2 DEF TrueReport
    <2>7. unit + (b - unit + 1) - 1 = b
      BY <1>4, Numbers DEF Block
    <2> QED BY <2>5, <2>6, <2>7
  <1> QED BY <1>4, <1>6, <1>7, Numbers DEF Block

\* The device answers, and what it changes is the unit of the command in front.
LEMMA ExecutedLists ==
  ASSUME Shape, Lockstep, Lists,
         DeviceInit \/ FlashCrc \/ Mutate \/ MutateFails \/ MutateLies
  PROVE  Lists'
  <1> SUFFICES ASSUME Alone' PROVE Lists'
    BY DEF Lists
  <1>1. out # <<>>
    BY Executions
  <1>2. PICK ok, list : Answer(ok, list)
    BY Executions
  <1>3. /\ Alone /\ pc' = pc /\ unit' = unit /\ file' = file /\ crcs' = crcs
        /\ Len(out) = 1 /\ reports = <<>>
    BY <1>1, <1>2, ExecutedAlone
  <1>4. pc \in Steady => Cmd = Request(pc, unit, chunk)
    BY <1>1, <1>3, AloneOut
  <1>5. Typed /\ link /\ Units' = Units /\ Units \subseteq Block
    BY <1>3, Numbers DEF Shape, Alone, Units, Typed, Block, NoFile
  <1>6. CASE DeviceInit
    <2>1. Cmd.op = "INIT" /\ zone' = zone
      BY <1>6 DEF DeviceInit, Executes, Cmd
    <2>2. pc \notin {"fetch", "verify"}
      BY <1>4, <2>1, Opcodes DEF Request, Steady
    <2> QED BY <1>3, <1>5, <2>1, <2>2 DEF Lists, Fresh
  <1>7. CASE FlashCrc
    <2> DEFINE l == [i \in 1 .. Cmd.cnt |-> Crc[zone[Cmd.unit + i - 1]]]
    <2>1. Answer(TRUE, l) /\ zone' = zone
      BY <1>7 DEF FlashCrc
    <2>2. CASE pc \in {"fetch", "verify"}
      <3>1. Cmd.cnt = BatchSize(unit) /\ Cmd.unit = unit
        BY <1>4, <2>2 DEF Request, Steady
      <3>2. reports'[1].list = l
        <4> HIDE DEF l
        <4>1. reports'[1] = [op |-> out[1].op, ok |-> TRUE, list |-> l]
          BY <1>1, <2>1, ExecutedAlone
        <4> QED BY <4>1
      <3>3. BatchSize(unit) \in Nat /\ BatchSize(unit)' = BatchSize(unit)
        BY <1>3, <2>2, BatchInside, Numbers DEF Shape, Typed, Ranges, BatchSize
      <3>4. TrueReport'
        <4>1. Len(l) = BatchSize(unit)
          BY <3>1, <3>3
        <4>2. \A i \in 1 .. BatchSize(unit) : l[i] = Crc[zone[unit + i - 1]]
          BY <3>1
        <4> HIDE DEF l
        <4> QED BY <1>3, <2>1, <3>2, <3>3, <4>1, <4>2 DEF TrueReport
      <3> QED BY <1>3, <1>5, <2>1, <2>2, <3>4 DEF Lists, Fresh
    <2>3. CASE pc \notin {"fetch", "verify"}
      BY <1>3, <1>5, <2>1, <2>3 DEF Lists, Fresh
    <2> QED BY <2>2, <2>3
  <1>8. CASE Mutate \/ MutateFails \/ MutateLies
    <2>1. /\ Cmd = out[1] /\ Cmd.op \in Mutating /\ Cmd.unit \in Block
          /\ \A b \in Block : b # Cmd.unit => zone'[b] = zone[b]
      BY <1>5, <1>8, Mutated
    <2>2. pc \notin {"fetch", "verify"}
      BY <1>3, <1>5, <2>1 DEF Lockstep, Quiet, ReadsZone
    <2>3. pc \in {"eraseHead", "erase", "write"} => Cmd.unit = unit
      BY <1>4 DEF Request, Steady
    <2>4. pc = "eraseHead" => unit = 0
      BY DEF Shape, Ranges
    <2>5. unit \in Nat /\ \A b \in Units : b \in Nat
      BY <1>5, Numbers DEF Typed, Block
    <2> QED BY <1>3, <1>5, <2>1, <2>2, <2>3, <2>4, <2>5 DEF Lists, Fresh
  <1> QED BY <1>6, <1>7, <1>8

\* Nothing is said of the lists of a session that is not asking.
LEMMA NoLists ==
  ASSUME ~link' \/ pc' \in {"idle", "init", "writeHead", "reboot", "unfetched"}
  PROVE  Lists'
  BY DEF Lists, Alone

\* The questions of the tool
LEMMA AskLists ==
  ASSUME ~SlowReplies, Shape, Lockstep, Lists, Read, Rest,
         NEW p \in Steady, NEW u, NEW k, Ask(p, u, k), link => Request(p, u, k) \in Sendable,
         Alone /\ p \in {"fetch", "verify"} => \A b \in Units : b < u => crcs'[b] = Crc[zone[b]],
         Alone /\ p = "eraseHead" => \A b \in Units : b > 0 => crcs'[b] = Crc[zone[b]],
         Alone /\ p \in {"erase", "write"} => \A b \in Units : b > u => crcs'[b] = Crc[zone[b]]
  PROVE  Lists'
  <1> SUFFICES ASSUME Alone' PROVE Lists'
    BY DEF Lists
  <1>1. link
    BY DEF Alone, Rest
  <1>2. Alone /\ reports' = <<>>
    BY <1>1, AskAlone
  <1>3. pc' = p /\ unit' = u /\ zone' = zone /\ Units' = Units
    BY DEF Ask, Rest, Units
  <1> QED BY <1>2, <1>3 DEF Lists, Fresh

LEMMA BatchLists ==
  ASSUME ~SlowReplies, Shape, Lockstep, Lists, BatchAnswered("fetch") \/ BatchAnswered("verify")
  PROVE  Lists'
  <1>1. PICK p \in {"fetch", "verify"} : BatchAnswered(p)
    OBVIOUS
  <1>2. pc = p /\ Read /\ Rest /\ NextBatch \in Units /\ Ask(p, NextBatch, 0)
    BY <1>1 DEF BatchAnswered, Reads
  <1>3. PICK g \in Behind : crcs' = Fetched(g)
    BY <1>1 DEF BatchAnswered
  <1>4. NextBatch \in Block /\ NextBatch < file.len
    BY <1>2, <1>3, FetchShape
  <1>5. Request(p, NextBatch, 0) \in Sendable
    BY <1>2, <1>4, RequestTyped, Numbers DEF Phase, Shape, Ranges
  <1>6. Alone => \A b \in Units : b < NextBatch => crcs'[b] = Crc[zone[b]]
    BY <1>2, <1>3, FetchedTrue
  <1> QED BY <1>2, <1>5, <1>6, AskLists DEF Steady

LEMMA FetchDoneLists ==
  ASSUME ~SlowReplies, Shape, Lockstep, Lists, FetchDone PROVE Lists'
  <1>1. pc = "fetch" /\ Read /\ Rest /\ NextBatch \notin Units
    BY DEF FetchDone, Reads
  <1>2. PICK g \in Behind : crcs' = Fetched(g)
    BY DEF FetchDone
  <1>3. CASE SayOk("reboot")
    BY <1>3, NoLists DEF SayOk
  <1>4. CASE Ask("eraseHead", 0, 0)
    <2>1. file \in Images /\ 0 \in Block /\ 0 \in 0 .. Chunks
      BY <1>1, Numbers DEF Shape, Ranges
    <2>2. Request("eraseHead", 0, 0) \in Sendable
      BY <2>1, RequestTyped DEF Phase
    <2>3. NextBatch \in 1 .. file.len
      BY <1>1, <1>2, FetchShape
    <2>4. \A b \in Units : b < NextBatch
      BY <1>1, <2>1, <2>3, Numbers DEF Units
    <2>5. Alone => \A b \in Units : crcs'[b] = Crc[zone[b]]
      BY <1>1, <1>2, <2>4, FetchedTrue
    <2> QED BY <1>1, <1>4, <2>2, <2>5, AskLists DEF Steady
  <1> QED BY <1>3, <1>4 DEF FetchDone

LEMMA NextDirtyLists ==
  ASSUME ~SlowReplies, Shape, Lockstep, Lists, pc # "idle", Read, Rest, crcs' = crcs,
         NEW u \in Block, Alone => \A b \in Units : b > u => Fresh(b), NextDirty(u)
  PROVE  Lists'
  <1>1. CASE Ask("writeHead", 0, 1)
    BY <1>1, NoLists DEF Ask
  <1>2. ASSUME NEW j \in Dirty(u), Ask("erase", j, 0) PROVE Lists'
    <2>1. file \in Images /\ file.len \in 1 .. N /\ u \in Nat
      BY Numbers DEF Shape, Ranges, Block
    <2>2. j \in Block /\ 0 \in 0 .. Chunks /\ j > u /\ j \in Nat
      BY <2>1, Numbers DEF Dirty, Units, Block
    <2>3. Request("erase", j, 0) \in Sendable
      BY <2>1, <2>2, RequestTyped DEF Phase
    <2>4. Alone => \A b \in Units : b > j => crcs'[b] = Crc[zone[b]]
      BY <2>1, <2>2 DEF Fresh, Units
    <2> QED BY <1>2, <2>3, <2>4, AskLists DEF Steady
  <1> QED BY <1>1, <1>2 DEF NextDirty

LEMMA WriteLists ==
  ASSUME ~SlowReplies, Shape, Lockstep, Lists,
         \/ HeadErased \/ UnitErased \/ ChunkWritten("write") \/ UnitWritten
         \/ ChunkWritten("writeHead") \/ HeadWritten
  PROVE  Lists'
  <1>1. Read /\ Rest /\ pc # "idle"
    BY DEF HeadErased, UnitErased, ChunkWritten, UnitWritten, HeadWritten, Reads
  <1>2. unit \in Block /\ 0 \in Block /\ 0 \in 0 .. Chunks /\ 1 \in Chunk /\ 1 \in 0 .. Chunks
    BY Numbers DEF Shape, Typed
  <1>3. file \in Images /\ 0 < file.len
    BY <1>1, Numbers DEF Shape, Ranges
  <1>4. CASE HeadErased
    BY <1>1, <1>2, <1>4, NextDirtyLists DEF HeadErased, Reads, Lists
  <1>5. CASE UnitWritten
    BY <1>1, <1>2, <1>5, NextDirtyLists DEF UnitWritten, Reads, Lists
  <1>6. CASE UnitErased
    <2>1. Request("write", unit, 1) \in Sendable
      BY <1>2, <1>3, RequestTyped DEF Phase
    <2>2. pc = "erase" /\ Ask("write", unit, 1) /\ crcs' = crcs
      BY <1>6 DEF UnitErased, Reads
    <2>3. Alone => \A b \in Units : b > unit => crcs'[b] = Crc[zone[b]]
      BY <2>2 DEF Lists, Fresh
    <2> QED BY <1>1, <2>1, <2>2, <2>3, AskLists DEF Steady
  <1>7. CASE ChunkWritten("write")
    <2>1. pc = "write" /\ chunk < Chunks /\ Ask("write", unit, chunk + 1) /\ crcs' = crcs
      BY <1>7 DEF ChunkWritten, Reads
    <2>2. chunk + 1 \in Chunk /\ chunk + 1 \in 0 .. Chunks
      BY <2>1, Numbers DEF Shape, Typed, Ranges, Chunk
    <2>3. Request("write", unit, chunk + 1) \in Sendable
      BY <1>2, <1>3, <2>2, RequestTyped DEF Phase
    <2>4. Alone => \A b \in Units : b > unit => crcs'[b] = Crc[zone[b]]
      BY <2>1 DEF Lists, Fresh
    <2> QED BY <1>1, <2>1, <2>3, <2>4, AskLists DEF Steady
  <1>8. CASE ChunkWritten("writeHead")
    BY <1>8, NoLists DEF ChunkWritten, Ask
  <1>9. CASE HeadWritten
    <2>1. Request("verify", 0, 0) \in Sendable
      BY <1>2, <1>3, RequestTyped DEF Phase
    <2>2. \A b \in Units : ~(b < 0)
      BY Numbers DEF Units
    <2> QED BY <1>1, <1>9, <2>1, <2>2, AskLists DEF HeadWritten, Steady
  <1> QED BY <1>4, <1>5, <1>6, <1>7, <1>8, <1>9

LEMMA EnterLists ==
  ASSUME ~SlowReplies, Shape, Lockstep, Lists, InitAnswered PROVE Lists'
  <1>1. file \in Images /\ 0 \in Block /\ 0 \in 0 .. Chunks /\ 0 < file.len
    BY Numbers DEF InitAnswered, Reads, Shape, Ranges
  <1>2. Request("fetch", 0, 0) \in Sendable
    BY <1>1, RequestTyped DEF Phase
  <1>3. \A b \in Units : ~(b < 0)
    BY Numbers DEF Units
  <1> QED BY <1>2, <1>3, AskLists DEF InitAnswered, Reads, Steady

LEMMA SameLists ==
  ASSUME Lists, usb' = usb, tool' = tool, zone' = zone PROVE Lists'
  <1>1. /\ Alone' = Alone /\ pc' = pc /\ reports' = reports /\ Units' = Units
        /\ unit' = unit /\ BatchSize(unit)' = BatchSize(unit) /\ crcs' = crcs
    BY DEF usb, tool, Alone, Pending, Units, BatchSize
  <1> QED BY <1>1 DEF Lists, Fresh, TrueReport

LEMMA ListsNext ==
  ASSUME ~SlowReplies, Shape, Lockstep, Lists, [Next]_vars PROVE Lists'
  <1>1. CASE DeviceInit \/ FlashCrc \/ Mutate \/ MutateFails \/ MutateLies
    BY <1>1, ExecutedLists
  <1>2. CASE Reboot \/ BootFails \/ PowerCut
    BY <1>2, NoLists DEF Reboot, BootFails, PowerCut, Disappears
  <1>3. CASE PowerOn \/ EnterUpdate
    BY <1>3, SameLists DEF PowerOn, EnterUpdate
  <1>4. CASE StartSession
    BY <1>4, NoLists DEF StartSession
  <1>5. CASE InitFails \/ VerifyFails \/ BadAnswer \/ Abandon
    BY <1>5, Ends, NoLists DEF End, Leave
  <1>6. CASE RebootSent
    BY <1>6, NoLists DEF RebootSent, Leave
  <1>7. CASE InitAnswered
    BY <1>7, EnterLists
  <1>8. CASE BatchAnswered("fetch") \/ BatchAnswered("verify")
    BY <1>8, BatchLists
  <1>9. CASE FetchDone
    BY <1>9, FetchDoneLists
  <1>10. CASE FetchFails \/ Verified
    BY <1>10, NoLists DEF FetchFails, Verified, SayOk
  <1>11. CASE \/ HeadErased \/ UnitErased \/ ChunkWritten("write") \/ UnitWritten
             \/ ChunkWritten("writeHead") \/ HeadWritten
    BY <1>11, WriteLists
  <1>12. CASE UNCHANGED vars
    BY <1>12, SameLists DEF vars, usb, tool
  <1> QED
    BY <1>1, <1>2, <1>3, <1>4, <1>5, <1>6, <1>7, <1>8, <1>9, <1>10, <1>11, <1>12
    DEF Next, Device, Tool, User, Fault

\* The lists of whoever is alone are those of the zone as it is.
THEOREM HidLists == ASSUME ~SlowReplies PROVE Spec => [](Shape /\ Lockstep /\ Lists)
  <1>1. Init => Shape /\ Lockstep /\ Lists
    <2>1. Init => Lists
      BY DEF Init, Lists, Alone
    <2> QED BY <2>1, ShapeInit, LockstepInit
  <1>2. Shape /\ Lockstep /\ Lists /\ [Next]_vars => (Shape /\ Lockstep /\ Lists)'
    BY ShapeNext, LockstepNext, ListsNext
  <1> QED BY <1>1, <1>2, PTL DEF Spec

----------------------------------------------------------------------------
(* The comparison after the writes *)

Verdict == link /\ pc = "verify" /\ pc' = "reboot" => Matches(file)

LEMMA VerdictStep ==
  ASSUME ~SlowReplies, Shape, Lockstep, Lists, [Next]_vars PROVE Verdict
  <1> SUFFICES ASSUME link, pc = "verify", pc' = "reboot" PROVE Matches(file)
    BY DEF Verdict
  <1>1. Verified
    <2>1. ~(Device \/ MutateFails \/ MutateLies \/ BootFails \/ PowerCut \/ EnterUpdate \/ UNCHANGED vars)
      BY DEF Device, DeviceInit, FlashCrc, Mutate, MutateFails, MutateLies, Reboot, BootFails, PowerOn,
             PowerCut, EnterUpdate, Answer, tool, vars
    <2>2. ~(InitFails \/ VerifyFails \/ BadAnswer \/ Abandon \/ RebootSent \/ StartSession)
      BY Ends DEF End, Leave, RebootSent, StartSession
    <2>3. ~(\/ InitAnswered \/ BatchAnswered("fetch") \/ BatchAnswered("verify") \/ FetchDone
            \/ FetchFails \/ HeadErased \/ UnitErased \/ ChunkWritten("write") \/ UnitWritten
            \/ ChunkWritten("writeHead") \/ HeadWritten)
      BY DEF InitAnswered, BatchAnswered, FetchDone, FetchFails, HeadErased, UnitErased,
             ChunkWritten, UnitWritten, HeadWritten, Reads, Ask
    <2> QED BY <2>1, <2>2, <2>3 DEF Next, Tool, User, Fault
  <1>2. Alone
    BY DEF Alone, Lockstep, Counted
  <1>3. Read /\ NextBatch \notin Units
    BY <1>1 DEF Verified, Reads
  <1>4. PICK g \in Behind : SameCrcs(Fetched(g)) /\ crcs' = Fetched(g)
    BY <1>1 DEF Verified
  <1>5. file \in Images /\ file.len \in 1 .. N
    BY Numbers DEF Shape, Ranges
  <1>6. NextBatch \in 1 .. file.len
    BY <1>1, <1>4, FetchShape DEF Verified, Reads
  <1>7. \A b \in Units : b < NextBatch
    BY <1>3, <1>5, <1>6, Numbers DEF Units
  <1>8. \A b \in Units : Fetched(g)[b] = Crc[zone[b]]
    BY <1>2, <1>3, <1>7, FetchedTrue
  <1>9. \A b \in Units : Crc[zone[b]] = Crc[file.unit[b]]
    BY <1>4, <1>8 DEF SameCrcs
  <1> QED BY <1>5, <1>9, Numbers DEF Matches, Units

\* With a tool that waits for its answers, "update ok" after the writes is true for every
\* zone, file, batch size and history of sessions, although flash operations may lie
\* (ensureCrcMatch of win-usb_hid).
THEOREM HidVerifiedMeansFlashed == ASSUME ~SlowReplies PROVE Spec => VerifiedMeansFlashed
  <1>1. Shape /\ Lockstep /\ Lists /\ [Next]_vars => [Verdict]_vars
    BY VerdictStep
  <1>2. Spec => [][Verdict]_vars
    BY <1>1, HidLists, PTL DEF Spec
  <1> QED BY <1>2 DEF VerifiedMeansFlashed, Verdict
=============================================================================
