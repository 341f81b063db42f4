------------------------- MODULE UartLockstepProofs -------------------------
(***************************************************************************)
(* UartUpdate for every zone size, every set of files and every checksum:  *)
(* its types; that tool and device stay in lockstep although no frame      *)
(* carries a number; and that the CRC lists the tool decides upon are      *)
(* those of the flash, so that "update ok" is told of no other zone.       *)
(* Lockstep is inductive, and so is Lists on top of it, whether or not     *)
(* flash operations lie.                                                   *)
(***************************************************************************)
EXTENDS UartInvariants, SequenceTheorems, TLAPS

USE SizeAssumption, ContentAssumption, CrcAssumption, FaultAssumption,
    ImageAssumption, BatchAssumption, NoCrcAssumption

----------------------------------------------------------------------------
(* Types of the operators *)

\* Block 0 exists.
LEMMA ZeroBlock == 0 \in Block
BY DEF Block

\* The empty frame is a frame, and it is not live.
LEMMA NoFrameType == NoFrame \in Frame /\ NoFrame.live = FALSE /\ NoFrame.op = "NONE"
BY ZeroBlock DEF NoFrame, Frame

\* The list of a reply that carries none.
LEMMA NoListType == NoList \in CrcList /\ DOMAIN NoList = {}
<1>1. NoList \in [0 .. 0 - 1 -> CrcValue]
  BY DEF NoList
<1>2. 0 \in 0 .. N
  OBVIOUS
<1>3. QED
  BY <1>1, <1>2 DEF CrcList, NoList

\* The file in use is an image, or the empty one between sessions.
LEMMA FileType ==
  ASSUME TypeOK
  PROVE  /\ file \in Image
         /\ file.len \in 0 .. N
         /\ file.unit \in [Block -> Content]
         /\ Units \subseteq Block
<1>1. NoFile \in Image
  BY DEF NoFile, Image
<1>2. file \in Image
  BY <1>1 DEF TypeOK
<1>3. QED
  BY <1>2 DEF Image, Units, UnitsOf, Block

\* Closing a session keeps frames frames.
LEMMA StaleType ==
  ASSUME NEW f \in Frame
  PROVE  /\ Stale(f) \in Frame
         /\ Stale(f).live = FALSE
         /\ Stale(f).op = f.op /\ Stale(f).blk = f.blk /\ Stale(f).data = f.data
         /\ (f = NoFrame => Stale(f) = NoFrame)
<1>1. f \in [op : Opcode \cup {"NONE"}, blk : Block, cnt : 0 .. N,
              data : Content, live : BOOLEAN] /\ f.blk + f.cnt <= N
  BY DEF Frame
<1>2. Stale(f) \in Frame
  BY <1>1 DEF Stale, Frame
<1>3. f = NoFrame => Stale(f) = NoFrame
  BY DEF Stale, NoFrame
<1>4. QED
  BY <1>2, <1>3 DEF Stale

\* A batch that starts inside the file ends inside the zone.
LEMMA BatchType ==
  ASSUME TypeOK, NEW b \in Block, b <= file.len
  PROVE  BatchSize(b) \in 0 .. N /\ b + BatchSize(b) \in 0 .. N
BY FileType DEF BatchSize, Block

\* What the tool sends is a frame, as long as a batch starts inside the file.
LEMMA RequestType ==
  ASSUME TypeOK, NEW p \in Phase \ {"idle", "opened"}, NEW b \in Block,
         p \in {"fetch", "verify"} => b <= file.len
  PROVE  Request(p, b) \in Frame
<1>1. file.unit \in [Block -> Content]
  BY FileType
<1>2. CASE p \in {"fetch", "verify"}
  BY <1>1, <1>2, BatchType DEF Request, Cmd, Frame, Opcode, Block
<1>3. CASE p \in {"init", "check", "reboot"}
  BY <1>1, <1>3, ZeroBlock DEF Request, Cmd, Frame, Opcode
<1>4. CASE p \in {"eraseHead", "erase"}
  BY <1>1, <1>4 DEF Request, Cmd, Frame, Opcode, Block
<1>5. CASE p \in {"write", "writeHead"}
  BY <1>1, <1>5 DEF Request, Cmd, Frame, Opcode, Block
<1>6. QED
  BY <1>2, <1>3, <1>4, <1>5 DEF Phase

\* The answer accepted fills the list from blk on.
LEMMA FetchedType ==
  ASSUME TypeOK, pc \in {"fetch", "verify"}, tx # <<>>, Answers(Head(tx))
  PROVE  Fetched \in [Block -> CrcValue \cup {NoCrc}]
<1>1. Head(tx) \in Reply
  BY DEF TypeOK, DevTypeOK
<1>2. PICK k \in 0 .. N : Head(tx).list \in [0 .. k - 1 -> CrcValue]
  BY <1>1 DEF Reply, CrcList
<1>3. Request(pc, blk).cnt = BatchSize(blk)
  BY DEF Request, Cmd
<1>4. DOMAIN Head(tx).list = 0 .. BatchSize(blk) - 1
  BY <1>3 DEF Answers
<1>5. BatchSize(blk) \in Int /\ blk \in Int
  BY FileType DEF TypeOK, BatchSize, Block
<1>6. ASSUME NEW b \in Block, b \in blk .. NextBatch - 1
      PROVE  Head(tx).list[b - blk] \in CrcValue
  BY <1>2, <1>4, <1>5, <1>6 DEF NextBatch, Block
<1>7. QED
  BY <1>6 DEF Fetched, TypeOK

----------------------------------------------------------------------------
(* Type correctness *)

\* A handler that answers.
LEMMA AnswerType ==
  ASSUME TypeOK, NEW status \in {"SUSS", "ERROR"}, NEW list \in CrcList,
         Answer(status, list), flash' \in [Block -> Content]
  PROVE  DevTypeOK'
<1>1. [cmd |-> exec, status |-> status, list |-> list] \in Reply
  BY DEF TypeOK, DevTypeOK, Reply
<1>2. tx' \in Seq(Reply)
  BY <1>1 DEF TypeOK, DevTypeOK, Answer
<1>3. QED
  BY <1>2, NoFrameType DEF TypeOK, DevTypeOK, Answer

\* The CRC list computed by the device.
LEMMA CrcListType ==
  ASSUME TypeOK
  PROVE  /\ [i \in 0 .. exec.cnt - 1 |-> Crc[flash[exec.blk + i]]] \in CrcList
         /\ exec.blk \in Block /\ exec.cnt \in 0 .. N
         /\ \A i \in 0 .. exec.cnt - 1 : exec.blk + i \in Block
<1> DEFINE list == [i \in 0 .. exec.cnt - 1 |-> Crc[flash[exec.blk + i]]]
<1>1. exec.blk \in Block /\ exec.cnt \in 0 .. N /\ exec.blk + exec.cnt <= N
  BY DEF TypeOK, DevTypeOK, Frame
<1>2. \A i \in 0 .. exec.cnt - 1 : exec.blk + i \in Block
  BY <1>1 DEF Block
<1>3. list \in [0 .. exec.cnt - 1 -> CrcValue]
  BY <1>2 DEF TypeOK, DevTypeOK
<1>4. list \in CrcList
  BY <1>1, <1>3 DEF CrcList
<1>5. QED
  BY <1>1, <1>2, <1>4

\* What a running command leaves is a content.
LEMMA OutcomeType ==
  ASSUME TypeOK PROVE Outcome \in Content /\ exec.blk \in Block /\ flash[exec.blk] \in Content
BY DEF TypeOK, DevTypeOK, Frame, Outcome, Programmed

\* Every step of the device, the line and the power keeps the types.
LEMMA DeviceKeepsTypes ==
  ASSUME TypeOK,
         Receive \/ Execute \/ PowerOn \/ EnterUpdate \/ LineFault \/ FlashFault \/ PowerCut
  PROVE  DevTypeOK'
<1> USE DEF TypeOK, DevTypeOK
<1>1. CASE Arrive
  BY <1>1, NoFrameType DEF Arrive
<1>2. CASE Unheard \/ LoseFrame
  BY <1>2, NoFrameType DEF Unheard, LoseFrame
<1>3. CASE TakeCommand
  BY <1>3, NoFrameType DEF TakeCommand
<1>4. CASE DeviceInit \/ DeviceCheck \/ InitFails
  BY <1>4, NoListType, AnswerType DEF DeviceInit, DeviceCheck, InitFails
<1>5. CASE FlashCrc
  BY <1>5, CrcListType, AnswerType DEF FlashCrc
<1>6. CASE Erase
  BY <1>6, NoListType, AnswerType, OutcomeType DEF Erase
<1>7. CASE WriteFlash
  <2>1. PICK e \in WriteEffects :
          flash' = [flash EXCEPT ![exec.blk] = e[1]] /\ Answer(e[2], NoList)
    BY <1>7 DEF WriteFlash
  <2>2. e[1] \in Content /\ e[2] \in {"SUSS", "ERROR"}
    BY <2>1, OutcomeType DEF WriteEffects
  <2>3. QED
    BY <2>1, <2>2, NoListType, AnswerType
<1>8. CASE FlashFails \/ FlashLies
  BY <1>8, NoListType, AnswerType, OutcomeType DEF FlashFails, FlashLies
<1>9. CASE Reboot \/ BootFails
  BY <1>9, NoFrameType DEF Reboot, BootFails, BootTarget
<1>10. CASE PowerOn \/ EnterUpdate
  BY <1>10 DEF PowerOn, EnterUpdate, BootTarget
<1>11. CASE Noise
  BY <1>11, NoFrameType DEF Noise
<1>12. CASE LoseReply
  <2>1. \A i \in 1 .. Len(tx) - 1 : tx[i] \in Reply
    OBVIOUS
  <2>2. SubSeq(tx, 1, Len(tx) - 1) \in Seq(Reply)
    BY <2>1, SubSeqProperties
  <2>3. QED
    BY <1>12, <2>2 DEF LoseReply
<1>13. CASE PowerCut
  <2>1. flash' \in [Block -> Content]
    BY <1>13, OutcomeType DEF PowerCut
  <2>2. UNCHANGED <<wire, tx>> /\ mode' = "off" /\ rx' = NoFrame /\ exec' = NoFrame
        /\ clobbered' = FALSE
    BY <1>13 DEF PowerCut
  <2>3. QED
    BY <2>1, <2>2, NoFrameType
<1>14. QED
  BY <1>1, <1>2, <1>3, <1>4, <1>5, <1>6, <1>7, <1>8, <1>9, <1>10, <1>11, <1>12, <1>13
     DEF Receive, Execute, LineFault, FlashFault

\* Asking for the next thing keeps the types.
LEMMA AskType ==
  ASSUME TypeOK, NEW p \in Phase \ {"idle", "opened"}, NEW b \in Block,
         p \in {"fetch", "verify"} => b <= file.len,
         Ask(p, b), HostOnly, tx' \in Seq(Reply),
         crcs' \in [Block -> CrcValue \cup {NoCrc}]
  PROVE  TypeOK'
BY RequestType DEF TypeOK, DevTypeOK, Ask, HostOnly, Frame

\* The unit the loop of runInner goes to is one of the zone.
LEMMA DirtyType == ASSUME TypeOK, NEW b PROVE Dirty(b) \subseteq Block
BY FileType DEF Dirty

\* Going on to the next differing unit keeps the types.
LEMMA NextDirtyType ==
  ASSUME TypeOK, NEW b, NextDirty(b), HostOnly, tx' \in Seq(Reply), UNCHANGED crcs
  PROVE  TypeOK'
<1>1. crcs' \in [Block -> CrcValue \cup {NoCrc}]
  BY DEF TypeOK
<1>2. CASE Ask("writeHead", 0)
  BY <1>1, <1>2, ZeroBlock, AskType DEF Phase
<1>3. ASSUME NEW j \in Dirty(b), Ask("erase", j) PROVE TypeOK'
  BY <1>1, <1>3, DirtyType, AskType DEF Phase
<1>4. QED
  BY <1>2, <1>3 DEF NextDirty

\* Closing a session keeps the types.
LEMMA CloseType == ASSUME TypeOK, Close PROVE TypeOK'
BY ZeroBlock, StaleType DEF TypeOK, DevTypeOK, Close, NoCrcs, Phase

\* Every step of the tool keeps the types.
LEMMA HostKeepsTypes ==
  ASSUME TypeOK, HostStep \/ StartSession \/ Abandon
  PROVE  TypeOK'
<1>1. ASSUME tx # <<>> PROVE Tail(tx) \in Seq(Reply)
  BY <1>1 DEF TypeOK, DevTypeOK
<1>2. crcs \in [Block -> CrcValue \cup {NoCrc}] /\ NoCrcs \in [Block -> CrcValue \cup {NoCrc}]
  BY DEF TypeOK, NoCrcs
<1>3. blk \in Block /\ \A b \in Units : b \in Block /\ b <= file.len
  BY FileType DEF TypeOK, Units, UnitsOf, Block
<1>4. CASE StartSession
  BY <1>4, NoFrameType DEF StartSession, TypeOK, DevTypeOK, Phase
<1>5. CASE SendInit
  BY <1>5, ZeroBlock, AskType DEF SendInit, Phase, HostOnly, TypeOK, DevTypeOK
<1>6. CASE InitAnswered
  BY <1>1, <1>2, <1>6, ZeroBlock, AskType DEF InitAnswered, Accept, Phase
<1>7. CASE CheckAnswered
  BY <1>1, <1>2, <1>7, ZeroBlock, FileType, AskType DEF CheckAnswered, Accept, Phase
<1>8. ASSUME NEW p \in {"fetch", "verify"}, BatchAnswered(p) PROVE TypeOK'
  BY <1>1, <1>3, <1>8, FetchedType, AskType DEF BatchAnswered, Accept, Phase
<1>9. CASE FetchDone
  BY <1>1, <1>9, ZeroBlock, FetchedType, AskType DEF FetchDone, Accept, Phase
<1>10. CASE HeadErased
  BY <1>1, <1>10, NextDirtyType DEF HeadErased, Accept
<1>11. CASE UnitErased
  BY <1>1, <1>2, <1>3, <1>11, AskType DEF UnitErased, Accept, Phase
<1>12. CASE UnitWritten
  BY <1>1, <1>12, NextDirtyType DEF UnitWritten, Accept
<1>13. CASE HeadWritten
  BY <1>1, <1>2, <1>13, ZeroBlock, FileType, AskType DEF HeadWritten, Accept, Phase
<1>14. CASE Verified
  BY <1>1, <1>14, ZeroBlock, FetchedType, AskType DEF Verified, Accept, Phase
<1>15. CASE Close
  BY <1>15, CloseType
<1>16. QED
  BY <1>4, <1>5, <1>6, <1>7, <1>8, <1>9, <1>10, <1>11, <1>12, <1>13, <1>14, <1>15
     DEF HostStep, FileTooShort, VerifyFails, RebootSent, BadAnswer, Timeout, Abandon

\* The initial states have the types.
LEMMA InitType == ASSUME Init PROVE TypeOK
<1>1. NoFile \in Image
  BY DEF NoFile, Image
<1>2. \A img \in Images \cup {NoFile} : Factory(img) \in [Block -> Content]
  BY <1>1 DEF Factory, Image, UnitsOf, Block
<1>3. QED
  <2>1. flash \in [Block -> Content]
    BY <1>2 DEF Init
  <2>2. /\ mode = "off" /\ rx = NoFrame /\ exec = NoFrame /\ wire = NoFrame
        /\ clobbered = FALSE /\ tx = <<>>
    BY DEF Init
  <2>3. <<>> \in Seq(Reply)
    BY EmptySeq
  <2>4. DevTypeOK
    BY <2>1, <2>2, <2>3, NoFrameType DEF DevTypeOK
  <2>5. crcs \in [Block -> CrcValue \cup {NoCrc}]
    BY DEF Init, NoCrcs
  <2>6. QED
    BY <2>4, <2>5, ZeroBlock DEF Init, TypeOK, Phase

\* Every step keeps the types.
LEMMA NextType == ASSUME TypeOK, [Next]_vars PROVE TypeOK'
<1>1. CASE HostStep \/ StartSession \/ Abandon
  BY <1>1, HostKeepsTypes
<1>2. CASE DeviceStep \/ (EnterUpdate /\ UNCHANGED hostVars)
           \/ ((LineFault \/ FlashFault \/ PowerCut) /\ UNCHANGED hostVars)
  BY <1>2, DeviceKeepsTypes DEF DeviceStep, hostVars, TypeOK
<1>3. CASE UNCHANGED vars
  BY <1>3 DEF vars, TypeOK, DevTypeOK
<1>4. QED
  BY <1>1, <1>2, <1>3 DEF Next, User, Fault

\* TypeOK, for every zone size, set of files and checksum.
THEOREM TypeCorrect == Spec => []TypeOK
BY InitType, NextType, PTL DEF Spec

----------------------------------------------------------------------------
(* The lockstep vocabulary *)

\* What the tool sends is live and is a command.
LEMMA RequestIsLive ==
  ASSUME NEW p \in Phase \ {"idle", "opened"}, NEW b
  PROVE  /\ Request(p, b).live = TRUE
         /\ Request(p, b).op \in Opcode
         /\ Request(p, b) # NoFrame
         /\ p = "init" => Request(p, b).op = "INIT"
         /\ p = "check" => Request(p, b).op = "CHECK"
         /\ p \notin {"init", "check"} => Request(p, b).op \notin {"INIT", "CHECK"}
BY DEF Request, Cmd, Phase, Opcode, NoFrame

\* The same of the command whose answer is awaited.
LEMMA ReqIsLive ==
  ASSUME TypeOK, Asking
  PROVE  /\ Req.live = TRUE /\ Req.op \in Opcode /\ Req # NoFrame
         /\ pc = "init" => Req.op = "INIT"
         /\ pc = "check" => Req.op = "CHECK"
         /\ pc \notin {"init", "check"} => Req.op \notin {"INIT", "CHECK"}
BY RequestIsLive DEF TypeOK, Asking, Req

\* At most two answers are late.
LEMMA LateType == Late \in 0 .. 2
BY DEF Late

\* Of one answer nothing is left behind it.
LEMMA TailOfOne ==
  ASSUME NEW V, NEW s \in Seq(V), Len(s) = 1
  PROVE  Tail(s) = <<>>
<1>1. s # <<>>
  <2>1. s = <<>> <=> Len(s) = 0
    BY EmptySeq, Zenon
  <2>2. QED
    BY <2>1
<1>2. Tail(s) \in Seq(V) /\ Len(Tail(s)) = 0
  BY <1>1, HeadTailProperties
<1>3. QED
  BY <1>2, EmptySeq

\* Once the two harmless questions are answered, an answer the tool accepts is
\* that to the command it sent last, and nothing else is under way.
LEMMA AcceptedIsOurs ==
  ASSUME TypeOK, Lockstep, pc \in Waiting \ {"init", "check"},
         tx # <<>>, Answers(Head(tx))
  PROVE  /\ Head(tx) = tx[1] /\ tx[1].cmd = Req /\ Len(tx) = 1 /\ Tail(tx) = <<>>
         /\ exec = NoFrame /\ rx = NoFrame /\ wire = NoFrame
<1>1. tx \in Seq(Reply) /\ Len(tx) \in Nat \ {0} /\ Head(tx) = tx[1]
  BY EmptySeq DEF TypeOK, DevTypeOK
<1>2. Asking /\ Late = 0 /\ pc # "idle" /\ pc # "check"
  BY DEF Asking, Late, Waiting, Phase
<1>3. tx[1].cmd.live
  BY <1>1, <1>2 DEF Lockstep, LateFirst
<1>4. tx[1].cmd.op = Req.op
  BY <1>1 DEF Answers, Req
<1>5. tx[1].cmd = Req
  BY <1>1, <1>2, <1>3, <1>4, ReqIsLive DEF Lockstep, LiveKnown, SentByUs, Waiting
<1>6. Len(tx) = 1 /\ exec = NoFrame /\ rx = NoFrame /\ wire = NoFrame
  <2>1. 1 \in 1 .. Len(tx)
    BY <1>1
  <2>2. \A i \in 1 .. Len(tx) : tx[i].cmd = Req =>
          i = Len(tx) /\ exec = NoFrame /\ rx = NoFrame /\ wire = NoFrame
    BY <1>2 DEF Lockstep, AwaitedLast
  <2>3. QED
    BY <1>5, <2>1, <2>2
<1>7. Tail(tx) = <<>>
  BY <1>1, <1>6, TailOfOne
<1>8. QED
  BY <1>1, <1>5, <1>6, <1>7

----------------------------------------------------------------------------
(* Steps of device, line and power *)

\* What such a step leaves alone
LEMMA HostUnmoved ==
  ASSUME UNCHANGED hostVars
  PROVE  Req' = Req /\ Late' = Late /\ (Asking' <=> Asking)
         /\ UNCHANGED <<pc, file, blk, crcs>>
BY DEF hostVars, Req, Late, Asking, Request, Cmd, BatchSize

\* A handler answers the command it executes.
LEMMA AnswerKeepsLockstep ==
  ASSUME TypeOK, Lockstep, UNCHANGED hostVars, exec # NoFrame,
         NEW status \in {"SUSS", "ERROR"}, NEW list \in CrcList, Answer(status, list)
  PROVE  Lockstep'
<1> DEFINE r == [cmd |-> exec, status |-> status, list |-> list]
<1>1. r \in Reply /\ r.cmd = exec
  BY DEF TypeOK, DevTypeOK, Reply
<1>2. /\ Len(tx) \in Nat /\ Len(tx') = Len(tx) + 1
      /\ \A i \in 1 .. Len(tx) : tx'[i] = tx[i]
      /\ tx'[Len(tx) + 1].cmd = exec
  BY <1>1, AppendProperties, LenProperties DEF Answer, TypeOK, DevTypeOK
<1>3. /\ exec' = NoFrame /\ rx' = rx /\ wire' = wire /\ mode' = mode
  BY DEF Answer
<1> HIDE DEF r
<1>4. FramesOK'
  BY <1>2, <1>3 DEF Lockstep, FramesOK
<1>5. LateFirst'
  BY <1>2, <1>3, HostUnmoved, LateType DEF Lockstep, LateFirst, Busy
<1>6. LiveKnown'
  BY <1>2, <1>3, HostUnmoved, NoFrameType DEF Lockstep, LiveKnown, SentByUs
<1>7. AwaitedLast'
  <2> SUFFICES ASSUME Asking, Asking'
               PROVE  /\ \A i \in 1 .. Len(tx') : tx'[i].cmd = Req =>
                           i = Len(tx') /\ exec' = NoFrame /\ rx' = NoFrame /\ wire' = NoFrame
                      /\ exec' = Req => rx' = NoFrame /\ wire' = NoFrame
                      /\ rx' = Req => wire' = NoFrame
    BY HostUnmoved DEF AwaitedLast
  <2>1. /\ \A i \in 1 .. Len(tx) : tx[i].cmd # Req
        /\ exec = Req => rx = NoFrame /\ wire = NoFrame
        /\ rx = Req => wire = NoFrame
    BY DEF Lockstep, AwaitedLast
  <2>2. ASSUME NEW i \in 1 .. Len(tx'), tx'[i].cmd = Req
        PROVE  i = Len(tx') /\ exec = Req
    BY <1>2, <2>1, <2>2
  <2>3. exec' # Req
    BY <1>3, ReqIsLive
  <2>4. QED
    BY <1>3, <2>1, <2>2, <2>3
<1>8. QED
  BY <1>4, <1>5, <1>6, <1>7 DEF Lockstep

\* A step that drops what the device holds, or never held anything.
LEMMA DropKeepsLockstep ==
  ASSUME TypeOK, Lockstep, UNCHANGED hostVars, UNCHANGED tx,
         wire' \in {wire, NoFrame}, rx' \in {rx, NoFrame}, exec' \in {exec, NoFrame},
         mode' # "loop" => rx' = NoFrame /\ exec' = NoFrame
  PROVE  Lockstep'
<1>1. FramesOK'
  BY NoFrameType DEF Lockstep, FramesOK
<1>2. LateFirst'
  BY HostUnmoved, LateType, LenProperties DEF Lockstep, LateFirst, Busy, TypeOK, DevTypeOK
<1>3. LiveKnown'
  BY HostUnmoved, NoFrameType DEF Lockstep, LiveKnown, SentByUs
<1>4. AwaitedLast'
  BY HostUnmoved, ReqIsLive DEF Lockstep, AwaitedLast
<1>5. QED
  BY <1>1, <1>2, <1>3, <1>4 DEF Lockstep

\* The frame on the line reaches the receive buffer.
LEMMA ArriveKeepsLockstep ==
  ASSUME TypeOK, Lockstep, UNCHANGED hostVars, Arrive
  PROVE  Lockstep'
<1>1. FramesOK'
  BY NoFrameType DEF Arrive, Lockstep, FramesOK
<1>2. LateFirst'
  BY HostUnmoved, LateType, LenProperties
     DEF Arrive, Lockstep, LateFirst, Busy, TypeOK, DevTypeOK
<1>3. LiveKnown'
  BY HostUnmoved, NoFrameType DEF Arrive, Lockstep, LiveKnown, SentByUs
<1>4. AwaitedLast'
  BY HostUnmoved, ReqIsLive DEF Arrive, Lockstep, AwaitedLast
<1>5. QED
  BY <1>1, <1>2, <1>3, <1>4 DEF Lockstep

\* The device takes the frame out of its buffer.
LEMMA TakeKeepsLockstep ==
  ASSUME TypeOK, Lockstep, UNCHANGED hostVars, TakeCommand
  PROVE  Lockstep'
<1>1. FramesOK'
  BY NoFrameType DEF TakeCommand, Lockstep, FramesOK
<1>2. LateFirst'
  BY HostUnmoved, LateType, LenProperties
     DEF TakeCommand, Lockstep, LateFirst, Busy, TypeOK, DevTypeOK
<1>3. LiveKnown'
  BY HostUnmoved, NoFrameType DEF TakeCommand, Lockstep, LiveKnown, SentByUs
<1>4. AwaitedLast'
  BY HostUnmoved, ReqIsLive DEF TakeCommand, Lockstep, AwaitedLast
<1>5. QED
  BY <1>1, <1>2, <1>3, <1>4 DEF Lockstep

\* The youngest reply is lost on the line.
LEMMA LoseReplyShortens ==
  ASSUME TypeOK, LoseReply
  PROVE  /\ Len(tx) \in Nat \ {0} /\ Len(tx') = Len(tx) - 1
         /\ \A i \in 1 .. Len(tx') : i \in 1 .. Len(tx) /\ tx'[i] = tx[i]
         /\ UNCHANGED <<mode, rx, exec, wire>>
<1>1. Len(tx) \in Nat \ {0} /\ \A i \in 1 .. Len(tx) - 1 : tx[i] \in Reply
  BY EmptySeq DEF LoseReply, TypeOK, DevTypeOK
<1> DEFINE n == Len(tx) - 1
           s == SubSeq(tx, 1, n)
<1>2. /\ Len(s) = IF 1 <= n THEN n - 1 + 1 ELSE 0
      /\ \A i \in 1 .. n - 1 + 1 : s[i] = tx[1 + i - 1]
  <2>1. n \in Int /\ 1 \in Int /\ \A i \in 1 .. n : tx[i] \in Reply
    BY <1>1
  <2> HIDE DEF n
  <2>2. QED
    BY <2>1, SubSeqProperties
<1>3. Len(s) = n /\ \A i \in 1 .. n : s[i] = tx[i]
  <2>1. n \in Nat
    BY <1>1
  <2> HIDE DEF n, s
  <2>2. \A i \in 1 .. n : i \in 1 .. n - 1 + 1 /\ 1 + i - 1 = i
    BY <2>1
  <2>3. QED
    BY <2>1, <2>2, <1>2
<1>4. QED
  BY <1>1, <1>3 DEF LoseReply

\* ... and the lockstep stays.
LEMMA LoseReplyKeepsLockstep ==
  ASSUME TypeOK, Lockstep, UNCHANGED hostVars, LoseReply
  PROVE  Lockstep'
<1>1. /\ Len(tx) \in Nat \ {0} /\ Len(tx') = Len(tx) - 1
      /\ \A i \in 1 .. Len(tx') : tx'[i] = tx[i]
      /\ UNCHANGED <<mode, rx, exec, wire>>
  BY LoseReplyShortens
<1>2. FramesOK'
  BY <1>1 DEF Lockstep, FramesOK
<1>3. LateFirst'
  BY <1>1, HostUnmoved, LateType DEF Lockstep, LateFirst, Busy
<1>4. LiveKnown'
  BY <1>1, HostUnmoved DEF Lockstep, LiveKnown, SentByUs
<1>5. AwaitedLast'
  BY <1>1, HostUnmoved DEF Lockstep, AwaitedLast
<1>6. QED
  BY <1>2, <1>3, <1>4, <1>5 DEF Lockstep

\* Every step of the device, the line and the power keeps the lockstep.
LEMMA DeviceKeepsLockstep ==
  ASSUME TypeOK, Lockstep, UNCHANGED hostVars,
         Receive \/ Execute \/ PowerOn \/ EnterUpdate \/ LineFault \/ FlashFault \/ PowerCut
  PROVE  Lockstep'
<1>1. CASE Arrive \/ TakeCommand \/ LoseReply
  BY <1>1, ArriveKeepsLockstep, TakeKeepsLockstep, LoseReplyKeepsLockstep
<1>2. CASE Unheard \/ LoseFrame
  BY <1>2, DropKeepsLockstep DEF Unheard, LoseFrame, Lockstep, FramesOK
<1>3. CASE Noise
  BY <1>3, DropKeepsLockstep DEF Noise
<1>4. CASE Reboot \/ BootFails \/ PowerCut
  BY <1>4, DropKeepsLockstep DEF Reboot, BootFails, PowerCut
<1>5. CASE PowerOn \/ EnterUpdate
  BY <1>5, DropKeepsLockstep DEF PowerOn, EnterUpdate, Lockstep, FramesOK
<1>6. CASE DeviceInit \/ DeviceCheck \/ InitFails \/ Erase \/ FlashFails \/ FlashLies
  BY <1>6, NoListType, NoFrameType, AnswerKeepsLockstep
     DEF DeviceInit, DeviceCheck, InitFails, Erase, FlashFails, FlashLies, Handles
<1>7. CASE WriteFlash
  <2>1. PICK e \in WriteEffects : Answer(e[2], NoList)
    BY <1>7 DEF WriteFlash
  <2>2. e[2] \in {"SUSS", "ERROR"}
    BY <2>1 DEF WriteEffects
  <2>3. QED
    BY <1>7, <2>1, <2>2, NoListType, NoFrameType, AnswerKeepsLockstep DEF WriteFlash, Handles
<1>8. CASE FlashCrc
  BY <1>8, CrcListType, NoFrameType, AnswerKeepsLockstep DEF FlashCrc, Handles
<1>9. QED
  BY <1>1, <1>2, <1>3, <1>4, <1>5, <1>6, <1>7, <1>8
     DEF Receive, Execute, LineFault, FlashFault

----------------------------------------------------------------------------
(* Steps of the tool *)

\* The command asked is the one whose answer is awaited next.
LEMMA AskedIsReq ==
  ASSUME TypeOK, NEW p \in Phase \ {"idle", "opened"}, NEW b, Ask(p, b), UNCHANGED file
  PROVE  /\ Asking' /\ pc' = p /\ blk' = b
         /\ Req' = Request(p, b) /\ wire' = Req' /\ wire = NoFrame
         /\ Req'.live = TRUE /\ Req'.op \in Opcode
         /\ p = "init" => Req'.op = "INIT"
         /\ p = "check" => Req'.op = "CHECK"
         /\ p \notin {"init", "check"} => Req'.op \notin {"INIT", "CHECK"}
<1>1. pc' = p /\ blk' = b /\ Asking'
  BY DEF Ask, Asking
<1>2. Req' = Request(p, b)
  BY <1>1 DEF Req, Request, Cmd, BatchSize
<1>3. QED
  BY ZenonT(30), <1>1, <1>2, RequestIsLive DEF Ask

\* The tool goes on once the answer to its last command is there.
LEMMA AdvanceKeepsLockstep ==
  ASSUME TypeOK, Lockstep, pc \in Waiting \ {"init", "check"},
         NEW p \in Phase \ {"idle", "opened", "init", "check"}, NEW b,
         Accept(pc), Ask(p, b), HostOnly
  PROVE  Lockstep'
<1>1. /\ exec' = NoFrame /\ rx' = NoFrame /\ tx' = <<>> /\ Len(tx') = 0
      /\ UNCHANGED file
  BY AcceptedIsOurs, EmptySeq DEF Accept, HostOnly
<1>2. /\ Asking' /\ wire' = Req' /\ Req'.live = TRUE /\ Req'.op \in Opcode
  BY <1>1, AskedIsReq
<1>3. FramesOK'
  BY <1>1, <1>2 DEF FramesOK, Opcode
<1>4. LateFirst'
  BY <1>1, <1>2 DEF LateFirst
<1>5. LiveKnown'
  BY <1>1, <1>2, NoFrameType DEF LiveKnown, SentByUs
<1>6. AwaitedLast'
  BY <1>1, <1>2, NoFrameType DEF AwaitedLast
<1>7. QED
  BY <1>3, <1>4, <1>5, <1>6 DEF Lockstep

\* The port is open and INIT is sent: whatever is still on its way is late.
LEMMA SendInitKeepsLockstep ==
  ASSUME TypeOK, Lockstep, SendInit
  PROVE  Lockstep'
<1>1. /\ pc = "opened" /\ Ask("init", 0) /\ UNCHANGED <<flash, mode, rx, exec, clobbered, tx, file, crcs>>
  BY DEF SendInit
<1>2. /\ Asking' /\ pc' = "init" /\ wire = NoFrame /\ wire' = Req'
      /\ Req'.live = TRUE /\ Req'.op \in Opcode
  BY <1>1, AskedIsReq DEF Phase
<1>3. ~Asking /\ Late = 2 /\ Late' = 2
  BY <1>1, <1>2 DEF Asking, Late
<1>4. /\ \A i \in 1 .. Len(tx) : tx[i].cmd.live = FALSE
      /\ exec.live = FALSE /\ rx.live = FALSE
  <2>1. /\ \A i \in 1 .. Len(tx) : tx[i].cmd \in Frame
        /\ exec \in Frame /\ rx \in Frame
    <3>1. \A i \in 1 .. Len(tx) : tx[i] \in Reply
      BY ElementOfSeq DEF TypeOK, DevTypeOK
    <3>2. QED
      BY <3>1 DEF TypeOK, DevTypeOK, Reply
  <2>2. \A f \in Frame : f.live \in BOOLEAN
    BY DEF Frame
  <2>3. /\ \A i \in 1 .. Len(tx) : ~tx[i].cmd.live
        /\ ~exec.live /\ ~rx.live
    BY <1>1, <1>3 DEF Lockstep, LiveKnown, SentByUs
  <2>4. QED
    BY <2>1, <2>2, <2>3
<1>5. FramesOK'
  BY <1>1, <1>2 DEF Lockstep, FramesOK, Opcode
<1>6. LateFirst'
  BY <1>1, <1>2, <1>3 DEF Lockstep, LateFirst, Busy
<1>7. LiveKnown'
  BY <1>1, <1>2, <1>4 DEF Lockstep, LiveKnown, SentByUs
<1>8. AwaitedLast'
  BY <1>1, <1>2, <1>4 DEF AwaitedLast
<1>9. QED
  BY <1>5, <1>6, <1>7, <1>8 DEF Lockstep

\* An answer to INIT, or to CHECK, is consumed: one answer less is late.
LEMMA EnterKeepsLockstep ==
  ASSUME TypeOK, Lockstep, InitAnswered \/ CheckAnswered
  PROVE  Lockstep'
<1> DEFINE p == IF pc = "init" THEN "check" ELSE "fetch"
<1>1. /\ pc \in {"init", "check"} /\ tx # <<>> /\ tx' = Tail(tx)
      /\ Ask(p, 0) /\ UNCHANGED <<mode, rx, exec, file>>
  BY DEF InitAnswered, CheckAnswered, Accept, HostOnly
<1>2. p \in Phase \ {"idle", "opened"}
  BY DEF Phase
<1>3. /\ Asking' /\ pc' = p /\ blk' = 0 /\ wire = NoFrame /\ wire' = Req'
      /\ Req'.live = TRUE /\ Req'.op \in Opcode
      /\ \/ Req'.op = "CHECK" /\ pc = "init"
         \/ Req'.op \notin {"INIT", "CHECK"} /\ pc = "check"
  <2> HIDE DEF p
  <2>1. /\ Asking' /\ pc' = p /\ blk' = 0 /\ wire = NoFrame /\ wire' = Req'
        /\ Req'.live = TRUE /\ Req'.op \in Opcode
        /\ p = "check" => Req'.op = "CHECK"
        /\ p \notin {"init", "check"} => Req'.op \notin {"INIT", "CHECK"}
    BY <1>1, <1>2, AskedIsReq
  <2>2. QED
    BY <1>1, <2>1 DEF p
<1>4. Late' = Late - 1 /\ Late \in 1 .. 2
  BY <1>1, <1>3 DEF Late
<1>5. /\ Len(tx) \in Nat \ {0} /\ Len(tx') = Len(tx) - 1
      /\ \A i \in 1 .. Len(tx') : i + 1 \in 1 .. Len(tx) /\ tx'[i] = tx[i + 1]
  BY <1>1, HeadTailProperties, EmptySeq DEF TypeOK, DevTypeOK
<1>6. \A f : SentByUs(f) => f.op = "INIT" \/ (pc = "check" /\ f.op = "CHECK")
  BY <1>1, ReqIsLive DEF SentByUs, Asking
<1> HIDE DEF p
<1>7. FramesOK'
  BY <1>1, <1>3, <1>5 DEF Lockstep, FramesOK, Opcode
<1>8. LateFirst'
  BY <1>1, <1>3, <1>4, <1>5 DEF Lockstep, LateFirst, Busy
<1>9. LiveKnown'
  <2>1. \A f : f.op = "INIT" \/ (pc = "check" /\ f.op = "CHECK") =>
          \/ pc' = "check" /\ f.op = "INIT"
          \/ pc' = "fetch" /\ blk' = 0 /\ f.op \in {"INIT", "CHECK"}
    BY <1>1, <1>3 DEF p
  <2>2. /\ rx.live => SentByUs(rx)
        /\ exec.live => SentByUs(exec)
        /\ \A i \in 1 .. Len(tx) : tx[i].cmd.live => SentByUs(tx[i].cmd)
    BY <1>1 DEF Lockstep, LiveKnown
  <2>3. QED
    BY <1>1, <1>3, <1>5, <1>6, <2>1, <2>2 DEF LiveKnown, SentByUs
<1>10. AwaitedLast'
  <2>1. \A f : f.live /\ SentByUs(f) => f # Req'
    BY <1>3, <1>6
  <2>2. /\ rx # Req' /\ exec # Req'
        /\ \A i \in 1 .. Len(tx) : tx[i].cmd # Req'
    BY <1>1, <1>3, <2>1 DEF Lockstep, LiveKnown
  <2>3. QED
    BY <1>1, <1>5, <2>2 DEF AwaitedLast
<1>11. QED
  BY <1>7, <1>8, <1>9, <1>10 DEF Lockstep

\* Between sessions nothing is live.
LEMMA CloseKeepsLockstep ==
  ASSUME TypeOK, Lockstep, Close
  PROVE  Lockstep'
<1>1. /\ pc' = "idle" /\ tx' = <<>> /\ Len(tx') = 0 /\ mode' = mode
      /\ wire' = Stale(wire) /\ rx' = Stale(rx) /\ exec' = Stale(exec)
  BY EmptySeq DEF Close
<1>2. wire \in Frame /\ rx \in Frame /\ exec \in Frame
  BY DEF TypeOK, DevTypeOK
<1>3. ~Asking'
  BY <1>1 DEF Asking
<1>4. FramesOK'
  <2>1. \A f \in {rx, exec, wire} :
          (f.op = "NONE" => f = NoFrame) /\ Stale(f).op = f.op
            /\ (f = NoFrame => Stale(f) = NoFrame)
    BY <1>2, StaleType DEF Lockstep, FramesOK
  <2>2. mode # "loop" => rx = NoFrame /\ exec = NoFrame
    BY DEF Lockstep, FramesOK
  <2>3. QED
    BY <1>1, <2>1, <2>2 DEF FramesOK
<1>5. LateFirst' /\ AwaitedLast'
  BY <1>1, <1>3 DEF LateFirst, AwaitedLast
<1>6. LiveKnown'
  BY <1>1, <1>2, StaleType DEF LiveKnown
<1>7. QED
  BY <1>4, <1>5, <1>6 DEF Lockstep

\* At most two commands are under way when the port is opened.
LEMMA StartKeepsLockstep ==
  ASSUME TypeOK, Lockstep, StartSession
  PROVE  Lockstep'
<1>1. /\ pc = "idle" /\ pc' = "opened" /\ tx' = <<>> /\ Len(tx') = 0 /\ wire' = NoFrame
      /\ UNCHANGED <<mode, rx, exec>>
  BY EmptySeq DEF StartSession
<1>2. ~Asking /\ ~Asking' /\ Late' = 2
  BY <1>1 DEF Asking, Late
<1>3. FramesOK'
  BY <1>1, NoFrameType DEF Lockstep, FramesOK
<1>4. LateFirst' /\ AwaitedLast'
  BY <1>1, <1>2 DEF LateFirst, AwaitedLast, Busy
<1>5. LiveKnown'
  BY <1>1, <1>2, NoFrameType DEF Lockstep, LiveKnown, SentByUs
<1>6. QED
  BY <1>3, <1>4, <1>5 DEF Lockstep

\* Every step of the tool keeps the lockstep.
LEMMA HostKeepsLockstep ==
  ASSUME TypeOK, Lockstep, HostStep \/ StartSession \/ Abandon
  PROVE  Lockstep'
<1>1. CASE SendInit
  BY <1>1, SendInitKeepsLockstep
<1>2. CASE InitAnswered \/ CheckAnswered
  BY <1>2, EnterKeepsLockstep
<1>3. CASE StartSession
  BY <1>3, StartKeepsLockstep
<1>4. CASE Close
  BY <1>4, CloseKeepsLockstep
<1>5. ASSUME NEW p \in {"fetch", "verify"}, BatchAnswered(p) PROVE Lockstep'
  BY <1>5, AdvanceKeepsLockstep DEF BatchAnswered, Accept, Waiting, Phase
<1>6. CASE FetchDone
  BY <1>6, AdvanceKeepsLockstep DEF FetchDone, Accept, Waiting, Phase
<1>7. CASE HeadErased \/ UnitWritten
  <2>1. /\ pc \in {"eraseHead", "write"} /\ Accept(pc) /\ HostOnly
        /\ \E p \in {"writeHead", "erase"}, b \in {0} \cup Dirty(0) \cup Dirty(blk) : Ask(p, b)
    BY <1>7 DEF HeadErased, UnitWritten, Accept, NextDirty
  <2>2. QED
    BY <2>1, AdvanceKeepsLockstep DEF Waiting, Phase
<1>8. CASE UnitErased
  BY <1>8, AdvanceKeepsLockstep DEF UnitErased, Accept, Waiting, Phase
<1>9. CASE HeadWritten
  BY <1>9, AdvanceKeepsLockstep DEF HeadWritten, Accept, Waiting, Phase
<1>10. CASE Verified
  BY <1>10, AdvanceKeepsLockstep DEF Verified, Accept, Waiting, Phase
<1>11. QED
  BY <1>1, <1>2, <1>3, <1>4, <1>5, <1>6, <1>7, <1>8, <1>9, <1>10
     DEF HostStep, FileTooShort, VerifyFails, RebootSent, BadAnswer, Timeout, Abandon

----------------------------------------------------------------------------
(* The theorems *)

\* The system starts in lockstep.
LEMMA InitLockstep == ASSUME Init PROVE Lockstep
<1>1. /\ pc = "idle" /\ tx = <<>> /\ Len(tx) = 0
      /\ rx = NoFrame /\ exec = NoFrame /\ wire = NoFrame
  BY EmptySeq DEF Init
<1>2. ~Asking
  BY <1>1 DEF Asking
<1>3. QED
  BY <1>1, <1>2, NoFrameType DEF Lockstep, FramesOK, LateFirst, LiveKnown, AwaitedLast

\* Every step keeps it.
LEMMA NextLockstep == ASSUME TypeOK, Lockstep, [Next]_vars PROVE Lockstep'
<1>1. CASE HostStep \/ StartSession \/ Abandon
  BY <1>1, HostKeepsLockstep
<1>2. CASE DeviceStep \/ (EnterUpdate /\ UNCHANGED hostVars)
           \/ ((LineFault \/ FlashFault \/ PowerCut) /\ UNCHANGED hostVars)
  BY <1>2, DeviceKeepsLockstep DEF DeviceStep
<1>3. CASE UNCHANGED vars
  <2>1. UNCHANGED hostVars /\ UNCHANGED <<mode, tx, rx, exec, wire>>
    BY <1>3 DEF vars, hostVars
  <2>2. QED
    BY <2>1, DropKeepsLockstep DEF Lockstep, FramesOK
<1>4. QED
  BY <1>1, <1>2, <1>3 DEF Next, User, Fault

\* Lockstep, for every zone size, set of files, checksum and flash behaviour.
THEOREM LockstepHolds == Spec => []Lockstep
<1>1. Init => TypeOK /\ Lockstep
  BY InitType, InitLockstep
<1>2. TypeOK /\ Lockstep /\ [Next]_vars => (TypeOK /\ Lockstep)'
  BY NextType, NextLockstep
<1>3. QED
  BY <1>1, <1>2, PTL DEF Spec

\* From the first CRC answer on, an accepted answer is that to the last command.
THEOREM AnswersAreOurs == Spec => []AnswerIsOurs
<1>1. TypeOK /\ Lockstep => AnswerIsOurs
  BY AcceptedIsOurs DEF AnswerIsOurs, Req
<1>2. QED
  BY <1>1, TypeCorrect, LockstepHolds, PTL

----------------------------------------------------------------------------
(* Who changes the flash *)

\* The commands of the read-only phases change nothing.
LEMMA RequestMutates ==
  ASSUME NEW p \in Phase \ {"idle", "opened"}, NEW b
  PROVE  /\ Mutating(Request(p, b)) <=> p \in {"eraseHead", "erase", "write", "writeHead"}
         /\ Request(p, b).blk = b \/ p \in {"init", "check", "reboot"}
         /\ p \in {"fetch", "verify"} => Request(p, b).cnt = BatchSize(b)
BY DEF Request, Cmd, Phase, Mutating

\* After the first CRC answer the device executes nothing but the command whose
\* answer is awaited, and before it nothing that changes the flash.
LEMMA MutatorIsOurs ==
  ASSUME TypeOK, Lockstep, MutatingAlone, Asking, pc # "init", Mutating(exec)
  PROVE  /\ exec = Req /\ exec.blk = blk
         /\ pc \in {"eraseHead", "erase", "write", "writeHead"}
<1>1. ~Entering
  BY DEF MutatingAlone
<1>2. Late = 0 /\ pc # "idle"
  BY <1>1 DEF Late, Entering, Asking
<1>3. exec.live
  BY <1>2, LenProperties, NoFrameType DEF Mutating, Lockstep, LateFirst, TypeOK, DevTypeOK
<1>4. exec = Req
  BY <1>1, <1>3 DEF Lockstep, LiveKnown, SentByUs, Entering
<1>5. QED
  BY <1>4, RequestMutates DEF Req, Asking, TypeOK

\* A step of the device that changes the flash executes a mutating command, and
\* changes the block it names.
LEMMA DeviceChanges ==
  ASSUME TypeOK,
         Receive \/ Execute \/ PowerOn \/ EnterUpdate \/ LineFault \/ FlashFault \/ PowerCut,
         flash' # flash
  PROVE  /\ Mutating(exec)
         /\ flash' \in [Block -> Content]
         /\ \A b \in Block : b # exec.blk => flash'[b] = flash[b]
<1>1. Erase \/ WriteFlash \/ FlashFails \/ FlashLies \/ PowerCut
  BY DEF Receive, Execute, LineFault, FlashFault, Arrive, Unheard, TakeCommand, DeviceInit,
         DeviceCheck, FlashCrc, Reboot, BootFails, PowerOn, EnterUpdate, LoseFrame, Noise, LoseReply, InitFails
<1>2. Mutating(exec)
  BY <1>1 DEF Erase, WriteFlash, FlashFails, FlashLies, PowerCut, Handles, Mutating
<1>3. ASSUME NEW c, flash' = [flash EXCEPT ![exec.blk] = c]
      PROVE  \A b \in Block : b # exec.blk => flash'[b] = flash[b]
  BY <1>3 DEF TypeOK, DevTypeOK
<1>4. \A b \in Block : b # exec.blk => flash'[b] = flash[b]
  BY <1>1, <1>2, <1>3 DEF Erase, WriteFlash, FlashFails, FlashLies, PowerCut, Mutating
<1>5. QED
  BY <1>2, <1>4, DeviceKeepsTypes DEF DevTypeOK

----------------------------------------------------------------------------
(* Steps of device, line and power *)

\* MutatingAlone
LEMMA DeviceKeepsAlone ==
  ASSUME TypeOK, Lockstep, MutatingAlone, UNCHANGED hostVars,
         Receive \/ Execute \/ PowerOn \/ EnterUpdate \/ LineFault \/ FlashFault \/ PowerCut
  PROVE  MutatingAlone'
<1> USE NoFrameType DEF MutatingAlone, Mutating, Entering
<1>1. UNCHANGED <<pc, blk>>
  BY HostUnmoved
<1>2. CASE Arrive
  BY <1>1, <1>2 DEF Arrive
<1>3. CASE TakeCommand
  BY <1>1, <1>3 DEF TakeCommand
<1>4. CASE Unheard \/ LoseFrame \/ Noise \/ Reboot \/ BootFails \/ PowerOn \/ EnterUpdate
  BY <1>1, <1>4 DEF Unheard, LoseFrame, Noise, Reboot, BootFails, PowerOn, EnterUpdate
<1>5. CASE PowerCut
  BY <1>1, <1>5 DEF PowerCut
<1>6. CASE LoseReply
  <2>1. tx = <<>> => tx' = <<>>
    BY <1>6 DEF LoseReply
  <2>2. UNCHANGED <<rx, exec, wire>>
    BY <1>6 DEF LoseReply
  <2>3. QED
    BY <1>1, <2>1, <2>2
<1>7. ASSUME exec.op # "NONE", NEW status, NEW list, Answer(status, list)
      PROVE  MutatingAlone'
  BY <1>1, <1>7 DEF Answer
<1>8. CASE DeviceInit \/ DeviceCheck \/ InitFails \/ FlashCrc \/ Erase \/ WriteFlash
           \/ FlashFails \/ FlashLies
  BY <1>7, <1>8 DEF DeviceInit, DeviceCheck, InitFails, FlashCrc, Erase, WriteFlash,
                    FlashFails, FlashLies, Handles
<1>9. QED
  BY <1>2, <1>3, <1>4, <1>5, <1>6, <1>8 DEF Receive, Execute, LineFault, FlashFault

\* What a handler appends to the replies.
LEMMA AnswerAppends ==
  ASSUME TypeOK, NEW status \in {"SUSS", "ERROR"}, NEW list \in CrcList, Answer(status, list)
  PROVE  /\ Len(tx) \in Nat /\ Len(tx') = Len(tx) + 1
         /\ \A i \in 1 .. Len(tx) : tx'[i] = tx[i]
         /\ tx'[Len(tx) + 1].cmd = exec
         /\ tx'[Len(tx) + 1].status = status
         /\ tx'[Len(tx) + 1].list = list
<1> DEFINE r == [cmd |-> exec, status |-> status, list |-> list]
<1>1. r \in Reply /\ tx \in Seq(Reply) /\ tx' = Append(tx, r)
  BY DEF TypeOK, DevTypeOK, Reply, Answer
<1>2. r.cmd = exec /\ r.status = status /\ r.list = list
  OBVIOUS
<1> HIDE DEF r
<1>3. QED
  BY <1>1, <1>2, AppendProperties, LenProperties

\* A reply is an older one, or answers the command executed; to a CRC command
\* the device answers with the checksums of its flash.
LEMMA ReplyOrigin ==
  ASSUME TypeOK, NEW i \in 1 .. Len(tx'),
         Receive \/ Execute \/ PowerOn \/ EnterUpdate \/ LineFault \/ FlashFault \/ PowerCut
  PROVE  \/ i \in 1 .. Len(tx) /\ tx'[i] = tx[i]
         \/ /\ tx'[i].cmd = exec /\ exec.op # "NONE"
            /\ exec.op = "CRC" =>
                 \A k \in DOMAIN tx'[i].list : tx'[i].list[k] = Crc[flash[exec.blk + k]]
<1>1. CASE UNCHANGED tx
  BY <1>1
<1>2. CASE LoseReply
  BY <1>2, LoseReplyShortens
<1>3. ASSUME NEW status \in {"SUSS", "ERROR"}, Answer(status, NoList), exec.op \notin {"CRC", "NONE"}
      PROVE  (i \in 1 .. Len(tx) /\ tx'[i] = tx[i]) \/ tx'[i].cmd = exec
  BY <1>3, NoListType, AnswerAppends
<1>4. CASE DeviceInit \/ DeviceCheck \/ InitFails \/ Erase \/ FlashFails \/ FlashLies
  BY <1>3, <1>4 DEF DeviceInit, DeviceCheck, InitFails, Erase, FlashFails, FlashLies, Handles
<1>5. CASE WriteFlash
  <2>1. PICK e \in WriteEffects : Answer(e[2], NoList)
    BY <1>5 DEF WriteFlash
  <2>2. e[2] \in {"SUSS", "ERROR"}
    BY <2>1 DEF WriteEffects
  <2>3. QED
    BY <1>3, <1>5, <2>1, <2>2 DEF WriteFlash, Handles
<1>6. CASE FlashCrc
  <2> DEFINE list == [k \in 0 .. exec.cnt - 1 |-> Crc[flash[exec.blk + k]]]
  <2>1. list \in CrcList /\ Answer("SUSS", list) /\ exec.op = "CRC"
    BY <1>6, CrcListType DEF FlashCrc, Handles
  <2>2. \A k \in DOMAIN list : list[k] = Crc[flash[exec.blk + k]]
    OBVIOUS
  <2> HIDE DEF list
  <2>3. QED
    BY <2>1, <2>2, AnswerAppends
<1>7. QED
  BY <1>1, <1>2, <1>4, <1>5, <1>6
     DEF Receive, Execute, LineFault, FlashFault, Arrive, Unheard, TakeCommand, Reboot,
         BootFails, PowerOn, EnterUpdate, LoseFrame, Noise, PowerCut

\* Every step of the device, the line and the power keeps the lists true.
LEMMA DeviceKeepsLists ==
  ASSUME TypeOK, Lockstep, Lists, UNCHANGED hostVars,
         Receive \/ Execute \/ PowerOn \/ EnterUpdate \/ LineFault \/ FlashFault \/ PowerCut
  PROVE  Lists'
<1>1. UNCHANGED <<pc, file, blk, crcs>> /\ Req' = Req /\ (Asking' <=> Asking) /\ Units' = Units
  BY HostUnmoved DEF Units, UnitsOf
<1>2. MutatingAlone'
  BY DeviceKeepsAlone DEF Lists
<1>3. BlkOK'
  BY <1>1 DEF Lists, BlkOK
<1>4. pc \in {"fetch", "verify", "reboot"} => flash' = flash
  BY DeviceChanges, MutatorIsOurs DEF Lists, Asking
<1>5. ASSUME pc \in {"fetch", "verify"}, NEW i \in 1 .. Len(tx'), tx'[i].cmd = Req
      PROVE  \A k \in DOMAIN tx'[i].list : tx'[i].list[k] = Crc[flash[blk + k]]
  <2>1. Req.op = "CRC" /\ Req.blk = blk
    BY <1>5 DEF Req, Request, Cmd
  <2>2. CASE i \in 1 .. Len(tx) /\ tx'[i] = tx[i]
    BY <1>5, <2>2 DEF Lists, ListsFresh
  <2>3. QED
    BY <1>5, <2>1, <2>2, ReplyOrigin
<1>6. ListsFresh'
  BY <1>1, <1>4, <1>5 DEF Lists, ListsFresh, Fresh
<1>7. QED
  BY <1>2, <1>3, <1>6 DEF Lists

----------------------------------------------------------------------------
(* Steps of the tool *)

\* MutatingAlone and BlkOK
LEMMA HostKeepsAlone ==
  ASSUME TypeOK, Lockstep, MutatingAlone, Close \/ StartSession \/ SendInit \/ InitAnswered \/ CheckAnswered
  PROVE  MutatingAlone'
<1> USE NoFrameType DEF MutatingAlone, Mutating, Entering
<1>1. CASE Close
  BY <1>1 DEF Close, Stale, NoFrame
<1>2. CASE StartSession
  BY <1>2 DEF StartSession
<1>3. CASE SendInit
  BY <1>3 DEF SendInit, Ask, Request, Cmd
<1>4. CASE InitAnswered
  BY <1>4 DEF InitAnswered, Accept, Ask, Request, Cmd, HostOnly
<1>5. CASE CheckAnswered
  BY <1>5 DEF CheckAnswered, Accept, Ask, Request, Cmd, HostOnly
<1>6. QED
  BY <1>1, <1>2, <1>3, <1>4, <1>5

\* What the tool has fetched once a batch is answered: the checksums of the
\* flash, up to the end of the batch.
LEMMA FetchedFresh ==
  ASSUME TypeOK, Lockstep, Lists, pc \in {"fetch", "verify"}, tx # <<>>, Answers(Head(tx))
  PROVE  /\ NextBatch \in 1 .. file.len
         /\ \A b \in 0 .. NextBatch - 1 : b \in Block /\ Fetched[b] = Crc[flash[b]]
<1>1. /\ Head(tx) = tx[1] /\ tx[1].cmd = Req /\ Len(tx) = 1
  BY AcceptedIsOurs DEF Waiting, Phase
<1>2. blk \in Units /\ Asking
  BY DEF Lists, BlkOK, Asking
<1>3. file.len \in 0 .. N /\ blk \in 0 .. file.len - 1
  BY <1>2, FileType DEF Units, UnitsOf
<1>4. BatchSize(blk) \in 1 .. file.len - blk
  BY <1>3, BatchAssumption DEF BatchSize
<1>5. NextBatch \in 1 .. file.len
  BY <1>3, <1>4 DEF NextBatch
<1>6. DOMAIN tx[1].list = 0 .. BatchSize(blk) - 1
  BY <1>1 DEF Answers, Request, Cmd
<1>7. \A k \in DOMAIN tx[1].list : tx[1].list[k] = Crc[flash[blk + k]]
  BY <1>1 DEF Lists, ListsFresh
<1>8. ASSUME NEW b \in 0 .. NextBatch - 1 PROVE b \in Block /\ Fetched[b] = Crc[flash[b]]
  <2>1. b \in Block
    BY <1>3, <1>5, SizeAssumption DEF Block
  <2>2. CASE b < blk
    <3>1. b \in 0 .. blk - 1 /\ b \notin blk .. NextBatch - 1
      BY <1>3, <2>1, <2>2 DEF Block
    <3>2. Fetched[b] = crcs[b]
      BY <2>1, <3>1 DEF Fetched
    <3>3. QED
      BY <2>1, <3>1, <3>2 DEF Lists, ListsFresh, Fresh
  <2>3. CASE b >= blk
    <3>1. b \in blk .. NextBatch - 1 /\ b - blk \in 0 .. BatchSize(blk) - 1 /\ blk + (b - blk) = b
      BY <1>3, <1>4, <2>1, <2>3 DEF Block, NextBatch
    <3>2. Fetched[b] = tx[1].list[b - blk]
      BY <1>1, <2>1, <3>1 DEF Fetched
    <3>3. QED
      BY <1>6, <1>7, <2>1, <3>1, <3>2
  <2>4. QED
    BY <1>3, <2>1, <2>2, <2>3 DEF Block
<1>9. QED
  BY <1>5, <1>8

\* The whole list is there once the last batch is.
LEMMA AllFetched ==
  ASSUME TypeOK, Lockstep, Lists, pc \in {"fetch", "verify"}, tx # <<>>, Answers(Head(tx)),
         NextBatch \notin Units
  PROVE  \A b \in Units : Fetched[b] = Crc[flash[b]]
<1>1. NextBatch = file.len
  BY FetchedFresh, FileType DEF Units, UnitsOf
<1>2. QED
  BY <1>1, FetchedFresh DEF Units, UnitsOf

\* A later request with nothing under way: only the lists themselves remain.
LEMMA AdvanceKeepsLists ==
  ASSUME TypeOK, Lockstep, Lists, pc \in Waiting \ {"init", "check"},
         NEW p \in Phase \ {"idle", "opened", "init", "check"}, NEW b \in Units,
         p \in {"erase", "write"} => b # 0,
         p \in {"eraseHead", "writeHead"} => b = 0,
         Accept(pc), Ask(p, b), HostOnly,
         p \in {"fetch", "verify"} => \A j \in 0 .. b - 1 : crcs'[j] = Crc[flash[j]],
         p = "fetch" => b # 0,
         p = "reboot" => \A j \in Units : Crc[flash[j]] = Crc[file.unit[j]]
  PROVE  Lists'
<1>1. /\ exec' = NoFrame /\ rx' = NoFrame /\ tx' = <<>> /\ Len(tx') = 0
      /\ UNCHANGED <<file, flash>>
  BY AcceptedIsOurs, EmptySeq DEF Accept, HostOnly
<1>2. pc' = p /\ blk' = b /\ wire' = Request(p, b) /\ Units' = Units
  BY <1>1, AskedIsReq DEF Ask, Units, UnitsOf
<1>3. MutatingAlone'
  BY <1>1, <1>2, RequestMutates, NoFrameType DEF MutatingAlone, Entering, Mutating
<1>4. BlkOK'
  BY <1>2 DEF BlkOK
<1>5. ListsFresh'
  BY <1>1, <1>2 DEF ListsFresh, Fresh
<1>6. QED
  BY <1>3, <1>4, <1>5 DEF Lists

\* Going on to the next differing unit.
LEMMA NextDirtyKeepsLists ==
  ASSUME TypeOK, Lockstep, Lists, pc \in {"eraseHead", "write"},
         Accept(pc), NEW b \in Block, NextDirty(b), HostOnly
  PROVE  Lists'
<1>1. 0 \in Units /\ \A j \in Dirty(b) : j \in Units /\ j # 0
  BY FileType DEF Lists, BlkOK, Asking, Dirty, Units, UnitsOf, Block
<1>2. CASE Ask("writeHead", 0)
  BY <1>1, <1>2, AdvanceKeepsLists DEF Waiting, Phase
<1>3. ASSUME NEW j \in Dirty(b), Ask("erase", j) PROVE Lists'
  BY <1>1, <1>3, AdvanceKeepsLists DEF Waiting, Phase
<1>4. QED
  BY <1>2, <1>3 DEF NextDirty

\* The first CRC command: no list yet, and no answer to it.
LEMMA CheckAnsweredKeepsLists ==
  ASSUME TypeOK, Lockstep, Lists, CheckAnswered
  PROVE  Lists'
<1>1. Ask("fetch", 0) /\ UNCHANGED <<file, flash>> /\ Units # {}
  BY DEF CheckAnswered, HostOnly
<1>2. /\ Asking' /\ pc' = "fetch" /\ blk' = 0 /\ wire' = Req' /\ Req'.op \in Opcode
      /\ Units' = Units
  BY <1>1, AskedIsReq DEF Phase, Units, UnitsOf
<1>3. 0 \in Units
  BY <1>1, FileType DEF Units, UnitsOf
<1>4. \A i \in 1 .. Len(tx') : tx'[i].cmd # Req'
  BY <1>2, EnterKeepsLockstep, NoFrameType DEF Lockstep, AwaitedLast, Opcode
<1>5. MutatingAlone'
  BY HostKeepsAlone DEF Lists
<1>6. BlkOK'
  BY <1>2, <1>3 DEF BlkOK
<1>7. ListsFresh'
  BY <1>2, <1>4 DEF ListsFresh
<1>8. QED
  BY <1>5, <1>6, <1>7 DEF Lists

\* Every step of the tool keeps the lists true.
LEMMA HostKeepsLists ==
  ASSUME TypeOK, Lockstep, Lists, HostStep \/ StartSession \/ Abandon
  PROVE  Lists'
<1>1. CASE Close \/ StartSession \/ SendInit \/ InitAnswered
  <2>1. pc' \in {"idle", "opened", "init", "check"}
    BY <1>1 DEF Close, StartSession, SendInit, InitAnswered, Ask
  <2>2. BlkOK' /\ ListsFresh'
    BY <2>1 DEF BlkOK, ListsFresh, Asking
  <2>3. QED
    BY <1>1, <2>2, HostKeepsAlone DEF Lists
<1>2. CASE CheckAnswered
  BY <1>2, CheckAnsweredKeepsLists
<1>3. ASSUME NEW p \in {"fetch", "verify"}, BatchAnswered(p) PROVE Lists'
  <2>1. /\ pc = p /\ Accept(pc) /\ NextBatch \in Units /\ Ask(p, NextBatch) /\ HostOnly
        /\ tx # <<>> /\ Answers(Head(tx)) /\ crcs' = Fetched
    BY <1>3 DEF BatchAnswered, Accept
  <2>2. NextBatch # 0 /\ \A b \in 0 .. NextBatch - 1 : crcs'[b] = Crc[flash[b]]
    BY <2>1, FetchedFresh
  <2>3. QED
    BY <2>1, <2>2, AdvanceKeepsLists DEF Waiting, Phase
<1>4. CASE FetchDone \/ Verified
  <2>1. /\ pc \in {"fetch", "verify"} /\ Accept(pc) /\ NextBatch \notin Units /\ HostOnly
        /\ tx # <<>> /\ Answers(Head(tx))
        /\ \/ SameCrcs(Fetched) /\ Ask("reboot", 0)
           \/ Ask("eraseHead", 0)
    BY <1>4 DEF FetchDone, Verified, Accept
  <2>2. 0 \in Units
    BY <2>1, FileType DEF Lists, BlkOK, Asking, Units, UnitsOf, Block
  <2>3. \A b \in Units : Fetched[b] = Crc[flash[b]]
    BY <2>1, AllFetched
  <2>4. SameCrcs(Fetched) => \A b \in Units : Crc[flash[b]] = Crc[file.unit[b]]
    BY <2>3 DEF SameCrcs
  <2>5. CASE SameCrcs(Fetched) /\ Ask("reboot", 0)
    BY <2>1, <2>2, <2>4, <2>5, AdvanceKeepsLists DEF Waiting, Phase
  <2>6. CASE Ask("eraseHead", 0)
    BY <2>1, <2>2, <2>6, AdvanceKeepsLists DEF Waiting, Phase
  <2>7. QED
    BY <2>1, <2>5, <2>6
<1>5. CASE HeadErased \/ UnitWritten
  <2>1. /\ pc \in {"eraseHead", "write"} /\ Accept(pc) /\ HostOnly
        /\ \E b \in {0, blk} : NextDirty(b)
    BY <1>5 DEF HeadErased, UnitWritten, Accept
  <2>2. QED
    BY <2>1, ZeroBlock, NextDirtyKeepsLists DEF TypeOK
<1>6. CASE UnitErased
  <2>1. pc = "erase" /\ Accept(pc) /\ HostOnly /\ Ask("write", blk) /\ blk \in Units /\ blk # 0
    BY <1>6 DEF UnitErased, Accept, Lists, BlkOK, Asking
  <2>2. QED
    BY <2>1, AdvanceKeepsLists DEF Waiting, Phase
<1>7. CASE HeadWritten
  <2>1. pc = "writeHead" /\ Accept(pc) /\ HostOnly /\ Ask("verify", 0) /\ 0 \in Units
    BY <1>7 DEF HeadWritten, Accept, Lists, BlkOK, Asking
  <2>2. QED
    BY <2>1, AdvanceKeepsLists DEF Waiting, Phase
<1>8. QED
  BY <1>1, <1>2, <1>3, <1>4, <1>5, <1>6, <1>7
     DEF HostStep, FileTooShort, VerifyFails, RebootSent, BadAnswer, Timeout, Abandon

----------------------------------------------------------------------------
(* The theorems *)

\* There is no list when the system starts.
LEMMA InitLists == ASSUME Init PROVE Lists
<1>1. pc = "idle" /\ rx = NoFrame /\ exec = NoFrame /\ wire = NoFrame
  BY DEF Init
<1>2. QED
  BY <1>1, NoFrameType DEF Lists, MutatingAlone, BlkOK, ListsFresh, Mutating, Entering, Asking

\* Every step keeps the lists true.
LEMMA NextLists == ASSUME TypeOK, Lockstep, Lists, [Next]_vars PROVE Lists'
<1>1. CASE HostStep \/ StartSession \/ Abandon
  BY <1>1, HostKeepsLists
<1>2. CASE DeviceStep \/ (EnterUpdate /\ UNCHANGED hostVars)
           \/ ((LineFault \/ FlashFault \/ PowerCut) /\ UNCHANGED hostVars)
  BY <1>2, DeviceKeepsLists DEF DeviceStep
<1>3. CASE UNCHANGED vars
  <2>1. /\ UNCHANGED hostVars /\ UNCHANGED <<flash, tx, rx, exec, wire>>
    BY <1>3 DEF vars, hostVars
  <2>2. UNCHANGED <<pc, file, blk, crcs>> /\ Req' = Req /\ (Asking' <=> Asking) /\ Units' = Units
    BY <2>1, HostUnmoved DEF Units, UnitsOf
  <2>3. MutatingAlone' /\ BlkOK' /\ ListsFresh'
    BY <2>1, <2>2 DEF Lists, MutatingAlone, Mutating, Entering, BlkOK, ListsFresh, Fresh
  <2>4. QED
    BY <2>3 DEF Lists
<1>4. QED
  BY <1>1, <1>2, <1>3 DEF Next, User, Fault

\* Lists, for every zone size, set of files, checksum and flash behaviour.
THEOREM ListsHold == Spec => []Lists
<1>1. Init => TypeOK /\ Lockstep /\ Lists
  BY InitType, InitLockstep, InitLists
<1>2. TypeOK /\ Lockstep /\ Lists /\ [Next]_vars => (TypeOK /\ Lockstep /\ Lists)'
  BY NextType, NextLockstep, NextLists
<1>3. QED
  BY <1>1, <1>2, PTL DEF Spec

\* The reboot is asked for only when every unit has the checksum of the file's.
THEOREM OkIsTrue == Spec => []OkMeansFlashed
<1>1. TypeOK /\ Lists => OkMeansFlashed
  BY FileType DEF Lists, ListsFresh, BlkOK, OkMeansFlashed, Matches, Asking, Units, UnitsOf
<1>2. QED
  BY <1>1, TypeCorrect, ListsHold, PTL

\* The unit just asked for is the only one that changes after the first CRC command.
THEOREM ListsStayTrue == Spec => ListStaysTrue
<1> DEFINE A == (pc \in Waiting \ {"init", "check"}) =>
       \A b \in Block : (flash'[b] # flash[b] =>
           b = blk /\ pc \in {"eraseHead", "erase", "write", "writeHead"})
<1>1. ASSUME TypeOK, Lockstep, Lists, [Next]_vars PROVE A
  <2>1. CASE UNCHANGED flash
    BY <2>1
  <2>2. CASE flash' # flash
    <3>1. Receive \/ Execute \/ PowerOn \/ EnterUpdate \/ LineFault \/ FlashFault \/ PowerCut
      BY <1>1, <2>2 DEF Next, HostStep, DeviceStep, User, Fault, StartSession, Abandon, Close,
         SendInit, InitAnswered, CheckAnswered, FileTooShort, BatchAnswered, FetchDone, HeadErased,
         UnitErased, UnitWritten, HeadWritten, Verified, VerifyFails, RebootSent, BadAnswer,
         Timeout, HostOnly, vars
    <3>2. QED
      BY <1>1, <3>1, <2>2, DeviceChanges, MutatorIsOurs DEF Lists, Asking, Waiting
  <2>3. QED
    BY <2>1, <2>2
<1>2. TypeOK /\ Lockstep /\ Lists /\ [Next]_vars => [A]_vars
  BY <1>1
<1>3. QED
  BY <1>2, TypeCorrect, LockstepHolds, ListsHold, PTL DEF Spec, ListStaysTrue
=============================================================================
