--------------------------- MODULE UartZoneProofs ---------------------------
(***************************************************************************)
(* A zone that mounts holds one image completely: Zone is inductive on top *)
(* of Lockstep and Lists, as long as a flash operation that reports        *)
(* success did what it was asked.                                          *)
(***************************************************************************)
EXTENDS UartLockstepProofs

----------------------------------------------------------------------------
(* Steps that leave the flash alone *)

\* The parts of Zone about the zone itself do not move with the flash still.
LEMMA StillZone ==
  ASSUME UNCHANGED flash, BootsComplete
  PROVE  BootsComplete'
BY DEF BootsComplete, Mountable, Matches

\* The position of the tool, with flash and tool still.
LEMMA StillProgress ==
  ASSUME UNCHANGED flash, UNCHANGED hostVars, Progress
  PROVE  Progress'
BY DEF hostVars, Progress, Fresh, Done, Units, UnitsOf

\* What is Safe, frame by frame: commands that change nothing are.
LEMMA SafeFrames ==
  ASSUME Zone
  PROVE  Safe(rx) /\ Safe(exec) /\ Safe(wire) /\ Safe(NoFrame)
BY NoFrameType DEF Zone, Safe

----------------------------------------------------------------------------
(* Steps of the device that change the flash *)

\* What a mutating step leaves in the block it works on
LEMMA MutationOutcome ==
  ASSUME TypeOK,
         Receive \/ Execute \/ PowerOn \/ EnterUpdate \/ LineFault \/ FlashFault \/ PowerCut,
         Mutating(exec), UNCHANGED hostVars
  PROVE  flash'[exec.blk] \in {flash[exec.blk], Outcome, Torn}
<1> USE OutcomeType DEF TypeOK, DevTypeOK
<1>1. CASE UNCHANGED flash
  BY <1>1
<1>2. CASE Erase
  BY <1>2 DEF Erase
<1>3. CASE WriteFlash
  BY <1>3 DEF WriteFlash, WriteEffects
<1>4. CASE FlashFails \/ FlashLies
  BY <1>4 DEF FlashFails, FlashLies
<1>5. CASE PowerCut
  BY <1>5 DEF PowerCut, Mutating
<1>6. QED
  BY <1>1, <1>2, <1>3, <1>4, <1>5
  DEF Receive, Execute, LineFault, FlashFault, Arrive, Unheard, TakeCommand, DeviceInit,
      DeviceCheck, FlashCrc, Reboot, BootFails, PowerOn, EnterUpdate, LoseFrame, Noise, LoseReply, InitFails

\* A program finds its cells erased and leaves its data, an erase leaves Erased.
LEMMA SafeOutcome ==
  ASSUME Safe(exec), Mutating(exec)
  PROVE  Outcome = IF exec.op = "ERASE" THEN Erased ELSE exec.data
BY DEF Safe, Outcome, Programmed, Mutating

\* BootsComplete
LEMMA MutationKeepsZone ==
  ASSUME TypeOK, Zone, Mutating(exec), flash' \in [Block -> Content],
         \A b \in Block : b # exec.blk => flash'[b] = flash[b],
         flash'[exec.blk] \in {flash[exec.blk], Outcome, Torn}
  PROVE  BootsComplete'
<1> USE ContentAssumption, ZeroBlock
<1>1. Safe(exec) /\ exec.blk \in Block
  BY SafeFrames, OutcomeType
<1>2. CASE exec.blk # 0
  <2>1. ~Mountable(flash) /\ flash'[0] = flash[0]
    BY <1>1, <1>2 DEF Safe, Mutating
  <2>2. QED
    BY <2>1 DEF BootsComplete, Mountable
<1>3. CASE exec.blk = 0 /\ flash'[0] \notin Heads
  BY <1>3 DEF BootsComplete, Mountable
<1>4. CASE exec.blk = 0 /\ flash'[0] = flash[0]
  <2>1. \A b \in Block : flash'[b] = flash[b]
    BY <1>4
  <2>2. flash' = flash
    BY <2>1 DEF TypeOK, DevTypeOK
  <2>3. QED
    BY <2>2, StillZone DEF Zone
<1>5. CASE exec.blk = 0 /\ flash'[0] = Outcome /\ Outcome # Erased
  <2>1. exec.op = "WRITE" /\ Outcome = exec.data
    BY <1>1, <1>5, SafeOutcome DEF Mutating
  <2>2. PICK img \in Images :
          /\ img.len > 0 /\ exec.data = img.unit[0]
          /\ \A b \in UnitsOf(img) \ {0} : Crc[flash[b]] = Crc[img.unit[b]]
    BY <1>1, <1>5, <2>1 DEF Safe
  <2>3. UnitsOf(img) \subseteq Block
    <3>1. img.len \in 0 .. N
      BY ImageAssumption DEF Image
    <3>2. QED
      BY <3>1, SizeAssumption DEF UnitsOf, Block
  <2>4. \A b \in UnitsOf(img) : Crc[flash'[b]] = Crc[img.unit[b]]
    BY <1>5, <2>1, <2>2, <2>3
  <2>5. QED
    BY <2>2, <2>4 DEF BootsComplete, Matches
<1>6. QED
  BY <1>1, <1>2, <1>3, <1>4, <1>5

\* Only the block the tool waits for moves under it.
LEMMA MutationKeepsProgress ==
  ASSUME TypeOK, Lockstep, Lists, Zone, UNCHANGED hostVars, Mutating(exec),
         \A b \in Block : b # exec.blk => flash'[b] = flash[b]
  PROVE  Progress'
<1>1. UNCHANGED <<pc, file, blk, crcs>> /\ Units' = Units
  BY HostUnmoved DEF Units, UnitsOf
<1>2. Units \subseteq Block
  BY FileType
<1>3. ASSUME pc \in {"eraseHead", "erase", "write", "writeHead"}
      PROVE  \A b \in Block : b # blk => flash'[b] = flash[b]
  BY <1>3, MutatorIsOurs DEF Lists, Asking
<1>4. (pc = "eraseHead" => \A b \in Units \ {0} : Fresh(b))'
  BY <1>1, <1>2, <1>3 DEF Zone, Progress, Fresh, Lists, BlkOK
<1>5. (pc \in {"erase", "write"} =>
       /\ flash[0] = Erased
       /\ \A b \in Units \ {0} : (b < blk => Done(b)) /\ (b > blk => Fresh(b)))'
  <2>1. SUFFICES ASSUME pc \in {"erase", "write"}
                 PROVE  /\ flash'[0] = Erased
                        /\ \A b \in Units \ {0} :
                             /\ b < blk => Crc[flash'[b]] = Crc[file.unit[b]]
                             /\ b > blk => crcs[b] = Crc[flash'[b]]
    BY <1>1 DEF Fresh, Done
  <2>2. blk # 0 /\ blk \in Int /\ \A b \in Units : b \in Int
    BY <1>2, <2>1 DEF Lists, BlkOK, TypeOK, Block
  <2>3. QED
    BY <1>2, <1>3, <2>1, <2>2, ZeroBlock DEF Zone, Progress, Fresh, Done
<1>6. (pc = "writeHead" => \A b \in Units \ {0} : Done(b))'
  BY <1>1, <1>2, <1>3 DEF Zone, Progress, Done, Lists, BlkOK
<1>7. QED
  BY <1>4, <1>5, <1>6 DEF Progress

----------------------------------------------------------------------------
(* Steps of device, line and power *)

\* Safe
LEMMA DeviceKeepsSafe ==
  ASSUME TypeOK, Lockstep, Lists, Zone, UNCHANGED hostVars,
         Receive \/ Execute \/ PowerOn \/ EnterUpdate \/ LineFault \/ FlashFault \/ PowerCut
  PROVE  (\A f \in {rx, exec, wire} : Safe(f))'
<1>1. Safe(rx) /\ Safe(exec) /\ Safe(wire) /\ Safe(NoFrame)
  BY SafeFrames
<1>2. {rx', exec', wire'} \subseteq {rx, exec, wire, NoFrame}
  BY DEF Receive, Execute, LineFault, FlashFault, Arrive, Unheard, TakeCommand, DeviceInit,
     DeviceCheck, FlashCrc, Erase, WriteFlash, FlashFails, FlashLies, PowerCut, Reboot, BootFails, PowerOn,
     EnterUpdate, LoseFrame, Noise, LoseReply, InitFails, Answer
<1>3. CASE UNCHANGED flash
  <2>1. ASSUME NEW f \in {rx, exec, wire, NoFrame}
        PROVE  /\ f.op = "ERASE" /\ f.blk # 0 => ~Mountable(flash)'
               /\ f.op = "WRITE" => flash'[f.blk] = Erased
               /\ f.op = "WRITE" /\ f.blk # 0 => ~Mountable(flash)'
               /\ f.op = "WRITE" /\ f.blk = 0 =>
                    \E img \in Images :
                      /\ img.len > 0 /\ f.data = img.unit[0]
                      /\ \A b \in UnitsOf(img) \ {0} : Crc[flash'[b]] = Crc[img.unit[b]]
    BY <1>1, <1>3, <2>1 DEF Safe, Mountable
  <2>2. QED
    BY <1>2, <2>1 DEF Safe
<1>4. CASE flash' # flash
  <2>1. Mutating(exec)
    BY <1>4, DeviceChanges
  <2>2. ~Mutating(rx) /\ ~Mutating(wire)
    BY <2>1, NoFrameType DEF Lists, MutatingAlone, Mutating
  <2>3. exec' = NoFrame /\ UNCHANGED wire /\ rx' \in {rx, NoFrame}
    BY <1>4 DEF Receive, Execute, LineFault, FlashFault, Arrive, Unheard, TakeCommand, DeviceInit,
       DeviceCheck, FlashCrc, Erase, WriteFlash, FlashFails, FlashLies, PowerCut, Reboot, BootFails, PowerOn,
       EnterUpdate, LoseFrame, Noise, LoseReply, InitFails, Answer
  <2>4. \A f \in {rx', exec', wire'} : ~Mutating(f)
    BY <2>2, <2>3, NoFrameType DEF Mutating
  <2>5. QED
    BY <2>4 DEF Safe, Mutating
<1>5. QED
  BY <1>3, <1>4

\* A success on its way was earned: unless operations lie, an answer "SUSS" to
\* an erase or a program is given by the step that did it.
LEMMA SuccessOrigin ==
  ASSUME TypeOK, Zone, SilentFaults = FALSE, NEW i \in 1 .. Len(tx'),
         Receive \/ Execute \/ PowerOn \/ EnterUpdate \/ LineFault \/ FlashFault \/ PowerCut,
         tx'[i].status = "SUSS", ~(i \in 1 .. Len(tx) /\ tx'[i] = tx[i])
  PROVE  /\ tx'[i].cmd = exec
         /\ Mutating(exec) => flash'[exec.blk] = Outcome
<1>1. tx'[i].cmd = exec
  BY ReplyOrigin
<1>2. CASE ~Mutating(exec)
  BY <1>1, <1>2
<1>3. ASSUME NEW status \in {"SUSS", "ERROR"}, Answer(status, NoList)
      PROVE  status = "SUSS"
  BY <1>3, NoListType, AnswerAppends
<1>4. CASE Mutating(exec)
  <2>1. CASE Erase
    BY <1>1, <2>1, OutcomeType DEF Erase, TypeOK, DevTypeOK
  <2>2. CASE WriteFlash
    <3>1. PICK e \in WriteEffects :
            flash' = [flash EXCEPT ![exec.blk] = e[1]] /\ Answer(e[2], NoList)
      BY <2>2 DEF WriteFlash
    <3>2. e[2] \in {"SUSS", "ERROR"} /\ (e[2] = "SUSS" => e[1] = Outcome)
      BY <3>1 DEF WriteEffects
    <3>3. QED
      BY <1>1, <1>3, <3>1, <3>2, OutcomeType DEF TypeOK, DevTypeOK
  <2>3. CASE FlashFails
    BY <1>3, <2>3 DEF FlashFails
  <2>4. CASE UNCHANGED tx \/ LoseReply
    BY <2>4, LoseReplyShortens
  <2>5. QED
    BY <1>4, <2>1, <2>2, <2>3, <2>4
    DEF Receive, Execute, LineFault, FlashFault, Arrive, Unheard, TakeCommand, DeviceInit,
        DeviceCheck, FlashCrc, FlashLies, PowerCut, Reboot, BootFails, PowerOn, EnterUpdate, LoseFrame,
        Noise, InitFails, Handles, Mutating
<1>5. QED
  BY <1>1, <1>2, <1>4

\* Successes
LEMMA DeviceKeepsSuccesses ==
  ASSUME TypeOK, Lockstep, Lists, Zone, SilentFaults = FALSE, UNCHANGED hostVars,
         Receive \/ Execute \/ PowerOn \/ EnterUpdate \/ LineFault \/ FlashFault \/ PowerCut
  PROVE  Successes'
<1> SUFFICES ASSUME Asking, NEW i \in 1 .. Len(tx'), tx'[i].cmd = Req, tx'[i].status = "SUSS"
             PROVE  /\ Req.op = "ERASE" => flash'[Req.blk] = Erased
                    /\ Req.op = "WRITE" => flash'[Req.blk] = Req.data
  BY HostUnmoved DEF Successes, Succeeded
<1>1. CASE i \in 1 .. Len(tx) /\ tx'[i] = tx[i]
  <2>1. exec = NoFrame
    BY <1>1 DEF Lockstep, AwaitedLast
  <2>2. flash' = flash
    BY <2>1, DeviceChanges, NoFrameType DEF Mutating
  <2>3. QED
    BY <1>1, <2>2 DEF Zone, Successes, Succeeded
<1>2. CASE ~(i \in 1 .. Len(tx) /\ tx'[i] = tx[i])
  <2>1. /\ exec = Req
        /\ Mutating(exec) => flash'[exec.blk] = Outcome
    BY <1>2, SuccessOrigin
  <2>2. QED
    BY <2>1, SafeFrames, SafeOutcome DEF Mutating
<1>3. QED
  BY <1>1, <1>2

\* Every step of the device, the line and the power keeps the zone.
LEMMA DeviceKeepsZone ==
  ASSUME TypeOK, Lockstep, Lists, Zone, SilentFaults = FALSE, UNCHANGED hostVars,
         Receive \/ Execute \/ PowerOn \/ EnterUpdate \/ LineFault \/ FlashFault \/ PowerCut
  PROVE  Zone'
<1>1. BootsComplete' /\ Progress'
  <2>1. CASE UNCHANGED flash
    BY <2>1, StillZone, StillProgress DEF Zone
  <2>2. CASE flash' # flash
    BY <2>2, DeviceChanges, MutationOutcome, MutationKeepsZone, MutationKeepsProgress
  <2>3. QED
    BY <2>1, <2>2
<1>2. QED
  BY <1>1, DeviceKeepsSafe, DeviceKeepsSuccesses DEF Zone

----------------------------------------------------------------------------
(* Steps of the tool *)

\* The tool never touches the flash.
LEMMA HostLeavesFlash ==
  ASSUME HostStep \/ StartSession \/ Abandon
  PROVE  UNCHANGED flash
BY DEF HostStep, StartSession, Abandon, Close, SendInit, InitAnswered, CheckAnswered, FileTooShort,
   BatchAnswered, FetchDone, HeadErased, UnitErased, UnitWritten, HeadWritten, Verified, VerifyFails,
   RebootSent, BadAnswer, Timeout, HostOnly

\* A session that opens or closes: the frames under way keep what they ask.
LEMMA CloseKeepsZone ==
  ASSUME TypeOK, Zone, Close \/ StartSession
  PROVE  Zone'
<1>1. UNCHANGED flash /\ pc' \in {"idle", "opened"}
  BY DEF Close, StartSession
<1>2. \A f \in {rx', exec', wire'} : \E g \in {rx, exec, wire, NoFrame} :
        f.op = g.op /\ f.blk = g.blk /\ f.data = g.data
  BY DEF Close, StartSession, Stale
<1>3. (\A f \in {rx, exec, wire} : Safe(f))'
  <2>1. ASSUME NEW f \in {rx', exec', wire'}
        PROVE  /\ f.op = "ERASE" /\ f.blk # 0 => ~Mountable(flash)'
               /\ f.op = "WRITE" => flash'[f.blk] = Erased
               /\ f.op = "WRITE" /\ f.blk # 0 => ~Mountable(flash)'
               /\ f.op = "WRITE" /\ f.blk = 0 =>
                    \E img \in Images :
                      /\ img.len > 0 /\ f.data = img.unit[0]
                      /\ \A b \in UnitsOf(img) \ {0} : Crc[flash'[b]] = Crc[img.unit[b]]
    <3>1. PICK g \in {rx, exec, wire, NoFrame} :
            f.op = g.op /\ f.blk = g.blk /\ f.data = g.data
      BY <1>2, <2>1
    <3>2. Safe(g)
      BY SafeFrames
    <3>3. QED
      BY <1>1, <3>1, <3>2 DEF Safe, Mountable
  <2>2. QED
    BY <2>1 DEF Safe
<1>4. BootsComplete'
  BY <1>1, StillZone DEF Zone
<1>5. Progress' /\ Successes'
  BY <1>1 DEF Progress, Successes, Asking
<1>6. QED
  BY <1>3, <1>4, <1>5 DEF Zone

\* A question that changes nothing.
LEMMA AskKeepsZone ==
  ASSUME TypeOK, Lockstep, Lists, Zone, UNCHANGED <<flash, rx, exec, file>>,
         NEW p \in {"init", "check", "fetch", "verify", "reboot"}, NEW b, Ask(p, b)
  PROVE  Zone'
<1>1. /\ pc' = p /\ wire' = Req' /\ Req'.op \notin {"ERASE", "WRITE"}
  <2>1. p \in Phase \ {"idle", "opened"}
    BY DEF Phase
  <2>2. pc' = p /\ wire' = Req' /\ Req' = Request(p, b)
    BY <2>1, AskedIsReq
  <2>3. Request(p, b).op \notin {"ERASE", "WRITE"}
    BY <2>1, RequestMutates DEF Mutating
  <2>4. QED
    BY <2>2, <2>3
<1>2. (\A f \in {rx, exec, wire} : Safe(f))'
  <2>1. ASSUME NEW f \in {rx, exec}
        PROVE  /\ f.op = "ERASE" /\ f.blk # 0 => ~Mountable(flash)'
               /\ f.op = "WRITE" => flash'[f.blk] = Erased
               /\ f.op = "WRITE" /\ f.blk # 0 => ~Mountable(flash)'
               /\ f.op = "WRITE" /\ f.blk = 0 =>
                    \E img \in Images :
                      /\ img.len > 0 /\ f.data = img.unit[0]
                      /\ \A c \in UnitsOf(img) \ {0} : Crc[flash'[c]] = Crc[img.unit[c]]
    BY <2>1, SafeFrames DEF Safe, Mountable
  <2>2. QED
    BY <1>1, <2>1 DEF Safe
<1>3. BootsComplete'
  BY StillZone DEF Zone
<1>4. Progress'
  BY <1>1 DEF Progress
<1>5. Successes'
  BY <1>1 DEF Successes, Succeeded
<1>6. QED
  BY <1>2, <1>3, <1>4, <1>5 DEF Zone

\* A mutating command is sent with nothing else under way.
LEMMA MutateKeepsZone ==
  ASSUME TypeOK, Lockstep, Lists, Zone, pc \in Waiting \ {"init", "check"},
         NEW p \in {"eraseHead", "erase", "write", "writeHead"}, NEW b,
         Accept(pc), Ask(p, b), HostOnly, Progress',
         LET f == Request(p, b)
         IN  /\ f.op = "ERASE" /\ b # 0 => ~Mountable(flash)
             /\ f.op = "WRITE" => flash[b] = Erased
             /\ f.op = "WRITE" /\ b # 0 => ~Mountable(flash)
             /\ f.op = "WRITE" /\ b = 0 =>
                  \E img \in Images :
                    /\ img.len > 0 /\ f.data = img.unit[0]
                    /\ \A c \in UnitsOf(img) \ {0} : Crc[flash[c]] = Crc[img.unit[c]]
  PROVE  Zone'
<1>1. /\ exec' = NoFrame /\ rx' = NoFrame /\ tx' = <<>> /\ Len(tx') = 0
      /\ UNCHANGED <<file, flash>> /\ wire' = Request(p, b)
  BY AcceptedIsOurs, EmptySeq DEF Accept, HostOnly, Ask
<1>2. Request(p, b).blk = b
  BY RequestMutates DEF Phase
<1>3. (\A f \in {rx, exec, wire} : Safe(f))'
  BY <1>1, <1>2, NoFrameType DEF Safe, Mountable
<1>4. Successes'
  BY <1>1 DEF Successes
<1>5. BootsComplete'
  BY <1>1, StillZone DEF Zone
<1>6. QED
  BY <1>3, <1>4, <1>5 DEF Zone

\* What the success of the last command says to the tool
LEMMA AcceptedSuccess ==
  ASSUME TypeOK, Lockstep, Zone, pc \in {"eraseHead", "erase", "write"},
         tx # <<>>, Answers(Head(tx))
  PROVE  /\ Req.op = "ERASE" => flash[Req.blk] = Erased
         /\ Req.op = "WRITE" => flash[Req.blk] = Req.data
<1>1. Head(tx) = tx[1] /\ tx[1].cmd = Req /\ Len(tx) = 1 /\ Asking
  BY AcceptedIsOurs DEF Waiting, Phase, Asking
<1>2. tx[1].status = "SUSS"
  BY <1>1 DEF Answers
<1>3. QED
  BY <1>1, <1>2 DEF Zone, Successes, Succeeded

\* From block b on: erase the next differing unit, or write the head.
LEMMA NextDirtyKeepsZone ==
  ASSUME TypeOK, Lockstep, Lists, Zone, pc \in {"eraseHead", "write"},
         Accept(pc), NEW b \in Block, NextDirty(b), HostOnly, UNCHANGED crcs,
         flash[0] = Erased,
         \A j \in Units \ {0} : (j <= b => Done(j)) /\ (j > b => Fresh(j))
  PROVE  Zone'
<1> USE ContentAssumption
<1>1. /\ UNCHANGED <<file, flash, crcs>> /\ Units' = Units
      /\ ~Mountable(flash) /\ b \in Int
      /\ \A j \in Units : j \in Int /\ j >= 0
  BY FileType DEF HostOnly, Units, UnitsOf, Mountable, Block
<1>2. \A j \in Units \ {0} : j \notin Dirty(b) => Done(j)
  BY <1>1 DEF Dirty, Done, Fresh
<1>3. CASE Ask("writeHead", 0)
  <2>1. pc' = "writeHead" /\ Request("writeHead", 0).op = "WRITE"
        /\ Request("writeHead", 0).data = file.unit[0]
    BY <1>3 DEF Ask, Request, Cmd
  <2>2. CASE Dirty(b) = {}
    <3>1. \A j \in Units \ {0} : Crc[flash[j]] = Crc[file.unit[j]]
      BY <1>2, <2>2 DEF Done
    <3>2. Progress'
      BY <1>1, <2>1, <3>1 DEF Progress, Done
    <3>3. file \in Images /\ file.len > 0
      BY FileType DEF TypeOK, NoFile, Lists, BlkOK, Asking, Units, UnitsOf
    <3>4. QED
      BY <1>1, <1>3, <2>1, <3>1, <3>2, <3>3, MutateKeepsZone DEF Waiting, Phase, Units
  <2>3. QED
    BY <1>3, <2>1, <2>2 DEF NextDirty, Ask
<1>4. ASSUME NEW j \in Dirty(b), \A k \in Dirty(b) : j <= k, Ask("erase", j) PROVE Zone'
  <2>1. pc' = "erase" /\ blk' = j /\ Request("erase", j).op = "ERASE"
    BY <1>4 DEF Ask, Request, Cmd
  <2>2. j \in Units /\ j > b
    BY <1>4 DEF Dirty
  <2>3. \A k \in Units \ {0} :
          /\ k < j => Crc[flash[k]] = Crc[file.unit[k]]
          /\ k > j => crcs[k] = Crc[flash[k]]
    <3>1. \A k \in Units : k < j => k \notin Dirty(b)
      BY <1>1, <1>4, <2>2
    <3>2. QED
      BY <1>1, <1>2, <2>2, <3>1 DEF Done, Fresh
  <2>4. Progress'
    BY <1>1, <2>1, <2>3 DEF Progress, Done, Fresh
  <2>5. QED
    BY <1>1, <1>4, <2>1, <2>4, MutateKeepsZone DEF Waiting, Phase
<1>5. QED
  BY <1>3, <1>4 DEF NextDirty

\* Every step of the tool keeps the zone.
LEMMA HostKeepsZone ==
  ASSUME TypeOK, Lockstep, Lists, Zone, HostStep \/ StartSession \/ Abandon
  PROVE  Zone'
<1>1. CASE Close \/ StartSession
  BY <1>1, CloseKeepsZone
<1>2. CASE SendInit \/ InitAnswered \/ CheckAnswered \/ HeadWritten \/ Verified
           \/ BatchAnswered("fetch") \/ BatchAnswered("verify")
  <2>1. /\ \E p \in {"init", "check", "fetch", "verify", "reboot"}, b \in {0, NextBatch} : Ask(p, b)
        /\ UNCHANGED <<flash, rx, exec, file>>
    BY <1>2 DEF SendInit, InitAnswered, CheckAnswered, HeadWritten, Verified, BatchAnswered, HostOnly
  <2>2. QED
    BY <2>1, AskKeepsZone
<1>3. CASE FetchDone
  <2>1. /\ pc = "fetch" /\ Accept(pc) /\ tx # <<>> /\ Answers(Head(tx)) /\ NextBatch \notin Units
        /\ HostOnly /\ crcs' = Fetched /\ UNCHANGED <<flash, rx, exec, file>>
        /\ Ask("reboot", 0) \/ Ask("eraseHead", 0)
    BY <1>3 DEF FetchDone, Accept, HostOnly
  <2>2. CASE Ask("reboot", 0)
    BY <2>1, <2>2, AskKeepsZone
  <2>3. CASE Ask("eraseHead", 0)
    <3>1. pc' = "eraseHead" /\ Request("eraseHead", 0).op = "ERASE"
      BY <2>3 DEF Ask, Request, Cmd
    <3>2. \A b \in Units : Fetched[b] = Crc[flash[b]]
      BY <2>1, AllFetched
    <3>3. Progress'
      BY <2>1, <3>1, <3>2 DEF Progress, Fresh, Units, UnitsOf
    <3>4. QED
      BY <2>1, <2>3, <3>1, <3>3, MutateKeepsZone DEF Waiting, Phase
  <2>4. QED
    BY <2>1, <2>2, <2>3
<1>4. CASE HeadErased
  <2>1. /\ pc = "eraseHead" /\ Accept(pc) /\ tx # <<>> /\ Answers(Head(tx))
        /\ HostOnly /\ UNCHANGED crcs /\ NextDirty(0)
    BY <1>4 DEF HeadErased, Accept
  <2>2. Req.op = "ERASE" /\ Req.blk = 0
    BY <2>1 DEF Lists, BlkOK, Req, Request, Cmd
  <2>3. flash[0] = Erased
    BY <2>1, <2>2, AcceptedSuccess
  <2>4. \A j \in Units \ {0} : ~(j <= 0) /\ Fresh(j)
    BY <2>1, FileType DEF Zone, Progress, Units, UnitsOf
  <2>5. QED
    BY <2>1, <2>3, <2>4, ZeroBlock, NextDirtyKeepsZone
<1>5. CASE UnitWritten
  <2>1. /\ pc = "write" /\ Accept(pc) /\ tx # <<>> /\ Answers(Head(tx))
        /\ HostOnly /\ UNCHANGED crcs /\ NextDirty(blk) /\ blk \in Block
    BY <1>5 DEF UnitWritten, Accept, TypeOK
  <2>2. Req.op = "WRITE" /\ Req.blk = blk /\ Req.data = file.unit[blk]
    BY <2>1 DEF Req, Request, Cmd
  <2>3. Done(blk) /\ flash[0] = Erased
    BY <2>1, <2>2, AcceptedSuccess DEF Done, Zone, Progress
  <2>4. \A j \in Units \ {0} : (j <= blk => Done(j)) /\ (j > blk => Fresh(j))
    <3>1. \A j \in Units \ {0} : (j < blk => Done(j)) /\ (j > blk => Fresh(j))
      BY <2>1 DEF Zone, Progress
    <3>2. \A j \in Units : j \in Int /\ blk \in Int /\ (j <= blk => j < blk \/ j = blk)
      BY <2>1, FileType DEF Block
    <3>3. QED
      BY <2>3, <3>1, <3>2
  <2>5. QED
    BY <2>1, <2>3, <2>4, NextDirtyKeepsZone
<1>6. CASE UnitErased
  <2>1. /\ pc = "erase" /\ Accept(pc) /\ tx # <<>> /\ Answers(Head(tx))
        /\ HostOnly /\ UNCHANGED <<crcs, file, flash>> /\ Ask("write", blk)
        /\ pc' = "write" /\ blk' = blk /\ Units' = Units
    BY <1>6 DEF UnitErased, Accept, HostOnly, Ask, Units, UnitsOf
  <2>2. Req.op = "ERASE" /\ Req.blk = blk /\ blk # 0 /\ Request("write", blk).op = "WRITE"
    BY <2>1 DEF Req, Request, Cmd, Lists, BlkOK
  <2>3. flash[blk] = Erased /\ flash[0] = Erased
    BY <2>1, <2>2, AcceptedSuccess DEF Zone, Progress
  <2>4. Progress'
    BY <2>1 DEF Zone, Progress, Done, Fresh
  <2>5. ~Mountable(flash)
    BY <2>3, ContentAssumption DEF Mountable
  <2>6. QED
    BY <2>1, <2>2, <2>3, <2>4, <2>5, MutateKeepsZone DEF Waiting, Phase
<1>7. QED
  BY <1>1, <1>2, <1>3, <1>4, <1>5, <1>6
     DEF HostStep, FileTooShort, VerifyFails, RebootSent, BadAnswer, Timeout, Abandon

----------------------------------------------------------------------------
(* The theorems *)

\* A device leaves the factory blank or with an image.
LEMMA InitZone == ASSUME Init PROVE Zone
<1>1. /\ pc = "idle" /\ rx = NoFrame /\ exec = NoFrame /\ wire = NoFrame
  BY DEF Init
<1>2. BootsComplete
  <2>1. PICK img \in Images \cup {NoFile} : flash = Factory(img)
    BY DEF Init
  <2>2. SUFFICES ASSUME flash[0] \in Heads PROVE \E i \in Images : Matches(i)
    BY DEF BootsComplete, Mountable
  <2>3. 0 \in UnitsOf(img)
    BY <2>1, <2>2, ZeroBlock, ContentAssumption DEF Factory
  <2>4. img \in Images /\ img.len > 0
    <3>1. NoFile.len = 0
      BY DEF NoFile
    <3>2. NoFile \in Image
      BY ContentAssumption, SizeAssumption DEF NoFile, Image
    <3>3. img.len \in 0 .. N
      BY <3>2, ImageAssumption DEF Image
    <3>4. QED
      BY <2>3, <3>1, <3>3 DEF UnitsOf
  <2>5. UnitsOf(img) \subseteq Block
    <3>1. img.len \in 0 .. N
      BY <2>4, ImageAssumption DEF Image
    <3>2. QED
      BY <3>1, SizeAssumption DEF UnitsOf, Block
  <2>6. \A b \in UnitsOf(img) : flash[b] = img.unit[b]
    BY <2>1, <2>5 DEF Factory
  <2>7. QED
    BY <2>4, <2>6 DEF Matches
<1>3. \A f \in {rx, exec, wire} : Safe(f)
  BY <1>1, NoFrameType DEF Safe
<1>4. Progress /\ Successes
  BY <1>1 DEF Progress, Successes, Asking
<1>5. QED
  BY <1>2, <1>3, <1>4 DEF Zone

\* Every step keeps the zone.
LEMMA NextZone ==
  ASSUME TypeOK, Lockstep, Lists, Zone, SilentFaults = FALSE, [Next]_vars
  PROVE  Zone'
<1>1. CASE HostStep \/ StartSession \/ Abandon
  BY <1>1, HostKeepsZone
<1>2. CASE DeviceStep \/ (EnterUpdate /\ UNCHANGED hostVars)
           \/ ((LineFault \/ FlashFault \/ PowerCut) /\ UNCHANGED hostVars)
  BY <1>2, DeviceKeepsZone DEF DeviceStep
<1>3. CASE UNCHANGED vars
  <2>1. UNCHANGED hostVars /\ UNCHANGED <<flash, tx, rx, exec, wire>>
    BY <1>3 DEF vars, hostVars
  <2>2. BootsComplete' /\ Progress'
    BY <2>1, StillZone, StillProgress DEF Zone
  <2>3. (\A f \in {rx, exec, wire} : Safe(f))'
    BY <2>1 DEF Zone, Safe, Mountable
  <2>4. Successes'
    BY <2>1, HostUnmoved DEF Zone, Successes, Succeeded
  <2>5. QED
    BY <2>2, <2>3, <2>4 DEF Zone
<1>4. QED
  BY <1>1, <1>2, <1>3 DEF Next, User, Fault

\* IInv, for every zone size, set of files and checksum, unless operations lie.
THEOREM InvariantHolds ==
  ASSUME SilentFaults = FALSE
  PROVE  Spec => []IInv
<1>1. Init => IInv
  BY InitType, InitLockstep, InitLists, InitZone DEF IInv
<1>2. IInv /\ [Next]_vars => IInv'
  BY NextType, NextLockstep, NextLists, NextZone DEF IInv
<1>3. QED
  BY <1>1, <1>2, PTL DEF Spec

\* What main() boots is one complete image.
THEOREM BootIsComplete ==
  ASSUME SilentFaults = FALSE
  PROVE  Spec => []BootsComplete
<1>1. IInv => BootsComplete
  BY DEF IInv, Zone
<1>2. QED
  BY <1>1, InvariantHolds, PTL

\* No command programs a block that is not erased.
THEOREM ProgramsAreErased ==
  ASSUME SilentFaults = FALSE
  PROVE  Spec => []ProgramsErased
<1>1. IInv => ProgramsErased
  BY DEF IInv, Zone, Safe, ProgramsErased
<1>2. QED
  BY <1>1, InvariantHolds, PTL

\* The flash moves in steps of the device only.
LEMMA WhoChanges ==
  ASSUME [Next]_vars, flash' # flash
  PROVE  /\ Receive \/ Execute \/ PowerOn \/ EnterUpdate \/ LineFault \/ FlashFault \/ PowerCut
         /\ UNCHANGED hostVars
BY HostLeavesFlash DEF Next, DeviceStep, User, Fault, vars

\* The body is rewritten only while the zone does not mount.
THEOREM BodyIsGuarded ==
  ASSUME SilentFaults = FALSE
  PROVE  Spec => HeadGuardsBody
<1> DEFINE A == \A b \in Block \ {0} : (flash'[b] # flash[b] => ~Mountable(flash))
<1>1. ASSUME IInv, [Next]_vars PROVE A
  <2>1. SUFFICES ASSUME NEW b \in Block \ {0}, flash'[b] # flash[b] PROVE ~Mountable(flash)
    OBVIOUS
  <2>2. Mutating(exec) /\ exec.blk = b
    BY <1>1, <2>1, WhoChanges, DeviceChanges DEF IInv
  <2>3. QED
    BY <1>1, <2>1, <2>2, SafeFrames DEF IInv, Safe, Mutating
<1>2. IInv /\ [Next]_vars => [A]_vars
  BY <1>1
<1>3. QED
  BY <1>2, InvariantHolds, PTL DEF Spec, HeadGuardsBody

----------------------------------------------------------------------------
(* The refinement of AtomicInstall *)

\* Checksums tell any two files apart where both have units, and a head from
\* whatever jlfs_mount does not accept.
SumsTellApart ==
  /\ \A f, g \in Images :
       /\ f.len > 0 /\ g.len > 0
       /\ \A b \in UnitsOf(f) \cap UnitsOf(g) : Crc[f.unit[b]] = Crc[g.unit[b]]
       => f = g
  /\ \A f \in Images, c \in Content :
       f.len > 0 /\ Crc[c] = Crc[f.unit[0]] => c \in Heads

Told == IF pc = "reboot" THEN file ELSE NoFile

\* A step that changes a zone that mounts makes it one that does not.
LEMMA ThroughNothing ==
  ASSUME IInv, [Next]_vars, flash' # flash
  PROVE  ~(Mountable(flash) /\ Mountable(flash'))
<1> SUFFICES ASSUME Mountable(flash), Mountable(flash') PROVE FALSE
  OBVIOUS
<1>1. TypeOK /\ Safe(exec)
  BY SafeFrames DEF IInv
<1>2. /\ Receive \/ Execute \/ PowerOn \/ EnterUpdate \/ LineFault \/ FlashFault \/ PowerCut
      /\ UNCHANGED hostVars
  BY WhoChanges
<1>3. /\ Mutating(exec) /\ flash' \in [Block -> Content]
      /\ \A b \in Block : b # exec.blk => flash'[b] = flash[b]
  BY <1>1, <1>2, DeviceChanges
<1>4. flash'[exec.blk] \in {flash[exec.blk], Outcome, Torn}
  BY <1>1, <1>2, <1>3, MutationOutcome
<1>5. exec.blk = 0
  BY <1>1, <1>3 DEF Safe, Mutating
<1>6. flash'[0] # flash[0]
  BY <1>1, <1>3, <1>5 DEF TypeOK, DevTypeOK
<1>7. exec.op # "WRITE"
  BY <1>1, <1>5, ContentAssumption DEF Safe, Mountable
<1>8. Outcome = Erased
  BY <1>1, <1>3, <1>7, SafeOutcome DEF Mutating
<1>9. QED
  BY <1>4, <1>5, <1>6, <1>8, ContentAssumption DEF Mountable

\* The device boots the file of which the tool says that it is installed.
LEMMA ToldBoots ==
  ASSUME SumsTellApart, IInv, pc = "reboot"
  PROVE  Booted = file /\ file # NoFile
<1>1. TypeOK /\ Lists /\ BootsComplete
  BY DEF IInv, Zone
<1>2. file.len > 0 /\ \A b \in Units : Crc[flash[b]] = Crc[file.unit[b]]
  BY <1>1, FileType DEF Lists, ListsFresh, BlkOK, Asking, Units, UnitsOf
<1>3. file # NoFile /\ file \in Images
  BY <1>1, <1>2 DEF NoFile, TypeOK
<1>4. Matches(file)
  BY <1>2 DEF Matches, Units
<1>5. Mountable(flash)
  <2>1. 0 \in Units /\ flash[0] \in Content
    BY <1>1, <1>2, FileType, ZeroBlock DEF Units, UnitsOf, TypeOK, DevTypeOK
  <2>2. QED
    BY <1>2, <1>3, <2>1 DEF SumsTellApart, Mountable
<1>6. ASSUME NEW g \in Images, Matches(g) PROVE g = file
  <2>1. \A b \in UnitsOf(file) \cap UnitsOf(g) : Crc[file.unit[b]] = Crc[g.unit[b]]
    BY <1>4, <1>6 DEF Matches
  <2>2. QED
    BY <1>2, <1>3, <1>6, <2>1 DEF SumsTellApart, Matches
<1>7. (CHOOSE img \in Images : Matches(img)) = file
  BY <1>3, <1>4, <1>6
<1>8. QED
  BY <1>1, <1>3, <1>5, <1>7 DEF Booted

LEMMA RefinesInit == Init => Abstract!Init
<1> SUFFICES ASSUME Init PROVE Booted \in Images \cup {NoFile} /\ Told = NoFile
  BY DEF Abstract!Init, Told
<1>1. BootsComplete
  BY InitZone DEF Zone
<1>2. QED
  BY <1>1 DEF Booted, BootsComplete, Told, Init

\* The file of a session stays while the tool is in it.
LEMMA FileStays ==
  ASSUME [Next]_vars, pc = "reboot", pc' = "reboot" PROVE file' = file
BY DEF Next, vars, HostStep, DeviceStep, User, Fault, StartSession, Abandon, Close, SendInit,
   InitAnswered, CheckAnswered, FileTooShort, BatchAnswered, FetchDone, HeadErased, UnitErased,
   UnitWritten, HeadWritten, Verified, VerifyFails, RebootSent, BadAnswer, Timeout, HostOnly,
   hostVars

LEMMA RefinesNext ==
  ASSUME SumsTellApart, IInv, IInv', [Next]_vars
  PROVE  [Abstract!Next]_<<Booted, Told>>
<1>1. CASE flash' = flash
  <2>1. Booted' = Booted
    BY <1>1 DEF Booted, BootsComplete, Mountable, Matches
  <2>2. CASE pc' # "reboot"
    <3>1. Told' = NoFile
      BY <2>2 DEF Told
    <3>2. QED
      BY <2>1, <3>1 DEF Abstract!Next, Abstract!Forget, Told
  <2>3. CASE pc' = "reboot" /\ pc = "reboot"
    <3>1. Told' = Told
      BY <2>3, FileStays DEF Told
    <3>2. QED
      BY <2>1, <3>1
  <2>4. CASE pc' = "reboot" /\ pc # "reboot"
    <3>1. (Booted = file /\ file # NoFile)'
      <4>1. (SumsTellApart /\ IInv /\ pc = "reboot" => Booted = file /\ file # NoFile)'
        BY ToldBoots, PTL
      <4>2. SumsTellApart'
        BY DEF SumsTellApart, UnitsOf
      <4>3. QED
        BY <2>4, <4>1, <4>2
    <3>2. Told = NoFile /\ Told' = file'
      BY <2>4 DEF Told
    <3>3. QED
      BY <2>1, <3>1, <3>2 DEF Abstract!Next, Abstract!Tell, Told
  <2>5. QED
    BY <2>2, <2>3, <2>4
<1>2. CASE flash' # flash
  <2>1. UNCHANGED hostVars
    BY <1>2, WhoChanges
  <2>2. pc # "reboot"
    BY <1>2, WhoChanges, DeviceChanges, MutatorIsOurs DEF IInv, Lists, Asking
  <2>3. Told = NoFile /\ Told' = NoFile
    BY <2>1, <2>2 DEF Told, hostVars
  <2>4. CASE ~Mountable(flash')
    <3>1. Booted' = NoFile
      BY <2>4 DEF Booted
    <3>2. QED
      BY <2>3, <3>1 DEF Abstract!Next, Abstract!Invalidate, Told
  <2>5. CASE Mountable(flash')
    <3>1. Booted = NoFile
      BY <1>2, <2>5, ThroughNothing DEF Booted
    <3>2. BootsComplete'
      BY DEF IInv, Zone
    <3>3. Booted' \in Images
      BY <2>5, <3>2 DEF Booted, BootsComplete
    <3>4. QED
      BY <2>3, <3>1, <3>3 DEF Abstract!Next, Abstract!Install, Told
  <2>6. QED
    BY <2>4, <2>5
<1>3. QED
  BY <1>1, <1>2

\* Tool, line, device and power together do what AtomicInstall promises: one complete image
\* or none is booted, and "update ok" is told of the image that is (runInner, upgrade_loop
\* and main()).
THEOREM Implements ==
  ASSUME SilentFaults = FALSE, SumsTellApart
  PROVE  Spec => ImplementsAtomicInstall
<1>1. IInv /\ IInv' /\ [Next]_vars => [Abstract!Next]_<<Booted, Told>>
  BY RefinesNext
<1>2. QED
  BY <1>1, RefinesInit, InvariantHolds, PTL
  DEF Spec, ImplementsAtomicInstall, Abstract!Spec, Told
=============================================================================
