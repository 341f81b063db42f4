--------------------------- MODULE UartInvariants ---------------------------
(***************************************************************************)
(* The inductive invariant behind the safety properties of UartUpdate.     *)
(*                                                                         *)
(* Frames carry no number, so the argument counts.  When a session opens   *)
(* the port the device owes at most two answers to older sessions: one for *)
(* the command it executes, one for the frame in its only buffer.  The     *)
(* tool asks two harmless questions (INIT, CHECK) before the first CRC     *)
(* command.  Whoever accepts that CRC answer has consumed every late       *)
(* answer, and tool and device stay in lockstep from then on.              *)
(***************************************************************************)
EXTENDS UartUpdate

Asking == pc \notin {"idle", "opened"}
Req == Request(pc, blk)

\* The answer awaited is to one of the three questions that change nothing.
Entering == pc \in {"init", "check"} \/ (pc = "fetch" /\ blk = 0)

\* How many late answers may be on their way to the host
Late == CASE pc \in {"opened", "init"} -> 2
          [] pc = "check"              -> 1
          [] OTHER                     -> 0

Busy(f) == IF f = NoFrame THEN 0 ELSE 1

----------------------------------------------------------------------------
(* Lockstep *)

FramesOK ==
  /\ \A f \in {rx, exec, wire} : f.op = "NONE" => f = NoFrame
  /\ mode # "loop" => rx = NoFrame /\ exec = NoFrame
  /\ \A i \in 1 .. Len(tx) : tx[i].cmd.op # "NONE"

\* Late answers, and the commands that will cause them, come first.
LateFirst ==
  pc # "idle" =>
    /\ \A i \in 1 .. Len(tx) : tx[i].cmd.live \/ i <= Late
    /\ exec # NoFrame => exec.live \/ Len(tx) + 1 <= Late
    /\ rx # NoFrame => rx.live \/ Len(tx) + Busy(exec) + 1 <= Late
    /\ wire # NoFrame => wire.live

\* What the open session has sent
SentByUs(f) ==
  \/ Asking /\ f = Req
  \/ pc = "check" /\ f.op = "INIT"
  \/ pc = "fetch" /\ blk = 0 /\ f.op \in {"INIT", "CHECK"}

LiveKnown ==
  /\ \A f \in {rx, exec, wire} : f.live => SentByUs(f)
  /\ pc # "idle" => \A i \in 1 .. Len(tx) : tx[i].cmd.live => SentByUs(tx[i].cmd)

\* Nothing follows the command whose answer is awaited.
AwaitedLast ==
  Asking =>
    /\ \A i \in 1 .. Len(tx) : tx[i].cmd = Req =>
         i = Len(tx) /\ exec = NoFrame /\ rx = NoFrame /\ wire = NoFrame
    /\ exec = Req => rx = NoFrame /\ wire = NoFrame
    /\ rx = Req => wire = NoFrame

Lockstep == FramesOK /\ LateFirst /\ LiveKnown /\ AwaitedLast

----------------------------------------------------------------------------
(* Commands that change flash *)

Mutating(f) == f.op \in {"ERASE", "WRITE"}

\* A mutating command left by an earlier session is alone and in front: its own
\* answer reaches the next session before any other.
MutatingAlone ==
  /\ Mutating(wire) => exec = NoFrame /\ rx = NoFrame
  /\ Mutating(rx) => exec = NoFrame
  /\ pc \in {"opened", "init"} =>
       ~Mutating(wire) /\ (Mutating(exec) \/ Mutating(rx) => tx = <<>>)
  /\ Entering /\ pc # "init" => \A f \in {rx, exec, wire} : ~Mutating(f)

----------------------------------------------------------------------------
(* The lists *)

Fresh(b) == crcs[b] = Crc[flash[b]]

BlkOK ==
  /\ Asking /\ pc \notin {"init", "check"} => blk \in Units
  /\ pc \in {"erase", "write"} => blk # 0
  /\ pc \in {"eraseHead", "writeHead"} => blk = 0

\* CRC answers and the lists made of them are those of the flash.
ListsFresh ==
  /\ pc \in {"fetch", "verify"} =>
       /\ \A b \in 0 .. blk - 1 : Fresh(b)
       /\ \A i \in 1 .. Len(tx) : tx[i].cmd = Req =>
            \A k \in DOMAIN tx[i].list : tx[i].list[k] = Crc[flash[blk + k]]
  /\ pc = "reboot" => \A b \in Units : Crc[flash[b]] = Crc[file.unit[b]]

Lists == MutatingAlone /\ BlkOK /\ ListsFresh

----------------------------------------------------------------------------
(* The zone, when flash operations do not lie *)

\* What a mutating command finds when it is executed
Safe(f) ==
  /\ f.op = "ERASE" /\ f.blk # 0 => ~Mountable(flash)
  /\ f.op = "WRITE" => flash[f.blk] = Erased
  /\ f.op = "WRITE" /\ f.blk # 0 => ~Mountable(flash)
  /\ f.op = "WRITE" /\ f.blk = 0 =>
       \E img \in Images :
         /\ img.len > 0 /\ f.data = img.unit[0]
         /\ \A b \in UnitsOf(img) \ {0} : Crc[flash[b]] = Crc[img.unit[b]]

Done(b) == Crc[flash[b]] = Crc[file.unit[b]]

\* What the position in the loop of runInner says of the zone
Progress ==
  /\ pc = "eraseHead" => \A b \in Units \ {0} : Fresh(b)
  /\ pc \in {"erase", "write"} =>
       /\ flash[0] = Erased
       /\ \A b \in Units \ {0} : (b < blk => Done(b)) /\ (b > blk => Fresh(b))
  /\ pc = "writeHead" => \A b \in Units \ {0} : Done(b)

\* What a success says of the unit
Succeeded(r) ==
  /\ r.cmd.op = "ERASE" => flash[r.cmd.blk] = Erased
  /\ r.cmd.op = "WRITE" => flash[r.cmd.blk] = r.cmd.data

Successes ==
  Asking =>
    \A i \in 1 .. Len(tx) :
      tx[i].cmd = Req /\ tx[i].status = "SUSS" => Succeeded(tx[i])

Zone ==
  /\ BootsComplete
  /\ \A f \in {rx, exec, wire} : Safe(f)
  /\ Progress
  /\ Successes

IInv == TypeOK /\ Lockstep /\ Lists /\ Zone
=============================================================================
