--------------------------- MODULE HidInvariants ---------------------------
(***************************************************************************)
(* The inductive invariants behind the properties of HidUpdate, for a tool *)
(* that waits for its answers (SlowReplies = FALSE).                       *)
(*                                                                         *)
(* Reports carry no number, and a session may find up to two commands of   *)
(* earlier ones in the device.  The argument counts what is pending: the   *)
(* reports not read and the commands not executed.  A session in which     *)
(* more than one thing is pending reads every answer one command late, so  *)
(* it takes the answer to its last CRC command for the one to the erasure  *)
(* of the head, and ends there.  Whoever gets further is alone.            *)
(***************************************************************************)
EXTENDS HidUpdate

----------------------------------------------------------------------------
(* Types and ranges *)

Phase == {"idle", "init", "fetch", "eraseHead", "erase", "write", "writeHead",
          "verify", "reboot", "unfetched"}
Mutating == {"ERASE", "WRITE"}

\* The commands the tool sends, and the replies to them
Sendable ==
  {c \in Command : c.unit + c.cnt <= N /\ (c.op = "WRITE" => c.chunk \in Chunk)}
Report ==
  [op : {"NONE", "INIT", "CRC", "ERASE", "WRITE", "REBOOT"}, ok : BOOLEAN,
   list : Seq(CrcValue)]

Typed ==
  /\ zone \in [Block -> UnitData]
  /\ mode \in {"off", "app", "loop", "stuck"}
  /\ out \in Seq(Sendable) /\ Len(out) <= Depth
  /\ reports \in Seq(Report) /\ seen \in Report
  /\ link \in BOOLEAN
  /\ pc \in Phase
  /\ file \in Images \cup {NoFile}
  /\ unit \in Block /\ chunk \in 0 .. Chunks
  /\ crcs \in [Block -> CrcValue \cup {NoCrc}]

\* Where the loops of the tool are
Ranges ==
  /\ pc = "idle" => file = NoFile /\ unit = 0 /\ chunk = 0 /\ crcs = NoCrcs
  /\ pc # "idle" => file \in Images
  /\ pc \in {"fetch", "verify"} => unit < file.len
  /\ pc \in {"erase", "write"} => unit \in 1 .. file.len - 1
  /\ pc \notin {"fetch", "verify", "erase", "write"} => unit = 0
  /\ pc \in {"write", "writeHead"} => chunk \in Chunk
  /\ pc \notin {"write", "writeHead"} => chunk = 0

Shape == Typed /\ Ranges

----------------------------------------------------------------------------
(* What is pending *)

Pending == Len(reports) + Len(out)
Alone   == link /\ Pending = 1

Steady  == {"fetch", "eraseHead", "erase", "write", "writeHead", "verify"}
Leaving == {"reboot", "unfetched"}

\* Without a device there is nothing to read, and nothing arrives any more.
Linked ==
  /\ pc = "idle" => ~link
  /\ ~link => reports = <<>> /\ (pc # "idle" => out = <<>>)

\* A command of an earlier session may be ahead until the head is erased.
Counted ==
  link =>
    /\ Pending <= 2
    /\ pc \notin Leaving => Pending >= 1
    /\ pc \in Leaving => Pending <= 1
    /\ pc \in {"erase", "write", "writeHead", "verify"} => Pending = 1

\* The last thing pending is the command just sent, or its answer.
OwnLast ==
  link /\ pc \in Steady =>
    /\ out # <<>> => out[Len(out)] = Request(pc, unit, chunk)
    /\ out = <<>> => reports[Len(reports)].op = Opcode(pc)

\* A session that is one answer late takes a CRC answer for that of an erasure.
LateHead ==
  link /\ pc = "eraseHead" /\ Pending = 2 =>
    IF reports = <<>> THEN out[1].op = "CRC" ELSE reports[1].op = "CRC"

\* A command that changes flash is followed by INIT alone and preceded by CRC alone.
MutatingApart ==
  Len(out) = 2 =>
    /\ out[1].op \in Mutating => out[2].op = "INIT"
    /\ out[2].op \in Mutating => out[1].op = "CRC"

\* No command that changes flash is left when the tool reads the lists, or is about to.
ReadsZone ==
  \/ pc \in {"fetch", "verify"} \cup Leaving
  \/ pc = "init" /\ reports # <<>> /\ reports[1].op = "INIT"

Quiet ==
  link /\ ReadsZone =>
    \A i \in 1 .. Len(out) : out[i].op \notin Mutating

\* Tool and device are at the same command, although nothing numbers the reports.
Lockstep == Linked /\ Counted /\ OwnLast /\ LateHead /\ MutatingApart /\ Quiet

----------------------------------------------------------------------------
(* The lists *)

Fresh(b) == crcs[b] = Crc[zone[b]]

\* The answer the tool is about to read speaks of the zone as it is.
TrueReport ==
  /\ Len(reports[1].list) = BatchSize(unit)
  /\ \A i \in 1 .. BatchSize(unit) : reports[1].list[i] = Crc[zone[unit + i - 1]]

Lists ==
  Alone =>
    /\ pc \in {"fetch", "verify"} =>
         (\A b \in Units : b < unit => Fresh(b)) /\ (reports # <<>> => TrueReport)
    /\ pc = "eraseHead" => \A b \in Units : b > 0 => Fresh(b)
    /\ pc \in {"erase", "write"} => \A b \in Units : b > unit => Fresh(b)

----------------------------------------------------------------------------
(* The zone while a tool writes, if flash operations do not lie *)

Same(z, f, b) == Crc[z[b]] = Crc[f.unit[b]]
Believed == reports # <<>> /\ reports[1].ok

\* The head is gone, and so is the unit that was erased.
Erasures ==
  link =>
    /\ pc = "eraseHead" /\ Pending = 1 /\ Believed => zone[0] = Blank
    /\ pc \in {"erase", "write"} => zone[0] = Blank
    /\ pc = "erase" /\ Believed => zone[unit] = Blank

\* The chunks of the unit that is written
Filled(u, k) ==
  /\ \A j \in 1 .. k - 1 : zone[u][ChunkOf(u, j)] = file.unit[u][ChunkOf(u, j)]
  /\ \A j \in k + 1 .. Chunks : zone[u][ChunkOf(u, j)] = Erased
  /\ reports = <<>> => zone[u][ChunkOf(u, k)] = Erased
  /\ Believed => zone[u][ChunkOf(u, k)] = file.unit[u][ChunkOf(u, k)]

Writes == link /\ pc \in {"write", "writeHead"} => Filled(unit, chunk)

\* The units that are through: those in front, all of them before the head is.
Settled ==
  link =>
    /\ pc \in {"erase", "write"} => \A b \in Units : 0 < b /\ b < unit => Same(zone, file, b)
    /\ pc = "writeHead" => \A b \in Units : 0 < b => Same(zone, file, b)

\* A command that changes flash, whoever sent it: no unit but the first while the
\* zone mounts, and the head last.
Safe(c) ==
  /\ c.unit # 0 => ~Mountable(zone)
  /\ c.op = "WRITE" /\ c.unit = 0 /\ c.chunk # 1 => ~Mountable(zone)
  /\ c.op = "WRITE" /\ c.unit = 0 /\ c.chunk = 1 =>
       \E img \in Images :
         /\ [zone[0] EXCEPT ![1] = c.data] = img.unit[0]
         /\ zone[0][1] = Erased
         /\ \A b \in 1 .. img.len - 1 : Same(zone, img, b)

Honest == Erasures /\ Writes /\ Settled

\* The inductive invariant of a tool that writes: it is in step, its lists are true,
\* and what reported success was done.
WInv == Shape /\ Lockstep /\ Lists /\ Honest

\* How main() of win-usb_hid writes the first unit
HeadLast == \A k \in Chunk : HeadOrder[k] = 1 <=> k = Chunks

HeadSafe == \A i \in 1 .. Len(out) : out[i].op \in Mutating => Safe(out[i])

----------------------------------------------------------------------------
(* A tool that does not wait for its answers, and writes the chunks of the head *)
(* in any order: what it has not read yet is answered in the order it was sent. *)

\* The operations of what is pending
Ahead(i) == IF i <= Len(reports) THEN reports[i].op ELSE out[i - Len(reports)].op

\* A command that changes flash has no INIT before it, and no command for the body
\* finds a zone that mounts, or comes after one that writes the head.
BodyFirst ==
  \A j \in 1 .. Len(out) : out[j].op \in Mutating =>
    /\ \A i \in 1 .. j - 1 : out[i].op # "INIT"
    /\ out[j].unit # 0 =>
         /\ ~Mountable(zone)
         /\ \A i \in 1 .. j - 1 : out[i].op # "WRITE" \/ out[i].unit # 0

\* So nothing that follows an INIT changes flash: who has read an INIT reads of no
\* erasure but its own, and who has read that is alone with an erased head.
AfterInit ==
  link /\ pc = "init" =>
    Pending <= 2 /\ (Pending = 2 /\ Ahead(1) = "INIT" => Ahead(2) \notin Mutating)

AfterFetch ==
  link /\ pc = "fetch" =>
    /\ \A i \in 1 .. Pending : Ahead(i) \notin Mutating
    /\ \A i \in 1 .. Pending : Ahead(i) = "INIT" => i = 1 /\ seen.op # "CRC"
    /\ seen.op \notin Mutating

AfterHead ==
  link /\ pc = "eraseHead" =>
    /\ \A i \in 1 .. Pending : Ahead(i) # "INIT"
    /\ \A i \in 1 .. Pending - 1 : Ahead(i) \notin Mutating
    /\ seen.op \notin Mutating
    /\ out # <<>> /\ out[Len(out)].op \in Mutating =>
         out[Len(out)].op = "ERASE" /\ out[Len(out)].unit = 0
    /\ out = <<>> /\ reports # <<>> =>
         (reports[Len(reports)].op = "ERASE" /\ reports[Len(reports)].ok => zone[0] = Blank)

HeadGone ==
  link /\ pc \in {"erase", "write", "writeHead"} =>
    /\ \A i \in 1 .. Len(out) : out[i].op # "INIT"
    /\ pc # "writeHead" =>
         zone[0] = Blank /\ \A i \in 1 .. Len(out) : out[i].op \in Mutating /\ out[i].unit # 0

GInv == Linked /\ BodyFirst /\ AfterInit /\ AfterFetch /\ AfterHead /\ HeadGone
=============================================================================
