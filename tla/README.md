# fw_bootloader: a verification development

The repository holds a firmware upgrader for JieLi audio chips: a small second
boot loader (`user_boot`, called uboot in its docs) that lives on the chip beside
the application, and three programs that drive it: `win-uart` over a serial
line, `win-usb_hid` and an Android app over USB HID.  The tool splits a file
into erase units, compares their CRCs with those of the flash, and rewrites what
differs, the head of the application zone first erased and last written.  A zone
whose head does not mount sends the chip back into the upgrade loop at the next
reset.

The question of this project is whether that works: through power cuts at any
point, lost, damaged and late frames, flash operations that fail or lie, tools
that are killed, and any sequence of sessions with any files; whether the loader
itself can be replaced that way; and whether the line, a stream of bytes cut by
silences, is the one the tool relies on.

## 1. Inventory

| part | source (under `src/`) | state | operations |
|---|---|---|---|
| Upgrade loop | `user_boot/app/src/user.c` | flash through jlfs; the command `g_ops` in the receive buffer | INIT, CHECK, ERASE, WRITE, flash CRC, REBOOT, UPDATE_BTL (dual bank), KEY and SPECIAL commands; `user_check_upgrade` copies a backup boot loader |
| Boot decision | `main.c`, `user.c` 525-554 | magic in NVRAM | magic or mount failure: upgrade loop; otherwise application |
| UART receiver | `cpu/<chip>/uart.c`, `user.c` 227-246 | one DMA buffer, a length, the flag `new_data` | interrupt, `recv_new_data` |
| Frame codec | `user.c` 174-225, `updatethread.cpp` 42-82, `physerialthread.cpp` 84-130 | bytes received so far | encode, decode, resynchronise |
| Device USB HID | `hid.c`, `usb_device.c`, `usb_config.c`, `descriptor.c` | report buffers | the other transport of the same loop |
| win-uart update thread | `update_tools/win-uart/updatethread.cpp` | position in `runInner`, file, CRC lists | one session: application branch 429-486, boot loader branch 355-427 |
| win-uart serial thread, queue | `comm/physerialthread.cpp`, `utils/blockingqueue.h` | port, receive buffer, queue of replies | open, write, read, close, `poll` with time limit |
| win-uart main window | `mainwindow.cpp` | file buffer, thread | start and end of sessions |
| win-usb_hid tool | `update_tools/win-usb_hid/main.cpp` | file, CRC list | one session over HID; the first bytes of the head are written last |
| Android updater | `cpp/jl_bootloader.cpp`, `_jni.cpp` | as above | as above, the head is written first |
| Android app | `HidClient`, `MainActivity`, `UsbHelper` (Java) | native handle, connection | life cycle around the updater |
| Chip support | `flash_wp.c`, `log_config.c`, start-up code | - | set-up |
| jlfs, NOR flash, boot ROM | prebuilt, not in the repository | the flash | mount, open, erase, program, CRC, reset |

How they interact.  Tool and device exchange commands and replies over a line
that can lose, damage and delay.  A reply echoes the opcode of its command and
nothing else: no number, no address.  The device has a single receive buffer,
and the payload of a WRITE is programmed directly from it.  `main()` and the
loop meet only in flash (and the magic).  The tool's two threads meet in one
queue; closing the port does not recall what was already sent.

What is hard.  Replies to an earlier session arrive in a later one; a command of
an abandoned session is executed during the next one; the DMA overwrites a
payload that is being programmed; power goes at any point of erase-head, erase,
write, write-head; an operation says it succeeded and did not; CRC lists are
fetched in batches at the boundary of the file; a decision rests on a list read
long before.  What makes the parts correct:

* the device never boots an incomplete image, and is never lost (BootsComplete,
  HeadGuardsBody, Recovers);
* "update ok" is true (OkMeansFlashed);
* tool and device talk about the same command although nothing numbers them
  (AnswerIsOurs, ListStaysTrue);
* flash is used as flash must be (ProgramsErased);
* sessions end (SessionEnds);
* a loader is given up only for another (FirstNeedsBackup, NewLoaderFirst), a
  device cut while its loader is replaced repairs itself (LoaderRestored), and
  the success magic is true (SuccessIsTrue);
* out of the bytes of the line come the messages that were sent, in order and at
  most once (RunsWereSent, HeardLast, AnswersWereGiven, NothingSwallowed).

`PROJECT.json` lists each hazard at its line with the property that covers it, or
the reason none does.

## 2. The modules

| module | models |
|---|---|
| `UpgradeLoop` | the device: boot decision, receive buffer, command loop, flash zone, power and line faults |
| `UartUpdate` | EXTENDS it with the win-uart tool: `runInner`'s application branch, session after session; the properties |
| `AtomicInstall` | the abstract specification: the device boots one image or nothing |
| `UartInvariants` | the inductive invariant `IInv` of `UartUpdate` |
| `SerialInvariants` | the inductive invariants `LineInv` and `Traced` of `SerialLine`, and the conditions on checksums, frames and damage their proofs need |
| `UartRecovery` | `UartUpdate` with fairness and a moment from which no fault happens |
| `HidUpdate` | the USB tools and the same command loop behind a HID endpoint, at the granularity of the chunks of a unit |
| `HidInvariants` | the inductive invariants of `HidUpdate`, part by part |
| `UbootUpdate` | replacing the loader: both branches of `runInner`, `user_check_upgrade`, the choice of the boot ROM, the magic in NVRAM |
| `SerialLine` | the line byte by byte: DMA and interrupt, codec, the two parsers, serial thread, queue |
| `MCUartUpdate`, `MCUartRecovery`, `MCHidUpdate`, `MCUbootUpdate`, `MCSerialLine` | instances for TLC |
| `UartLockstepProofs`, `UartZoneProofs`, `UbootProofs`, `HidLockstepProofs`, `HidWriteProofs`, `SerialProofs`, `SerialAnswerProofs`, `SerialFoundProofs` | theorems and proofs |

### The device (`UpgradeLoop`)

`flash` maps an erase unit (4 KB or 256 B: `jlfs_erase` takes either; the tool
uses the size INIT reports) to an uninterpreted content.  Block 0 is the head:
`Heads` are the contents `jlfs_mount` accepts; neither `Erased` nor `Torn` is
one.  `mode` is where the processor is.  `rx` is `ut_up_buf` with `new_data` set,
`exec` the command `g_ops` points at, `clobbered` says that bytes arrived in the
buffer while it executes.  `wire` and `tx` are the two directions of the line.

Each `case` of the loop (`user.c` 404-457) is an action that includes the reply
with which the handler ends (`set_remain_and_upgrade_rsp`).  The error returns of
`jlfs_erase` and `jlfs_write` are `FlashFails`; `FlashLies` is a success the cells
did not follow, allowed only when `SilentFaults`.  A power cut leaves the unit
under the command as it was, done, or torn.

A WRITE reads its payload from the receive buffer, and `data_length` again after
`jlfs_write` for the comparison with its result (`user.c` 370-371).  The length
lies before the payload and the DMA fills the buffer upwards, so bytes that spoil
the payload have spoilt the length: the handler reports WRITE_ERROR.
`WriteEffects` states this; the mutant that keeps the length in a local shows
that BootsComplete depends on it.

### The tool (`UartUpdate`)

`pc` is the answer `runInner` waits for, `blk` the unit (or first unit of a CRC
batch) it is about, `crcs` the list it decides by.  `Request` is what it sends;
one action per answer handles it and sends the next command, in the order of the
code: INIT, CHECK, CRC batches of at most `MaxCrcList`; if the lists agree,
reboot; otherwise erase the head, then for each unit that differs erase and
write, write the head, fetch all CRCs again and compare, reboot.  `Answers` is
the acceptance test of the `isReply...Cmd` functions: opcode, size and status.
Anything else, or 8 s of nothing, ends the session (`BadAnswer`, `Timeout`);
`Abandon` is the tool being killed, and the device being slower than 8 s.

Closing the port drops what was received; what was sent stays on the line or in
the device.  The ghost flag `live` of a frame says that the session that sent it
is still open; no guard reads it.

### The USB tools (`HidUpdate`)

`win-usb_hid` and the Android updater are one program in two versions; both follow
the order of the win-uart tool.  Three differences decide what holds:

* a report carries at most 41 bytes of payload, so a unit is a sequence of
  chunks, and a cut can leave a unit half written.  Whether a half-written head
  unit mounts depends on which chunk came first: `HeadOrder` is `<<2, 1>>` for the
  Windows tool (its first 32 bytes last) and `<<1, 2>>` for the Android updater;
* `read_deice` returns the same after a report and after 3 s of nothing, and its callers judge
  `hid_rx_buf` (`seen`), which then holds an earlier reply (`Got`);
* a CRC list that cannot be fetched leads to `__reboot`, where "update ok" is
  printed (`pc = "unfetched"`).

`out` holds the commands in the device, `reports` the replies the operating system
keeps for the open handle; `link` says that the handle is open and the device it
was opened for still there.  A cut or a reset takes it away, and a write without it is lost
unnoticed, because the result of `hid_write` is ignored.  The payload of a WRITE lies
in `recv_data_buf`, which, unlike on the serial line, nothing overwrites.
`SlowReplies` allows answers later than 3 s while the device is alive, `SilentFaults` a
success the cells did not follow.

After a time limit the callers also copy 64 KB out of a 65 byte buffer.  Either
that faults (`Abandon`) or the tool goes on (the actions that read `seen`).  A tool
that gets no usable answer to INIT works with an uninitialised geometry; it is
taken to end there.

### The loader (`UbootUpdate`)

Here flash is one line of erase units: the first area `0 .. K-1`, the backup
`K .. 2K-1` (64 KB each, the reported offset being 0), the application zone from
`AppBase`.  A loader is the first `AppBase` units of a file; the zone begins inside
the first area and runs over the backup, as the tool's addresses have it
(`updatethread.cpp` 355-370 and `user.c` 471-500).

With the box ticked (`both`) the tool erases the head of the application, erases
and writes the backup, compares it, erases the first area, writes it from unit 1
on, writes unit 0, compares, and goes on to the application.  `Address` and `Data`
say where each command of a phase goes, `Through` is the loop over an area.  The
error after a failed write of the first area is shown and not returned:
`FirstWriteFails` goes on to unit 0.

At power-on the boot ROM takes the first area, or else the backup.  A loader
started from the backup erases head and first area without looking at the
result (`Wipe`) and copies itself unit by unit (`CopyUnit`), then enters the loop.
The magic is that of `user.c` 525-554 and of the two functions for the application
that the user guide describes (`doc/uboot升级使用说明v1.1.2.md` 123-162): `start` written by the application, erased by the
loader, `succ` left by REBOOT.

A command and its answer are one step.  That is the result of the proofs about
`UartUpdate`: from the first CRC answer on, the answer accepted is that to the last command
and only that command changes flash (AnswersAreOurs, ListsStayTrue).  A command
may be cut, fail, or stay unanswered (`GiveUp`, `lost`).

### The line (`SerialLine`)

Downwards: `Arrive` puts a byte where the DMA is; `Silence` is `uart0_irq` after
1 ms without one, which sets length and flag and starts the buffer over; `Recv` is
`recv_new_data` with `enc_cmd_data`: the first mark decides, a frame that is
complete and whose CRC fits is decoded *in place*; `Reply` and `Reset` end the
handler.  Upwards: `ReadReady` is one call of `on_readReady` with any number of the
bytes that have come, with `removeUntilFindHead` as it is (without a mark the last two
bytes stay); `Poll` takes from the queue; `FakeReply` is the empty reply the tool
makes up for REBOOT.  `Open` drops any part of what was sent to an older session,
`Close` may cut off the frame being written.  `Line` says what becomes of a frame: it
arrives, is lost, loses a byte, or has one changed.

Three things were not obvious from the code.

* Decoding in place is what keeps a command from running twice: read before the
  interrupt that ends its burst, it is flagged again, and the second look finds
  no frame.  The mutant that decodes a copy runs it twice.
* For the same reason an older command that is read late spoils one
  arriving over it, and two frames in one silence lose the second.  Both need a late
  reply of an earlier session; the lost command is `LoseFrame` in `UartUpdate`,
  whose safety does not depend on it.
* A reply whose length was hit, or whose last byte was lost where it is `AA`, lets the
  parser wait for bytes that are never sent or take a part of the next
  reply for its own (`deaf`).  NothingSwallowed says that these are the only cases, as long as
  no body and no checksum holds the second byte of a mark (`MarksApart`, section 4).
  The 8 s of `poll` end the session, the next one starts with an empty buffer.

### What is assumed

* The head decides mounting (the first unit in `UpgradeLoop`, its first 32 bytes in
  `HidUpdate`), and a torn head does not mount.  `jlfs_mount` is prebuilt; that 32
  bytes decide is what the Windows tool relies on.
* The build of the documentation: `DUAL_BANK_MODE` 1 (`user.c` 16), so that REBOOT
  resets the chip, and `USE_UPGRADE_MAGIC` 1 (the default of `user.h` is 0), so that
  `main.c` 96-100 decides by magic or mount error.
* The tool sends one frame at a time (`on_writeBuffer` waits until the bytes are
  written).
* The fields address and type of a command are read before the next frame can
  overwrite them.  The window between `recv_new_data` and these reads is a few
  instructions (a hazard without property).
* A CRC is a function of the content and may collide: which contents it tells
  apart is the constant `Crc`.  "Complete" means complete as far as CRCs tell.
* The zone is as long as the longest file; the tool does not compare its file
  with `upgradeLen` (a hazard without property).
* The boot ROM rejects a loader that is not complete (`RomChecksAll`).
  `user_check_upgrade` relies on it: it copies unit 0 first, so with a ROM that looks at
  the first unit only, a cut in the copy leaves a device that starts half a
  loader.  With `RomChecksAll = FALSE` TLC shows LoaderRestored failing; the other
  properties of the run, and the theorems, do not depend on it.
* The checksum of a frame fits nothing but the frame it was made for; CRC-16 does so
  but for one in 65536.  Damage does not make the head of one command that of another, and
  hits no mark of a command: the second is more than a convenience (section 4, where
  the order of commands breaks without it).

## 3. What is model-checked

| run | instance | shows |
|---|---|---|
| `uart_safety` | 3 units, batches of 2; 2 images that differ in the head and one unit, files of 1 unit and of none | TypeOK, BootsComplete, ProgramsErased, HeadGuardsBody, the inductive invariant IInv, and that every step is one of AtomicInstall |
| `uart_lies` | the same; flash operations may lie, CRCs may collide, one with a torn unit | OkMeansFlashed, AnswerIsOurs, ListStaysTrue do not depend on honest flash |
| `uart_recovery` | 2 units, 1 image | SessionEnds and Recovers, under fairness |
| `hid_windows` | 3 units of 2 chunks, files of 3 and 1 units | TypeOK, BootsComplete, HeadGuardsBody, ErasedBeforeWrite, the inductive invariant WInv and, but for what the tool tells, the refinement of AtomicInstall for the Windows tool |
| `hid_worst` | the same, Android's order, slow replies | HeadGuardsBody survives both; its inductive invariant GInv |
| `hid_lies` | 4 files with equal units and different heads, units of 1 chunk, lying flash | Lockstep, and VerifiedMeansFlashed: what is compared after the writes is true |
| `hid_reboot` (violation) | as `hid_windows` | REBOOT and "update ok" follow a failed fetch |
| `hid_stale` (violation) | 2 files with equal units, batches of 1 | ComparedMeansFlashed: "same crc" is said of a zone that differs |
| `uboot` | 6 units, areas of 3, loaders of 2; 2 files and one too short; lying flash | TypeOK, NewLoaderFirst, SuccessIsTrue, FirstNeedsBackup, LoaderRestored |
| `uboot_loader` (violation) | the same, honest flash | a session erases the only loader |
| `uboot_app` (violation) | the same, honest flash | the zone mounts over a body that is not there |
| `serial_line` | 3 commands of 2 bytes, 2 answers, 3 commands sent in 2 sessions, 1 fault or gap | TypeOK, RunsWereSent, HeardLast, AnswersWereGiven, NothingSwallowed, the inductive invariants LineInv and Traced, and that the instance satisfies the conditions the theorems name (SumsApart, MarksApart, HeadsApart, MarksSpared, BodiesTell) |

The violations of the USB tools.  The protocol document calls REBOOT the command of a
successful upgrade; the tools send it after a failed fetch.  And the tool says "same
crc, no need to upgrade" of a list whose later batches may be the report of the batch
before: equal units, which padding produces, make it match.  Neither makes the
device boot an incomplete image.  What stays true is VerifiedMeansFlashed: a session
that got past the erase of the head is in step with the device, because the late
answer it would have taken instead has another opcode, so the comparison after the
writes is genuine unless the device disappears.  BootsComplete for
the USB tools has two limits, and the instances say where they are.  It needs
the Windows order: with `AndroidOrder` TLC finds a cut after the first chunk of
the head unit (the mutant `HeadChunk_InOrder` is that order).  And it needs answers
within 3 s: with `SlowReplies` a write of the rest of the head unit that fails late
is taken for good by the previous success, and the head is written after it.

The violations of the loader update.  `runInner` erases the backup without asking
whether the first area still holds a loader.  After a session that ended while the
first area was half written (the device stays in its loop and copies nothing back),
the next one erases the only loader there is, and a cut then leaves none.
FirstNeedsBackup is the part of the promise that holds: the *first* area is given
up only behind a complete backup.  And the head of the application, erased "to inform
that we are updating", is written again with the first 64 KB whenever the loader
is shorter than that: until the application branch erases it, a reset starts an
application over a backup.  With `AppBase = K` it does not happen.

Why the bounds are enough.  Three units are the least with a head, a body unit
that changes and one that does not; with batches of 2 the list takes a full and
a partial batch.  Two images with different heads and bodies can be mixed up, and
a session with the one can be overtaken by commands for the other.  No bound is
put on the number of sessions, faults or frames: the receive buffer, the one-frame line
and the closing of the port bound the state themselves.  In `HidUpdate` `Depth` is 2,
the command being executed and the one the endpoint holds until it is read.  One image is enough for
recovery, because there is only one thing to reach.

In `UbootUpdate` three units per area give a first, a middle and a last one, a
loader shorter than its area, and a zone that starts inside the first area and
covers the backup; sessions and cuts are not bounded.  LoaderRestored is about a
device left alone after a cut (`alone`).  In `SerialLine` three commands are the least
with an old one, a late one and the one waited for, two sessions the least with a
late answer; one mishap in all histories with none (late replies need none).
`Places` are the positions in a frame where it may hit: the length (4), where a gap also leaves
two fragments long enough to be flagged, and the checksum (8).  A hit in the body is to
both ends a checksum that does not fit; a frame whose mark is hit is one whose beginning was
lost, and those are there without mishaps: late answers, sessions that start in
mid-stream, frames cut off by `Close`.  The messages are chosen for the line: one ends with the
first byte of a mark, one begins with it, two have bytes in common, and the buffer is
longer than any two frames.  CHECK_DEADLOCK is off where the system may really stop:
a device without a loader (`dead`), and the commands and sessions of `SerialLine`
used up.

Every property has a mutant: a plausible slip in the code (a lost status check, a
head left in place, a batch size not reduced, a loop that misses the last unit, a
port not flushed) under which TLC finds it violated.

Fairness.  `UbootUpdate` assumes that power comes back and that the copy loop
of the device runs (weak fairness of PowerOn, Wipe and CopyUnit); the tool may do nothing.
`UartRecovery` assumes that the tool's thread runs and its `poll`
returns (weak fairness of `HostStep`: the time limit makes `Timeout` always
possible in the end), that the device's loop and interrupt run (`Receive`,
`Execute`) and that power comes back (`PowerOn`).  Nothing obliges the user or a
fault.  SessionEnds holds with faults going on for ever.  Recovers needs two
hypotheses: at some time faults stop, and the user goes on starting sessions,
each after the device has come to rest.  The last one is needed: `readAll` at the
start of a session drops what has arrived and not what the device still owes,
so a user who retries at once can be refused for ever, each session being
ended by the late answer to the previous one.  Safety does not need it.

## 4. What is proved

TLAPS proves the following for every zone size, set of files, batch size, set of
contents and checksum function; the only assumptions are the named `ASSUME`s of
the modules (sizes are positive, an erased or torn unit is no head, `NoCrc` is no
CRC, and the order in which the head unit is written over USB takes each chunk once)
and the conditions the table names.

| theorem | states |
|---|---|
| `TypeCorrect` | Spec => []TypeOK |
| `LockstepHolds`, `AnswersAreOurs` | Spec => []Lockstep, []AnswerIsOurs |
| `ListsHold`, `OkIsTrue`, `ListsStayTrue` | Spec => []Lists, []OkMeansFlashed, ListStaysTrue |
| `InvariantHolds`, `BootIsComplete`, `ProgramsAreErased`, `BodyIsGuarded` | with SilentFaults = FALSE: Spec => []IInv, []BootsComplete, []ProgramsErased, HeadGuardsBody |
| `Implements` | with SilentFaults = FALSE and SumsTellApart: Spec => ImplementsAtomicInstall |
| `UbootTypeCorrect`, `ShapeHolds` | `UbootUpdate`: Spec => []TypeOK, []Shape |
| `LoaderComesFirst`, `MagicIsTrue` | Spec => []NewLoaderFirst, []SuccessIsTrue, for any ROM and lying flash |
| `BackupProtects` | with AppBase < K: Spec => FirstNeedsBackup |
| `HidTypeCorrect` | `HidUpdate`: Spec => []TypeOK |
| `HidLockstep`, `HidLists`, `HidVerifiedMeansFlashed` | with SlowReplies = FALSE: Spec => []Lockstep, []Lists, VerifiedMeansFlashed |
| `HidWrites`, `HidErasedBeforeWrite` | with SilentFaults = FALSE too: Spec => []WInv, ErasedBeforeWrite |
| `HidGuards`, `HidHeadGuardsBody` | with SilentFaults = FALSE alone, answers as late as they like: Spec => []Shape, []GInv, HeadGuardsBody |
| `HidBootsComplete`, `HidImplements` | with HeadLast too, the order of the Windows tool: Spec => []BootsComplete, ImplementsAtomicInstall |
| `CleanIsHeard` | `SerialLine`, for every checksum: Spec => []HeardLast |
| `RunsAreAsked`, `AnswersCounted`, `LineTypes` | with OnlyHeadsFit and SumsApart, conditions on checksums explained below: Spec => []Carried, []AnswersWereGiven, []TypeOK |
| `TracedHolds`, `RunsInOrder` | with MarksApart, HeadsApart, MarksSpared and BodiesTell too: Spec => []Traced, []RunsWereSent |
| `ReadsAddUp` | for any bytes and every checksum: reading in pieces finds what one read of the whole finds |
| `FoundStaysHolds` | with OnlyHeadsFit and SumsApart: Spec => FoundStays |
| `NothingIsSwallowed`, `LineInvHolds` | with OnlyHeadsFit, SumsApart and MarksApart: Spec => []NothingSwallowed, []LineInv |

The argument for `UartUpdate`.  None of the properties is inductive.  The difficulty is that
frames carry no number, so nothing local to a reply says whose it is; the proof
counts.  When a session opens the port, the device can owe at most two
answers to older sessions: one for the command it executes, one for the frame in
its only buffer (the line was cleared, and there is no other queue).  The
tool asks two harmless questions first, INIT and CHECK.  To accept a CRC answer it
must have consumed two replies already, and late ones come first (`LateFirst`).
Hence the first CRC answer it accepts is genuine, and from then on exactly one of
command and answer is in the pipeline (`AwaitedLast`).  That is `Lockstep`, and it
needs nothing of the flash.  A tool that skipped CHECK would lose it.

`Lists` adds that no mutating command of an older session can still be executed
once the lists are read (`MutatingAlone`): such a command is alone and in front,
its reply is the first one the new session sees, and that reply is no answer
to INIT.  Therefore the lists the tool decides by are those of the flash.  This
holds even for lying flash, and gives OkMeansFlashed.

`Zone` adds what the position in the loop says of the zone (`Progress`), what a
success says of its unit (`Successes`), and what each mutating command in the
pipeline will find (`Safe`): a body unit is touched only while the zone does not
mount, and the head is written only when the rest of its image is in place.  It
needs SilentFaults = FALSE, and that assumption is necessary: a lying
erase of the head would leave the old head over a new body.

The refinement (`Implements`) then needs two facts.  A step that changes a zone that
mounts leaves one that does not (`ThroughNothing`), so there is no way from one
image to another but through nothing.  And the file of which the tool says "update ok" is the
one the device boots (`ToldBoots`): here checksums must tell any two files, and a
head from what is none, apart (`SumsTellApart`, true of the instance of `uart_safety`).
Over USB nothing is told in the refinement, and no such assumption is needed
(`HidImplements`).

The modules follow the parts, each proof using the theorem of the part
before: types, lockstep and lists (`UartLockstepProofs`), zone and refinement
(`UartZoneProofs`).  Every step proof has one case per
action and, below it, one step per conjunct the action can disturb.

The argument for `UbootUpdate`.  The invariant has a part for each thing the tool or
the device relies on later: while the first area is rewritten, the backup holds
the tool's loader (`BackupGood`, established by the comparison, kept because these
commands stay below K); while `user_check_upgrade` runs, a complete loader is at
64 KB (`RepairGood`); in the application branch the new loader is in the
first area and no repair runs (`FirstGood`); what was compared stays until the
reboot (`Compared`); and what the magic says survives (`Told`).  NewLoaderFirst is about a
write whose failure is ignored: it holds because the comparison that follows is
not.  BackupProtects needs AppBase < K: where the application begins exactly at
the backup, the head that `user_check_upgrade` erases is the first unit of the loader
it is about to copy.

The argument for `HidUpdate`.  Again nothing numbers the reports, and here no second
harmless question is asked, so a session can run one answer late for longer.
`Pending` counts the reports not read and the commands not executed: at most two, because
the endpoint holds one command and the device executes one.  A session with two
pending reads each answer one command late.  That works for INIT and the CRC
batches, and ends at the erasure of the head, where the late answer is to a CRC command
(`LateHead`).  So whoever gets further is alone (`Counted`), and the answers are its own
(`OwnLast`).  Of two commands in the device at most one changes flash: it is followed
only by the INIT of a new session, or preceded only by a CRC command (`MutatingApart`).
By the time lists are read no such command is left (`Quiet`), hence the lists of a session that is
alone are those of the zone (`Lists`).  So much is proved also for lying flash.

What the zone is while a tool writes needs honest flash: the head and the unit that was
erased are blank (`Erasures`), the chunks before the one that is sent are written
and those after it blank (`Writes`), the units before this one are the file's
(`Settled`).  BootsComplete needs more (`HeadSafe`): the
command that writes the first chunk of the head finds everything else of its
image in place.  This is the only proof that uses the order of the Windows
tool, and for Android's order TLC shows the formula false.

HeadGuardsBody needs none of this, neither answers in time nor an order of the
chunks, and has an invariant of its own (`GInv`).  A tool that does not wait can have any
number of its own commands and reports pending, so nothing can be counted; but they are
in the order they were sent (`Ahead`).  Nothing that follows an INIT changes flash
(`AfterInit`), because a session sends nothing else until it has read an INIT.  Whoever has read an
INIT therefore reads of no erasure but its own (`AfterFetch`, `AfterHead`), and whoever has
read that one finds the head blank and nothing pending that could write it (`HeadGone`).
So a command for the body finds a zone that does not mount, and no command that writes
the head is ahead of it (`BodyFirst`).

The argument for `SerialLine`, downwards.  `Hearing` follows the last command, if it is clean, from
the wire into the front of the buffer, under the flag, and into the list of what was
executed.  That the decoder finds it at the front, measures it and undoes the key is an
equation about `Frame` (FrameHeard), so HeardLast needs no condition on the
checksum.  `Carried` says that device and wire hold no byte that only a command not yet
asked for can bring with it.

RunsWereSent is about order and number, and nothing numbers the commands either.  `Traced` charges
what was executed, and what may yet be, to the commands that were sent.  A claim is a place
and a command: `Executed`, what `recv_new_data` has run; `Flagged`, a sum byte in the flagged
burst behind the bytes that have arrived since, where a late read may find its frame complete;
`Arriving`, a sum byte of the burst that is arriving whose body is not decoded, or a
head that ends where the next byte will come, so that a sum left there by an older frame may
complete it.  The claims in the order of their places are commands in the order in
which they were sent (`Owed`).  A byte that arrives completes a head or brings the
sum, and leaves the claims as they are (TracedArrive); `Silence`, `Reset` and the loss of a
tail only drop some (TracedFlush, TracedClose); `Ask` adds one behind all others (TracedAsk).
`Recv` is the step that matters (TracedRecv): the claim for the frame it finds is the one it
turns into an execution; no claim lies before that one, because the mark in front of its sum
(`Sound`) would have been found first; and those behind it keep their places.  That the frame is
found at most once is the decoding in place: its body is plain now, so no claim is left for it.

Three conditions are needed, and two of them are where the code gives way.

* `MarksSpared`: no mark is hit.  Two commands in one silence, the mark of the first hit:
  `enc_cmd_data` finds the second and runs it.  The head of a third, arriving over the
  first, repairs the mark, and a late read runs the first, behind its successor.
  With a mark among the `Places` TLC finds this with five commands in two sessions,
  a REBOOT among them (whose made-up reply lets the tool ask again at once).
* `HeadsApart`: no damage makes the head of one command that of another.  Otherwise the damaged head
  of the third of three commands, read before its body has come, meets the sum of an older one
  that is spent: TLC then finds that command run twice.
* `BodiesTell`: decoding changes the first two bytes of a command and its last one, and
  its opcode is not the high byte of its length.  The key of `user.c` 172 is 4E 61 BC 00; no
  command ends at a byte with the zero of the key (they are 2, 6, 10, 14, 19 bytes long, and a WRITE
  10 more than whole units), and no length reaches the opcodes, which begin at C0,
  with its high byte.  The bytes the zero
  falls on are the ones decoding leaves alone; the model's `Key` maps every byte by one table, and
  only these three places matter to the proof.

TLC evaluates all three for the instance, whose `Places` are the high byte of the length and
the second byte of the sum.

Upwards, the stream is cut at arbitrary places, bytes of it are missing or changed, and
what is found depends on what was thrown away before.  The proof charges every packet
to one byte.  The first checksum byte of a message stands for it (`Teller`); what was seen,
followed by the messages that the bytes in the buffer and on the line stand for (`Told`), is a
subsequence of the answers given (`Charged`).  Bytes that are dropped shorten
it; a packet that is accepted contains its sum byte, which stands at that place of the
sequence already; a damaged frame brings at most its own.  Hence AnswersWereGiven, for any division of
the stream into reads.  The loop of `on_readReady` is a recursive function (`Packets`); that a
property of its rounds holds of its result, and that a recursive function is
one at all, is induction over numbers by a least counterexample (LeastNat, Induction),
because the induction rules of the library take an operator and cannot be instantiated.

What is found rests on a theorem about `on_readReady` alone.  ReadsAddUp: some bytes read, and then
others behind what is left of them, give the packets of one read of both, for any bytes
whatever.  It is not obvious: `removeUntilFindHead` drops bytes by what it sees so far, keeps
two of them, or all when there are fewer than four, and a round for which bytes are
missing is repeated when they have come.  The proof follows the rounds to where they end
(`Settles`), shows that a round with bytes to follow is the same round with
those bytes behind its result (RoundJoin), and that dropping early finds the same mark as
dropping late (FromMarkLater).  So one may speak of what is found in the stream
(`Found`: what the tool has seen, and the packets in the bytes it holds and has yet to read)
whoever reads it in what pieces; reading does not change it, a reply adds to its
end (FoundStays).

What a damaged reply leaves behind is then one of two things (`Harmless`): bytes
without the second byte of a mark, or a frame one byte short that the first byte of a mark does not
complete.  Behind either, a reply leaves harmless bytes, and is found if it is whole
(HarmlessJoin); the same is true of every end of the stream, because a session begins
to read anywhere in it (`Following`).  Hence the replies due in a session are all in `Found`
(`Delivered`), and when nothing is on the way, all were seen: NothingSwallowed.  It excepts
replies that mislead (`deaf`), which is where the code does lose the next one.

The conditions make checksums symbols.  `OnlyHeadsFit`: the checksum of bytes that are no
message's header and body fits nothing.  `SumsApart`: the first checksum byte belongs to one message and
occurs in no other part of a frame and not in the noise.  They are the assumption of section 2
that a checksum fits its own frame alone, in a form that can be counted with.  CRC-16
satisfies them no more than any checksum of two bytes can: noise that happens to be a frame
is accepted by the code, and the theorems are about all other noise.  They are
hypotheses of the theorems and not of the module.  The instance of `serial_line`
satisfies both: TLC evaluates SumsApart, and OnlyHeadsFit is how its `CRC` is defined.

`MarksApart`: byte 55 of the mark `AA 55` occurs in a frame in its mark alone, and is no noise.
This one is about contents.  A body or a checksum may hold that byte, also behind an `AA`; a
session that begins to read behind the mark of such a frame can find a header that is
none, and wait for as many bytes as that claims (the hazard listed at
`physerialthread.cpp` 106).  The theorem says that nothing else swallows a reply; what a false
mark does is left to the 8 s of `poll`.  TLC evaluates MarksApart for the instance.
ReadsAddUp and FoundStays do without it.

Only model-checked:

* liveness (SessionEnds, Recovers, LoaderRestored), which the provers here do not reach.

Every safety property of a passing run is a theorem.

## 5. What is left

SerialLine as an implementation of the wire of `UartUpdate`: today the two meet in the
list of what a frame may suffer (LoseFrame, Noise, LoseReply), which SerialLine was read
against by hand.

Not modelled, and why:

* The Android application (Java): threads, dialogs and the life cycle of the object
  that owns the native updater.  For the device all of it is a session that stops at any
  point (`Abandon`), or two taps that start two (a hazard without property).
* KEY, SPECIAL and UPDATA_DUAL_BANK_CRC of the command loop: no tool of the repository
  sends them, and what they do is in prebuilt libraries.
* USB enumeration, descriptors and the control endpoint (`usb_config.c`, `descriptor.c`,
  most of `hid.c`): tables and the state machine of a prebuilt stack.
* Pin, clock and log set-up, the write protection example (compiled out), user
  interfaces.
* jlfs, the NOR flash and the boot ROM are prebuilt; what the models say of them is
  what `user.c` and `main.c` rely on, and is marked external in `PROJECT.json`.

Most lines of the repository are none of these: some 21 000 of 28 000 are register maps
and SDK headers under `user_boot/include_lib` (`cpu.h`, `gpio.h`, `ch9.h` of nine
chips), which have no behaviour to model.  The models cover the upgrade loop,
both desktop tools and the native Android updater nearly whole.
