---------------------------- MODULE UbootUpdate ----------------------------
(***************************************************************************)
(* Updating the bootloader itself: the branch of UpdateThread::runInner    *)
(* that the "update uboot" box switches on, the application branch that    *)
(* follows it, and what user_check_upgrade and main() do when the boot ROM *)
(* had to start the backup at 64 KB.                                       *)
(*                                                                         *)
(* Flash is a line of erase units: the first area is 0 .. K - 1, the       *)
(* backup K .. 2 * K - 1, the application zone AppBase .. N - 1.  A loader *)
(* is the first AppBase units of a file, so the application zone begins    *)
(* inside the first area and runs over the backup.                         *)
(*                                                                         *)
(* Addresses are relative to upgrade_file, the zone the last INIT chose    *)
(* and every entry of the upgrade loop sets back to the application.       *)
(*                                                                         *)
(* A command and its answer are one step here; UartUpdate examines the     *)
(* line between the two.  What is left of the line is what the tool can    *)
(* take for another answer: answers to INITs of earlier sessions, and the  *)
(* one to a write of the first area that it did not wait for.              *)
(***************************************************************************)
EXTENDS Integers, FiniteSets

CONSTANTS
  N,             \* erase units of the flash
  K,             \* abs64kLen / eraseUnitSize, with an upgrade_eoffset of 0
  AppBase,       \* jlfs_get_flash_app_base_addr, appZoneAddr
  Content, Erased, Torn,
  Heads,         \* the contents of unit AppBase that jlfs_mount accepts
  Images,        \* files, from the start of the flash
  RomChecksAll,  \* BOOLEAN: the boot ROM rejects a loader that is not complete
  SilentFaults,  \* BOOLEAN: flash operations may report success and fail
  LateInits,     \* (bound) how many INITs may be answered after their session's end
  AfterMisled    \* BOOLEAN (bound): sessions follow one that was misled

Unit == 0 .. N - 1
Image == [len : 0 .. N, unit : [Unit -> Content]]

ASSUME LayoutAssumption ==
  /\ N \in Nat /\ K \in Nat /\ AppBase \in Nat
  /\ 0 < AppBase /\ AppBase <= K /\ 1 < K /\ 2 * K <= N
ASSUME CellAssumption ==
  /\ {Erased, Torn} \subseteq Content
  /\ Heads \subseteq Content \ {Erased, Torn}
ASSUME FileAssumption == Images \subseteq Image
ASSUME SwitchAssumption ==
  {RomChecksAll, SilentFaults, AfterMisled} \subseteq BOOLEAN

VARIABLES
  flash,
  mode,    \* "off" | "dead" | "app" | "wipe", "copy" (user_check_upgrade) | "loop"
           \* | "stuck" (__boot_failed)
  nvram,   \* what nvram_list begins with: "start" | "succ" | "none"
  loader,  \* get_uboot_offset: 0 or K
  pos,     \* the unit user_check_upgrade copies
  zone,    \* upgrade_file: "app" (app_dir_head; or there is no loop) | "uboot"
  pc,      \* the answer runInner waits for
  file,    \* m_fileContent
  both,    \* m_isUpdateUboot
  unit,    \* the unit it is about
  dirty,   \* the units whose CRC in chipCrcList differs from the file's
  base,    \* appZoneAddr
  misled,  \* (history) the last session that got past INIT took a late answer for that
           \* to "app_dir_head", and with it the wrong address or the wrong zone
  late,    \* answers still to come from earlier: to INITs ("app", "uboot"), to "write";
           \* or {"lost"}: there will be none to the last command
  held,    \* (history) INIT "uboot_zone" was executed for this session, and the device
           \* was not switched off since
  alone    \* no tool is connected and nothing will fail or be cut any more

dev  == <<mode, nvram, loader, pos, zone>>
tool == <<pc, file, both, unit, dirty, base, misled, late, held>>
vars == <<flash, mode, nvram, loader, pos, zone,
          pc, file, both, unit, dirty, base, misled, late, held, alone>>

NoFile == [len |-> 0, unit |-> [u \in Unit |-> Erased]]

----------------------------------------------------------------------------
(* Boot *)

\* The complete loader of a file begins at unit u.
Loads(u, img) ==
  img.len > AppBase /\ \A i \in 0 .. AppBase - 1 : flash[u + i] = img.unit[i]
LoaderAt(u) == \E img \in Images : Loads(u, img)

\* The boot ROM (external): the first area, or else the one at 64 KB.
RomAccepts(u) ==
  IF RomChecksAll THEN LoaderAt(u) ELSE \E img \in Images : flash[u] = img.unit[0]
RomChoice == IF RomAccepts(0) THEN {0} ELSE IF RomAccepts(K) THEN {K} ELSE {}

Mountable == flash[AppBase] \in Heads

\* The end of user_check_upgrade.  If app_dir_head cannot be opened, main() goes past
\* the loop to sfc_mode_boot.
EnterLoop ==
  \/ mode' = "loop" /\ zone' = "app"
  \/ mode' = (IF Mountable THEN "app" ELSE "stuck") /\ UNCHANGED zone

\* main() of the loader at u: "if (uboot_check_upgrade_magic() || err)"
Boot(u) ==
  /\ loader' = u
  /\ nvram' = IF nvram = "start" THEN "none" ELSE nvram
  /\ IF nvram # "start" /\ Mountable THEN mode' = "app" /\ UNCHANGED zone
     ELSE IF u = K THEN mode' = "wipe" /\ UNCHANGED zone
     ELSE EnterLoop

PowerOn ==
  /\ mode = "off"
  /\ \/ \E u \in RomChoice : LoaderAt(u) /\ Boot(u)
     \/ (RomChoice = {} \/ \E u \in RomChoice : ~LoaderAt(u))
        /\ mode' = "dead" /\ UNCHANGED <<nvram, loader, zone>>
  /\ UNCHANGED <<flash, pos, tool>>

\* chip_reboot_entry_uboot_uart_upgrade_mode of the application
EnterUpdate ==
  /\ mode = "app" /\ mode' = "off" /\ nvram' = "start"
  /\ UNCHANGED <<flash, loader, pos, zone, tool>>

\* check_uboot_uart_upgrade of the application
CheckSuccess ==
  /\ mode = "app" /\ nvram = "succ" /\ nvram' = "none"
  /\ UNCHANGED <<flash, mode, loader, pos, zone, tool>>

----------------------------------------------------------------------------
(* user_check_upgrade, running from the backup *)

\* The head of the application and the place of the loader
Wiped == 0 .. AppBase

\* jlfs_erase of both; whether it worked is not looked at.
WipeTo(Result) ==
  \E r \in [Wiped -> Result] :
    flash' = [u \in Unit |->
                IF u \in Wiped /\ r[u] # "kept"
                THEN IF r[u] = "erased" THEN Erased ELSE Torn
                ELSE flash[u]]

\* Mutant: the place of the loader is not erased.
Wipe_HeadOnly ==
  /\ mode = "wipe" /\ flash' = [flash EXCEPT ![AppBase] = Erased]
  /\ mode' = "copy" /\ loader' = 0
  /\ UNCHANGED <<nvram, pos, zone, tool>>

Wipe ==
  /\ mode = "wipe" /\ WipeTo({"erased"})
  /\ mode' = "copy" /\ loader' = 0
  /\ UNCHANGED <<nvram, pos, zone, tool>>

WipeFails ==
  /\ mode = "wipe" /\ WipeTo({"kept", "erased", "torn"})
  /\ mode' = "copy" /\ loader' = 0
  /\ UNCHANGED <<nvram, pos, zone, tool>>

Programmed(old, data) == IF old \in {Erased, data} THEN data ELSE Torn

CopyTo(c) ==
  /\ mode = "copy"
  /\ flash' = [flash EXCEPT ![pos] = c]
  /\ IF pos + 1 < AppBase THEN pos' = pos + 1 /\ UNCHANGED <<mode, zone>>
     ELSE pos' = 0 /\ EnterLoop
  /\ UNCHANGED <<nvram, loader, tool>>

Copied == Programmed(flash[pos], flash[K + pos])

\* One round of "do { jlfs_fread; jlfs_write } while (1)"
CopyUnit  == CopyTo(Copied)
CopyFails == \E c \in {flash[pos], Torn} : CopyTo(c)

----------------------------------------------------------------------------
(* The commands of a session *)

Zones == {"app", "uboot"}

\* Where a zone begins: upgrade_file.addr, and zoneAddr in the answer to INIT
ZoneBase(z) == IF z = "app" THEN AppBase ELSE 0

BodyUnits == 1 .. file.len - base - 1

Erasing == {"mark", "eraseBackup", "eraseFirst", "eraseHead", "erase"}
Writing == {"writeBackup", "writeFirst", "writeFirstHead", "write", "writeHead"}
Asking  == {"init", "initUboot", "initAgain", "verifyBackup", "verifyFirst",
            "fetch", "verify", "reboot"}

\* The address in the command, and the unit of the flash the device finds there
Offset ==
  CASE pc = "mark"                           -> base
    [] pc \in {"eraseBackup", "writeBackup"} -> K + unit
    [] OTHER                                 -> unit
Address == ZoneBase(zone) + Offset

\* Past its end the file is padded with 0xFF, which is what Erased reads as.
FileUnit(u) == IF u < file.len THEN file.unit[u] ELSE Erased
Data == IF pc \in {"write", "writeHead"} THEN FileUnit(base + unit) ELSE FileUnit(unit)

Outcome == IF pc \in Erasing THEN Erased ELSE Programmed(flash[Address], Data)

\* What is then in that unit; past the end of the flash there is nothing.
Leaves(C) ==
  flash' \in IF Address \in Unit THEN {[flash EXCEPT ![Address] = c] : c \in C} ELSE {flash}

\* The device executes the command, and its answer is the next one to come.
Listening == mode = "loop" /\ late = {}
Heard == Listening /\ UNCHANGED <<dev, base, misled, late, held>>

\* The device says success.
Succeeds ==
  /\ Heard /\ Address \in Unit
  /\ Leaves(IF SilentFaults THEN {Outcome, Torn} ELSE {Outcome})

\* JL_SU_CMD_ERASE_ERROR, JL_SU_CMD_WRITE_ERROR
Fails == Heard /\ Leaves({flash[Address], Torn})

Go(p, u) == pc' = p /\ unit' = u
Keep == UNCHANGED <<file, both, dirty>>
Asks == Heard /\ UNCHANGED flash

End ==
  /\ pc' = "idle" /\ unit' = 0 /\ dirty' = {} /\ base' = AppBase /\ held' = FALSE
  /\ file' = NoFile /\ both' = FALSE /\ UNCHANGED misled

\* runInner returns, and no answer is to come.
Close == End /\ late' = {} /\ UNCHANGED dev

\* Mutant: one unit too many.
Through_OneMore(last, p, u) ==
  /\ Succeeds /\ Keep
  /\ IF unit <= last THEN Go(pc, unit + 1) ELSE Go(p, u)

\* The loops of eraseFlash and writeFlash: the next unit of the area or, after the
\* last, phase p
Through(last, p, u) ==
  /\ Succeeds /\ Keep
  /\ IF unit < last THEN Go(pc, unit + 1) ELSE Go(p, u)

----------------------------------------------------------------------------
(* runInner *)

StartSession ==
  /\ pc = "idle" /\ (AfterMisled \/ ~misled)
  /\ file' \in Images /\ both' \in BOOLEAN
  /\ Go("init", 0)
  /\ UNCHANGED <<flash, dev, dirty, base, misled, late, held>>

\* The answers that are late in what follows are some of these.
MayOwe(zones) == late' \in {Z \in SUBSET zones : Cardinality(Z) <= LateInits}

\* INIT "app_dir_head" is answered, with zoneAddr b: by the device or, for a reply
\* names its opcode and not the zone, by its answer to an INIT of an earlier session.
\* Ours may then be lost, or executed, or still be owed an answer, as may others.
InitAnswered(b) ==
  /\ mode = "loop"
  /\ \/ zone' = "app" /\ b = AppBase /\ late' = {}
     \/ /\ \E z \in late : b = ZoneBase(z)
        /\ zone' \in late \cup {"app"} /\ MayOwe(late \cup {"app"})
  /\ UNCHANGED <<flash, mode, nvram, loader, pos>>

\* ... and CHECK is
Prepared ==
  /\ pc = "init"
  /\ \E b \in {0, AppBase} : InitAnswered(b) /\ file.len > b /\ base' = b
  /\ misled' = (base' # AppBase \/ (~both /\ zone' # "app"))
  /\ Go(IF both THEN "initUboot" ELSE "fetch", 0)
  /\ Keep /\ UNCHANGED held

\* fileContent.size() <= appZoneAddr
FileTooShort ==
  /\ pc = "init"
  /\ \E b \in {0, AppBase} : InitAnswered(b) /\ file.len <= b
  /\ End

\* The answer to INIT "uboot_zone", or a late one, and ours may not be executed.
UbootChosen ==
  /\ pc = "initUboot" /\ mode = "loop"
  /\ \/ zone' = "uboot"
     \/ late # {} /\ zone' \in late \cup {zone}
  /\ held' = (zone' = "uboot")
  /\ late' = {}
  /\ Go("mark", 0)
  /\ Keep /\ UNCHANGED <<flash, mode, nvram, loader, pos, base, misled>>

\* "inform that we are updating"
AppMarked == pc = "mark" /\ Succeeds /\ Go("eraseBackup", 0) /\ Keep

BackupErased  == pc = "eraseBackup" /\ Through(K - 1, "writeBackup", 0)
BackupWritten == pc = "writeBackup" /\ Through(K - 1, "verifyBackup", 0)

\* The area at address a holds the loader; what is read past the end of the flash
\* may fit or not.
AreaUnits(a) == {u \in 0 .. K - 1 : ZoneBase(zone) + a + u \in Unit}
Same(a) == \A u \in AreaUnits(a) : flash[ZoneBase(zone) + a + u] = FileUnit(u)

\* Mutant: the backup is not compared.
BackupVerified_Unchecked ==
  /\ pc = "verifyBackup" /\ Asks
  /\ Go("eraseFirst", 0) /\ Keep

\* ensureCrcMatch
BackupVerified ==
  /\ pc = "verifyBackup" /\ Asks /\ Same(K)
  /\ Go("eraseFirst", 0) /\ Keep

FirstErased  == pc = "eraseFirst" /\ Through(K - 1, "writeFirst", 1)
FirstWritten == pc = "writeFirst" /\ Through(K - 1, "writeFirstHead", 0)

\* An error is shown, or that there was no answer, and unit 0 is written all the
\* same.  The command may have been lost, or its answer, or be under way: then the
\* next one arrives over its data, and the answer to it is taken for the next one's.
FirstWriteFails ==
  /\ pc = "writeFirst"
  /\ \/ Fails
     \/ /\ mode = "loop" /\ late = {} /\ late' \in SUBSET {"write"}
        /\ Leaves({flash[Address], Outcome, Torn})
        /\ UNCHANGED <<dev, base, misled, held>>
  /\ Go("writeFirstHead", 0) /\ Keep

FirstHeadWritten ==
  pc = "writeFirstHead" /\ Succeeds /\ Go("verifyFirst", 0) /\ Keep

\* ... when the answer is the late one, and our own was lost or not even owed
FirstHeadUnknown ==
  /\ pc = "writeFirstHead" /\ mode = "loop" /\ late = {"write"}
  /\ Leaves({flash[Address], Outcome, Torn})
  /\ Go("verifyFirst", 0) /\ late' = {}
  /\ Keep /\ UNCHANGED <<dev, base, misled, held>>

\* Mutant: the first area is not compared.
FirstVerified_Unchecked ==
  /\ pc = "verifyFirst" /\ Asks
  /\ Go("initAgain", 0) /\ Keep

\* ensureCrcMatch
FirstVerified ==
  /\ pc = "verifyFirst" /\ Asks /\ Same(0)
  /\ Go("initAgain", 0) /\ Keep

LoaderMismatch ==
  /\ pc \in {"verifyBackup", "verifyFirst"} /\ Listening
  /\ LET a == IF pc = "verifyBackup" THEN K ELSE 0
     IN ~Same(a) \/ AreaUnits(a) # 0 .. K - 1
  /\ Close /\ UNCHANGED flash

\* The answer to the second INIT "app_dir_head"
BackToApp ==
  /\ pc = "initAgain" /\ mode = "loop" /\ late = {}
  /\ zone' = "app"
  /\ Go("fetch", 0)
  /\ Keep /\ UNCHANGED <<flash, mode, nvram, loader, pos, base, misled, late, held>>

\* The application branch.  What is read past the end of the flash may fit or not.
Differing ==
  {D \in SUBSET ({0} \cup BodyUnits) : \A b \in {0} \cup BodyUnits :
     ZoneBase(zone) + b \in Unit =>
       (b \in D <=> flash[ZoneBase(zone) + b] # file.unit[base + b])}

Fetched ==
  /\ pc = "fetch" /\ Asks
  /\ dirty' \in Differing
  /\ Go(IF dirty' = {} THEN "reboot" ELSE "eraseHead", 0)
  /\ UNCHANGED <<file, both>>

NextDirty ==
  LET rest == {b \in dirty : b > unit} IN
  \/ rest = {} /\ Go("writeHead", 0)
  \/ \E b \in rest : (\A c \in rest : b <= c) /\ Go("erase", b)

HeadErased  == pc = "eraseHead" /\ Succeeds /\ NextDirty /\ Keep
UnitErased  == pc = "erase" /\ Succeeds /\ Go("write", unit) /\ Keep
UnitWritten == pc = "write" /\ Succeeds /\ NextDirty /\ Keep
HeadWritten == pc = "writeHead" /\ Succeeds /\ Go("verify", 0) /\ Keep

\* Mutant: "update ok" without comparing.
Verified_Unchecked == pc = "verify" /\ Asks /\ Go("reboot", 0) /\ Keep

Verified == pc = "verify" /\ Asks /\ {} \in Differing /\ Go("reboot", 0) /\ Keep

Mismatch == pc = "verify" /\ Listening /\ Differing # {{}} /\ Close /\ UNCHANGED flash

\* Every other failed erase or write returns.
CommandFails ==
  /\ pc \in (Erasing \cup Writing) \ {"writeFirst"} /\ Listening
  /\ Leaves({flash[Address], Torn})
  /\ Close

\* jl_su "REBOOT": uboot_set_uart_upgrade_succ, chip_reset
Reboot ==
  /\ pc = "reboot" /\ Listening
  /\ mode' = "off" /\ nvram' = "succ"
  /\ zone' = "app"
  /\ End /\ late' = {}
  /\ UNCHANGED <<flash, loader, pos>>

\* 8 s without an answer: no loop is running, or none that got the command.
NoAnswer ==
  /\ pc # "idle" /\ (late = {"lost"} \/ mode # "loop")
  /\ IF pc = "writeFirst"
     THEN Go("writeFirstHead", 0) /\ late' = {} /\ Keep
          /\ UNCHANGED <<dev, base, misled, held>>
     ELSE Close
  /\ UNCHANGED flash

\* The zones of the INITs the device may still have when runInner returns
Owed ==
  CASE mode # "loop"                 -> {}
    [] pc \in {"init", "initAgain"}  -> late \cup {"app"}
    [] pc = "initUboot"              -> late \cup {"uboot"}
    [] OTHER                         -> {}

\* A frame is lost or late, or the tool is closed.
GiveUp ==
  /\ pc # "idle" /\ End
  /\ MayOwe(Owed)
  /\ UNCHANGED <<flash, dev>>

----------------------------------------------------------------------------
\* RAM is lost, and the operation under way is cut.
PowerCut ==
  /\ mode \notin {"off", "dead"}
  /\ mode' = "off" /\ nvram' = "none" /\ pos' = 0 /\ zone' = "app" /\ held' = FALSE
  /\ \/ /\ Listening /\ pc \in Erasing \cup Writing
        /\ Leaves({Outcome, Torn}) /\ late' = {"lost"}
     \/ /\ \/ mode # "wipe" /\ UNCHANGED flash
           \/ mode = "wipe" /\ WipeTo({"kept", "erased", "torn"})
           \/ mode = "copy" /\ flash' \in {[flash EXCEPT ![pos] = c] : c \in {Copied, Torn}}
        /\ late' = late \cap {"lost"}
  /\ UNCHANGED <<loader, pc, file, both, unit, dirty, base, misled>>

Device == (PowerOn \/ EnterUpdate \/ CheckSuccess \/ Wipe \/ CopyUnit) /\ UNCHANGED alone

Tool ==
  /\ \/ StartSession \/ Prepared \/ FileTooShort \/ UbootChosen
     \/ AppMarked \/ BackupErased \/ BackupWritten \/ BackupVerified
     \/ FirstErased \/ FirstWritten \/ FirstHeadWritten \/ FirstHeadUnknown
     \/ FirstVerified \/ LoaderMismatch \/ BackToApp
     \/ Fetched \/ HeadErased \/ UnitErased \/ UnitWritten \/ HeadWritten
     \/ Verified \/ Mismatch \/ Reboot \/ NoAnswer
  /\ ~alone /\ UNCHANGED alone

Fault ==
  /\ ~alone /\ UNCHANGED alone
  /\ WipeFails \/ CopyFails \/ FirstWriteFails \/ CommandFails \/ GiveUp \/ PowerCut

\* After a cut the device is left to itself.
LeaveAlone ==
  /\ ~alone /\ mode = "off" /\ pc = "idle"
  /\ alone' = TRUE /\ UNCHANGED <<flash, dev, tool>>

\* A device as it leaves the factory
Init ==
  /\ \E img \in Images : img.len > AppBase /\ flash = img.unit
  /\ mode = "off" /\ nvram = "none" /\ loader = 0 /\ pos = 0 /\ zone = "app"
  /\ pc = "idle" /\ file = NoFile /\ both = FALSE /\ unit = 0 /\ dirty = {}
  /\ base = AppBase /\ misled = FALSE /\ late = {} /\ held = FALSE
  /\ alone = FALSE

Next == Device \/ Tool \/ Fault \/ LeaveAlone

\* Power comes back, and user_check_upgrade runs to its end.
Spec ==
  /\ Init /\ [][Next]_vars
  /\ WF_vars((PowerOn \/ Wipe \/ CopyUnit) /\ UNCHANGED alone)

----------------------------------------------------------------------------
(* Properties *)

Areas == {"eraseBackup", "writeBackup", "eraseFirst", "writeFirst"}

\* Type invariant; the loops over an area stay within it.
TypeOK ==
  /\ flash \in [Unit -> Content]
  /\ mode \in {"off", "dead", "stuck", "app", "wipe", "copy", "loop"}
  /\ nvram \in {"start", "succ", "none"} /\ loader \in {0, K}
  /\ pos \in 0 .. AppBase - 1 /\ zone \in Zones
  /\ pc \in {"idle"} \cup Asking \cup Erasing \cup Writing
  /\ pc \in Areas => unit < K
  /\ file \in Images \cup {NoFile} /\ both \in BOOLEAN
  /\ unit \in Unit /\ dirty \subseteq Unit /\ base \in {0, AppBase}
  /\ late \in (SUBSET Zones) \cup {{"lost"}, {"write"}}
  /\ {misled, held, alone} \subseteq BOOLEAN

\* The loader in the first area is given up only while a complete one is at
\* 64 KB: by the tool, which wrote and compared it, and by user_check_upgrade,
\* which runs from it.  This holds over resets that turn the zone under the tool, but
\* not in a session that is misled: with "uboot_zone" still chosen in the device, its
\* application branch updates the loader's place, and there is no backup.
FirstNeedsBackup ==
  [][LoaderAt(0) /\ ~LoaderAt(0)'
       => LoaderAt(K) \/ (misled /\ pc \notin {"idle", "init"})]_vars

\* When the tool goes on to the application, whose zone runs over the backup, the
\* new loader is in place, also after a write that failed, was not answered or was
\* answered late and did not stop it: unless the device was reset under the session
\* (or its INIT "uboot_zone" lost behind a late answer).  Then what is compared is
\* the application zone, and the old loader stays.
NewLoaderFirst ==
  held /\ ~misled
    => (pc \in {"fetch", "eraseHead", "erase", "write", "writeHead", "verify", "reboot"}
          => Loads(0, file))

AppComplete ==
  \E img \in Images :
    /\ img.len > AppBase
    /\ \A u \in AppBase .. img.len - 1 : flash[u] = img.unit[u]

\* check_uboot_uart_upgrade finds the success magic only in an application that
\* is complete, if the session that sent REBOOT was not misled.
SuccessIsTrue == mode = "app" /\ nvram = "succ" /\ ~misled => AppComplete

\* Cut during the update of the loader, or during the repair of an earlier cut, and
\* left alone, a device whose backup is complete has its loader back in the end,
\* unless the cut came after the head of the application was written with the first
\* area: then the loader at 64 KB starts that application and repairs nothing.
LoaderRestored ==
  (alone /\ mode = "off" /\ LoaderAt(K)) ~> (LoaderAt(0) \/ (mode = "app" /\ loader = K))

\* The backup area is there to be fallen back on: there is always a loader.
AlwaysALoader == LoaderAt(0) \/ LoaderAt(K)

\* The head of the application is erased to tell that an update is under way
\* ("inform that we are updating"): a zone that mounts is complete.
BootsComplete == Mountable => AppComplete
=============================================================================
