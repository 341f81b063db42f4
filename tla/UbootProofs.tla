---------------------------- MODULE UbootProofs ----------------------------
(***************************************************************************)
(* The safety properties of UbootUpdate, for every layout, set of files    *)
(* and boot ROM, also when flash operations lie and answers are late.      *)
(***************************************************************************)
EXTENDS UbootUpdate, TLAPS

----------------------------------------------------------------------------
(* The invariant *)

Modes == {"off", "dead", "stuck", "app", "wipe", "copy", "loop"}
Phases == {"idle"} \cup Asking \cup Erasing \cup Writing
Commanding == Erasing \cup Writing
FirstPhases == {"eraseFirst", "writeFirst", "writeFirstHead", "verifyFirst"}
UbootPhases ==
  {"mark", "eraseBackup", "writeBackup", "verifyBackup", "initAgain"} \cup FirstPhases
AppPhases == {"fetch", "eraseHead", "erase", "write", "writeHead", "verify", "reboot"}

\* Where the loops are, and what can be late where
Ranges ==
  /\ pc = "writeFirstHead" => unit < K
  /\ pc # "idle" => file \in Images
  /\ pc \notin {"idle", "init"} => file.len > base
  /\ \/ late \subseteq Zones
     \/ late = {"lost"} /\ pc \in Commanding
     \/ late = {"write"} /\ pc = "writeFirstHead"

Shape == TypeOK /\ Ranges

\* The zone of the device and what the tool takes it for
Turned ==
  /\ mode # "loop" => zone = "app"
  /\ pc \in {"idle", "init"} \/ ~misled => base = AppBase
  /\ pc \in AppPhases /\ ~misled => zone = "app"
  /\ held => mode = "loop" /\ pc \in UbootPhases \cup AppPhases
  /\ held /\ pc \in UbootPhases => zone = "uboot"

\* The tool gives up the first area with its own loader in the backup.
BackupGood == ~misled /\ zone = "uboot" /\ pc \in FirstPhases => Loads(K, file)

\* user_check_upgrade runs from a complete backup.
RepairGood == mode \in {"wipe", "copy"} => LoaderAt(K)

\* The new loader is in the first area.
FirstGood ==
  held /\ ~misled /\ pc \in AppPhases \cup {"initAgain"} => Loads(0, file)

ZoneHolds(img) == \A u \in AppBase .. img.len - 1 : flash[u] = img.unit[u]

\* What was compared stays, but for a head that user_check_upgrade takes away.
Compared == ~misled /\ pc = "reboot" /\ Mountable => ZoneHolds(file)

\* So does what the success magic tells, until a loop is entered.
Told ==
  ~misled /\ nvram = "succ" /\ mode \in {"off", "app", "wipe", "copy"} /\ Mountable
    => AppComplete

----------------------------------------------------------------------------
(* Where commands go, and what they leave *)

\* Facts about the numbers
LEMMA Numbers ==
  /\ N \in Nat /\ K \in Nat /\ AppBase \in Nat
  /\ 0 < AppBase /\ AppBase <= K /\ 1 < K /\ K < N /\ 2 * K <= N
  /\ \A f \in Images : f.len \in 0 .. N /\ f.unit \in [Unit -> Content]
  BY LayoutAssumption, FileAssumption DEF Image

\* The numbers behind Unit
LEMMA UnitNumbers ==
  \A u : u \in Unit <=> u \in Nat /\ u < N
  BY Numbers DEF Unit

\* What a command leaves in a unit of the flash is a content.
LEMMA CommandTyped ==
  ASSUME Shape, pc \in Commanding
  PROVE  /\ Torn \in Content /\ Erased \in Content
         /\ Address \in Unit => Outcome \in Content
  <1>1. Torn \in Content /\ Erased \in Content
    BY CellAssumption
  <1>2. file \in Images /\ file.len \in 0 .. N /\ file.unit \in [Unit -> Content]
    BY Numbers DEF Shape, Ranges, Commanding, Erasing, Writing
  <1>3. ASSUME NEW u \in Nat PROVE FileUnit(u) \in Content
    BY <1>1, <1>2, Numbers, UnitNumbers DEF FileUnit
  <1>4. unit \in Nat /\ base + unit \in Nat
    BY Numbers, UnitNumbers DEF Shape, TypeOK
  <1>5. Data \in Content
    BY <1>3, <1>4 DEF Data
  <1>6. Address \in Unit => Outcome \in Content
    BY <1>1, <1>5 DEF Outcome, Programmed, Shape, TypeOK
  <1> QED BY <1>1, <1>6

\* The units a step may change: user_check_upgrade's, or the command's.
Touched ==
  IF mode = "wipe" THEN Wiped
  ELSE IF mode = "copy" THEN {pos}
  ELSE IF mode = "loop" /\ pc \in Commanding THEN {Address}
  ELSE {}

\* What a step may do to the flash.
Frame ==
  /\ flash' \in [Unit -> Content]
  /\ \A u \in Unit \ Touched : flash'[u] = flash[u]
  /\ mode = "wipe" => flash'[AppBase] \in {flash[AppBase], Erased, Torn}

LEMMA SameFrame ==
  ASSUME Shape, flash' = flash
  PROVE  Frame
  BY DEF Frame, Shape, TypeOK

LEMMA LeavesFrame ==
  ASSUME Shape, mode = "loop", pc \in Commanding,
         NEW C, C \subseteq {flash[Address], Outcome, Torn}, Leaves(C)
  PROVE  Frame
  <1>1. CASE Address \in Unit
    <2>1. PICK c \in C : flash' = [flash EXCEPT ![Address] = c]
      BY <1>1 DEF Leaves
    <2>2. flash \in [Unit -> Content]
      BY DEF Shape, TypeOK
    <2>3. c \in Content
      BY <1>1, <2>1, <2>2, CommandTyped
    <2> QED BY <2>1, <2>2, <2>3 DEF Frame, Touched
  <1>2. CASE Address \notin Unit
    BY <1>2, SameFrame DEF Leaves
  <1> QED BY <1>1, <1>2

LEMMA SucceedsFrame ==
  ASSUME Shape, pc \in Commanding, Succeeds
  PROVE  Frame
  BY LeavesFrame DEF Succeeds, Heard, Listening

LEMMA WipeFrame ==
  ASSUME Shape, mode = "wipe",
         NEW R, R \subseteq {"kept", "erased", "torn"}, WipeTo(R)
  PROVE  Frame
  <1>1. PICK r \in [Wiped -> R] :
          flash' = [u \in Unit |->
                      IF u \in Wiped /\ r[u] # "kept"
                      THEN IF r[u] = "erased" THEN Erased ELSE Torn
                      ELSE flash[u]]
    BY DEF WipeTo
  <1>2. AppBase \in Unit
    BY Numbers, UnitNumbers
  <1> QED BY <1>1, <1>2, CellAssumption DEF Frame, Touched, Shape, TypeOK

\* What is copied is a content.
LEMMA CopiedTyped ==
  ASSUME Shape
  PROVE  pos \in Unit /\ Copied \in Content /\ flash[pos] \in Content /\ Torn \in Content
  <1>1. pos \in Unit /\ K + pos \in Unit
    BY Numbers, UnitNumbers DEF Shape, TypeOK
  <1> QED BY <1>1, CellAssumption DEF Copied, Programmed, Shape, TypeOK

LEMMA CopyFrame ==
  ASSUME Shape, mode = "copy",
         NEW c \in {flash[pos], Copied, Torn}, flash' = [flash EXCEPT ![pos] = c]
  PROVE  Frame
  BY CopiedTyped DEF Frame, Touched, Shape, TypeOK

LEMMA DeviceFrame ==
  ASSUME Shape, Device
  PROVE  Frame
  <1>1. CASE PowerOn \/ EnterUpdate \/ CheckSuccess
    BY <1>1, SameFrame DEF PowerOn, EnterUpdate, CheckSuccess
  <1>2. CASE Wipe
    BY <1>2, WipeFrame DEF Wipe
  <1>3. CASE CopyUnit
    BY <1>3, CopyFrame DEF CopyUnit, CopyTo
  <1> QED BY <1>1, <1>2, <1>3 DEF Device

LEMMA ToolFrame ==
  ASSUME Shape, Tool
  PROVE  Frame
  <1>1. CASE \/ StartSession \/ Prepared \/ FileTooShort \/ UbootChosen \/ BackupVerified
             \/ FirstVerified \/ LoaderMismatch \/ BackToApp \/ Fetched \/ Verified
             \/ Mismatch \/ Reboot \/ NoAnswer
    BY <1>1, SameFrame
       DEF StartSession, Prepared, FileTooShort, InitAnswered, UbootChosen, BackupVerified,
           FirstVerified, LoaderMismatch, BackToApp, Fetched, Verified, Mismatch, Reboot,
           NoAnswer, Asks
  <1>2. CASE \/ AppMarked \/ BackupErased \/ BackupWritten
             \/ FirstErased \/ FirstWritten \/ FirstHeadWritten
             \/ HeadErased \/ UnitErased \/ UnitWritten \/ HeadWritten
    BY <1>2, SucceedsFrame
       DEF AppMarked, BackupErased, BackupWritten, FirstErased, FirstWritten,
           FirstHeadWritten, HeadErased, UnitErased, UnitWritten, HeadWritten,
           Through, Commanding, Erasing, Writing
  <1>3. CASE FirstHeadUnknown
    BY <1>3, LeavesFrame DEF FirstHeadUnknown, Commanding, Writing
  <1> QED BY <1>1, <1>2, <1>3 DEF Tool

LEMMA FaultFrame ==
  ASSUME Shape, Fault
  PROVE  Frame
  <1>1. CASE WipeFails
    BY <1>1, WipeFrame DEF WipeFails
  <1>2. CASE CopyFails
    BY <1>2, CopyFrame DEF CopyFails, CopyTo
  <1>3. CASE FirstWriteFails
    BY <1>3, LeavesFrame DEF FirstWriteFails, Fails, Heard, Listening, Commanding, Writing
  <1>4. CASE CommandFails
    BY <1>4, LeavesFrame DEF CommandFails, Listening, Commanding
  <1>5. CASE GiveUp
    BY <1>5, SameFrame DEF GiveUp
  <1>6. CASE PowerCut
    <2>1. CASE flash' = flash
      BY <2>1, SameFrame
    <2>2. CASE Listening /\ pc \in Commanding /\ Leaves({Outcome, Torn})
      BY <2>2, LeavesFrame DEF Listening
    <2>3. CASE mode = "wipe" /\ WipeTo({"kept", "erased", "torn"})
      BY <2>3, WipeFrame
    <2>4. CASE mode = "copy" /\ flash' \in {[flash EXCEPT ![pos] = c] : c \in {Copied, Torn}}
      BY <2>4, CopyFrame
    <2> QED BY <1>6, <2>1, <2>2, <2>3, <2>4 DEF PowerCut, Commanding
  <1> QED BY <1>1, <1>2, <1>3, <1>4, <1>5, <1>6 DEF Fault

\* Every step changes only what user_check_upgrade or the command is about.
LEMMA StepFrame ==
  ASSUME Shape, [Next]_vars
  PROVE  Frame
  <1>1. CASE LeaveAlone \/ UNCHANGED vars
    BY <1>1, SameFrame DEF LeaveAlone, vars
  <1> QED BY <1>1, DeviceFrame, ToolFrame, FaultFrame DEF Next

----------------------------------------------------------------------------
(* Types and ranges *)

\* Init establishes them.
LEMMA InitShape == Init => Shape
  <1> SUFFICES ASSUME Init PROVE Shape
    OBVIOUS
  <1>1. flash \in [Unit -> Content]
    BY Numbers DEF Init
  <1>2. pc = "idle" /\ late = {} /\ 0 \in Unit /\ 0 \in 0 .. AppBase - 1
    BY Numbers, UnitNumbers DEF Init
  <1>3. TypeOK
    BY <1>1, <1>2 DEF TypeOK, Init, Areas, Zones
  <1>4. Ranges
    BY <1>2 DEF Ranges
  <1> QED BY <1>3, <1>4 DEF Shape

DeviceTyped ==
  /\ flash \in [Unit -> Content] /\ mode \in Modes
  /\ nvram \in {"start", "succ", "none"} /\ loader \in {0, K}
  /\ pos \in 0 .. AppBase - 1 /\ zone \in Zones
  /\ misled \in BOOLEAN /\ alone \in BOOLEAN

\* A tool that closes has nothing left but answers to INITs.
LEMMA EndShape ==
  ASSUME DeviceTyped', End, late' \subseteq Zones
  PROVE  Shape'
  <1>1. pc' = "idle" /\ 0 \in Unit /\ base' \in {0, AppBase}
    BY Numbers, UnitNumbers DEF End
  <1>2. TypeOK'
    BY <1>1 DEF TypeOK, End, DeviceTyped, Modes, Areas
  <1>3. Ranges'
    BY <1>1 DEF Ranges
  <1> QED BY <1>2, <1>3 DEF Shape

\* The device moves and the tool stays.
LEMMA DeviceShape ==
  ASSUME Shape, DeviceTyped', UNCHANGED tool
  PROVE  Shape'
  BY DEF Shape, TypeOK, Ranges, tool, DeviceTyped, Modes, Areas

\* The tool goes to phase p about unit u.
LEMMA GoShape ==
  ASSUME Shape, DeviceTyped', UNCHANGED <<file, both>>, pc # "idle",
         NEW p \in Asking \cup Erasing \cup Writing, NEW u \in Unit, Go(p, u),
         p \in Areas \cup {"writeFirstHead"} => u < K,
         dirty' \subseteq Unit, base' \in {0, AppBase}, held' \in BOOLEAN,
         file.len > base',
         late' \subseteq Zones \/ (late' = {"write"} /\ p = "writeFirstHead")
  PROVE  Shape'
  <1>1. pc' = p /\ unit' = u
    BY DEF Go
  <1>2. TypeOK'
    BY <1>1 DEF Shape, TypeOK, DeviceTyped, Modes
  <1>3. Ranges'
    BY <1>1 DEF Shape, Ranges
  <1> QED BY <1>2, <1>3 DEF Shape

\* The device stays as it is, but for the flash.
LEMMA HeardTyped ==
  ASSUME Shape, [Next]_vars, UNCHANGED <<mode, nvram, loader, pos, zone, misled>>
  PROVE  DeviceTyped'
  <1>1. flash' \in [Unit -> Content]
    BY StepFrame DEF Frame
  <1>2. alone' \in BOOLEAN
    BY DEF Next, Device, Tool, Fault, LeaveAlone, vars, Shape, TypeOK
  <1> QED BY <1>1, <1>2 DEF DeviceTyped, Shape, TypeOK, Modes

LEMMA EnterTyped ==
  ASSUME Shape, EnterLoop
  PROVE  mode' \in Modes /\ zone' \in Zones
  BY DEF EnterLoop, Shape, TypeOK, Modes, Zones

LEMMA DeviceKeepsShape ==
  ASSUME Shape, Device
  PROVE  Shape'
  <1>1. flash' \in [Unit -> Content]
    BY DeviceFrame DEF Frame
  <1>2. UNCHANGED tool /\ alone' \in BOOLEAN /\ misled' \in BOOLEAN
    BY DEF Device, PowerOn, EnterUpdate, CheckSuccess, Wipe, CopyUnit, CopyTo, tool,
           Shape, TypeOK
  <1>3. /\ mode' \in Modes /\ nvram' \in {"start", "succ", "none"} /\ loader' \in {0, K}
        /\ pos' \in 0 .. AppBase - 1 /\ zone' \in Zones
    <2>1. CASE PowerOn
      <3>1. RomChoice \subseteq {0, K}
        BY DEF RomChoice
      <3>2. CASE \E u \in RomChoice : LoaderAt(u) /\ Boot(u)
        <4>1. PICK u \in {0, K} : Boot(u)
          BY <3>1, <3>2
        <4>2. nvram' \in {"start", "succ", "none"} /\ loader' \in {0, K}
          BY <4>1 DEF Boot, Shape, TypeOK
        <4>3. mode' \in Modes /\ zone' \in Zones
          BY <4>1, EnterTyped DEF Boot, Shape, TypeOK, Modes
        <4> QED BY <2>1, <4>2, <4>3 DEF PowerOn, Shape, TypeOK
      <3>3. CASE mode' = "dead" /\ UNCHANGED <<nvram, loader, zone>>
        BY <2>1, <3>3 DEF PowerOn, Shape, TypeOK, Modes
      <3> QED BY <2>1, <3>2, <3>3 DEF PowerOn
    <2>2. CASE EnterUpdate \/ CheckSuccess
      BY <2>2 DEF EnterUpdate, CheckSuccess, Shape, TypeOK, Modes
    <2>3. CASE Wipe
      BY <2>3 DEF Wipe, Shape, TypeOK, Modes
    <2>4. CASE CopyUnit
      BY <2>4, Numbers, EnterTyped DEF CopyUnit, CopyTo, Shape, TypeOK, Modes
    <2> QED BY <2>1, <2>2, <2>3, <2>4 DEF Device
  <1> QED BY <1>1, <1>2, <1>3, DeviceShape DEF DeviceTyped

\* An answer that is the next one to come, and a step to unit u of phase p
LEMMA AdvanceShape ==
  ASSUME Shape, [Next]_vars, Heard, UNCHANGED <<file, both>>, pc \notin {"idle", "init"},
         NEW p \in Asking \cup Erasing \cup Writing, NEW u \in Unit, Go(p, u),
         p \in Areas \cup {"writeFirstHead"} => u < K, dirty' \subseteq Unit
  PROVE  Shape'
  <1>1. DeviceTyped'
    BY HeardTyped DEF Heard, dev
  <1>2. base' \in {0, AppBase} /\ held' \in BOOLEAN /\ file.len > base' /\ late' = {}
    BY DEF Heard, Listening, Shape, TypeOK, Ranges
  <1> QED BY <1>1, <1>2, GoShape

\* A loop over an area goes to its next unit, or to phase p.
LEMMA ThroughShape ==
  ASSUME Shape, [Next]_vars, NEW p \in Asking \cup Writing, NEW u \in {0, 1},
         Through(K - 1, p, u), pc \in Areas
  PROVE  Shape'
  <1>1. Heard /\ UNCHANGED <<file, both>> /\ dirty' \subseteq Unit
    BY DEF Through, Succeeds, Keep, Shape, TypeOK
  <1>2. pc \notin {"idle", "init"} /\ pc \in Erasing \cup Writing
    BY DEF Areas, Erasing, Writing
  <1>3. CASE unit < K - 1
    <2>1. unit + 1 \in Unit /\ unit + 1 < K
      BY <1>3, Numbers, UnitNumbers DEF Shape, TypeOK
    <2>2. Go(pc, unit + 1)
      BY <1>3 DEF Through
    <2> QED BY <1>1, <1>2, <2>1, <2>2, AdvanceShape
  <1>4. CASE ~(unit < K - 1)
    <2>1. u \in Unit /\ u < K
      BY Numbers, UnitNumbers
    <2>2. Go(p, u)
      BY <1>4 DEF Through
    <2> QED BY <1>1, <1>2, <2>1, <2>2, AdvanceShape
  <1> QED BY <1>3, <1>4

\* The loop over the units that differ
LEMMA NextDirtyShape ==
  ASSUME Shape, [Next]_vars, Succeeds, Keep, NextDirty, pc \in {"eraseHead", "write"}
  PROVE  Shape'
  <1>1. Heard /\ UNCHANGED <<file, both>> /\ dirty' \subseteq Unit /\ dirty \subseteq Unit
    BY DEF Succeeds, Keep, Shape, TypeOK
  <1>2. CASE Go("writeHead", 0)
    <2>1. 0 \in Unit /\ "writeHead" \in Writing /\ "writeHead" \notin Areas \cup {"writeFirstHead"}
      BY Numbers, UnitNumbers DEF Writing, Areas
    <2> QED BY <1>1, <1>2, <2>1, AdvanceShape
  <1>3. ASSUME NEW b \in dirty, Go("erase", b) PROVE Shape'
    BY <1>1, <1>3, AdvanceShape DEF Erasing, Areas
  <1> QED BY <1>2, <1>3 DEF NextDirty

\* The units that may differ are units.
LEMMA DifferingUnits ==
  ASSUME Shape, NEW D \in Differing
  PROVE  D \subseteq Unit
  <1>1. file.len \in 0 .. N
    BY Numbers DEF Shape, TypeOK, NoFile
  <1>2. base \in Nat /\ 0 \in Unit
    BY Numbers, UnitNumbers DEF Shape, TypeOK
  <1>3. BodyUnits \subseteq Unit
    BY <1>1, <1>2, Numbers, UnitNumbers DEF BodyUnits
  <1> QED BY <1>2, <1>3 DEF Differing

\* The answers to INITs that may be late are those of zones.
LEMMA OwedZones ==
  ASSUME Shape
  PROVE  Owed \subseteq Zones
  <1>1. pc \in {"init", "initUboot", "initAgain"} => late \subseteq Zones
    BY DEF Shape, Ranges, Commanding, Erasing, Writing
  <1> QED BY <1>1 DEF Owed, Zones

LEMMA ToolKeepsShape ==
  ASSUME Shape, Tool
  PROVE  Shape'
  <1> USE DEF Go, Keep
  <1>1. flash' \in [Unit -> Content] /\ alone' \in BOOLEAN /\ [Next]_vars
    BY ToolFrame DEF Frame, Shape, TypeOK, Tool, Next
  <1>2. dirty \subseteq Unit /\ 0 \in Unit /\ 0 < K
    BY Numbers, UnitNumbers DEF Shape, TypeOK
  <1>3. pc \in {"init", "initUboot", "initAgain"} => late \subseteq Zones
    BY DEF Shape, Ranges, Commanding, Erasing, Writing
  <1>4. CASE StartSession
    <2>1. /\ pc' = "init" /\ unit' = 0 /\ file' \in Images /\ both' \in BOOLEAN
          /\ UNCHANGED <<mode, nvram, loader, pos, zone, dirty, base, misled, late, held>>
      BY <1>4 DEF StartSession, dev
    <2>2. late \subseteq Zones
      BY <1>4 DEF StartSession, Shape, Ranges, Commanding, Erasing, Writing
    <2>3. TypeOK'
      BY <1>1, <1>2, <2>1 DEF Shape, TypeOK, Asking, Areas
    <2>4. Ranges'
      BY <2>1, <2>2 DEF Ranges
    <2> QED BY <2>3, <2>4 DEF Shape
  <1>5. ASSUME NEW b \in {0, AppBase}, pc = "init", InitAnswered(b)
        PROVE  /\ late' \subseteq Zones /\ zone' \in Zones
               /\ UNCHANGED <<mode, nvram, loader, pos>>
    BY <1>3, <1>5 DEF InitAnswered, MayOwe, Zones
  <1>6. CASE Prepared
    <2>1. PICK b \in {0, AppBase} : InitAnswered(b) /\ file.len > b /\ base' = b
      BY <1>6 DEF Prepared
    <2>2. pc = "init" /\ UNCHANGED <<file, both, dirty, held>> /\ misled' \in BOOLEAN
      BY <1>6 DEF Prepared
    <2>3. DeviceTyped'
      BY <1>1, <1>5, <2>1, <2>2 DEF DeviceTyped, Shape, TypeOK, Modes
    <2>4. PICK p \in {"initUboot", "fetch"} : Go(p, 0)
      BY <1>6 DEF Prepared
    <2>5. p \in Asking /\ p \notin Areas \cup {"writeFirstHead"}
      BY DEF Asking, Areas
    <2> QED BY <1>2, <1>5, <2>1, <2>2, <2>3, <2>4, <2>5, GoShape DEF Shape, TypeOK
  <1>7. CASE FileTooShort
    <2>1. End /\ late' \subseteq Zones /\ zone' \in Zones /\ UNCHANGED <<mode, nvram, loader, pos>>
      BY <1>5, <1>7 DEF FileTooShort
    <2>2. DeviceTyped'
      BY <1>1, <2>1 DEF DeviceTyped, End, Shape, TypeOK, Modes
    <2> QED BY <2>1, <2>2, EndShape
  <1>8. CASE UbootChosen
    <2>1. /\ zone' \in Zones /\ late' = {} /\ held' \in BOOLEAN /\ pc = "initUboot"
          /\ UNCHANGED <<mode, nvram, loader, pos, file, both, dirty, base, misled>>
      BY <1>3, <1>8 DEF UbootChosen, Zones, Shape, TypeOK
    <2>2. DeviceTyped'
      BY <1>1, <2>1 DEF DeviceTyped, Shape, TypeOK, Modes
    <2>3. Go("mark", 0) /\ "mark" \in Erasing /\ "mark" \notin Areas \cup {"writeFirstHead"}
      BY <1>8 DEF UbootChosen, Erasing, Areas
    <2> QED BY <1>2, <2>1, <2>2, <2>3, GoShape DEF Shape, TypeOK, Ranges
  <1>9. CASE LoaderMismatch \/ Mismatch
    BY <1>1, <1>9, EndShape, HeardTyped DEF LoaderMismatch, Mismatch, Close, dev, End
  <1>10. CASE AppMarked \/ FirstHeadWritten \/ HeadWritten
    BY <1>1, <1>2, <1>10, AdvanceShape
       DEF AppMarked, FirstHeadWritten, HeadWritten, Succeeds, Asking, Erasing, Areas
  <1>11. CASE BackupErased \/ BackupWritten \/ FirstErased \/ FirstWritten
    BY <1>1, <1>11, ThroughShape
       DEF BackupErased, BackupWritten, FirstErased, FirstWritten, Areas, Asking, Writing
  <1>12. CASE BackupVerified \/ FirstVerified \/ Verified
    BY <1>1, <1>2, <1>12, AdvanceShape
       DEF BackupVerified, FirstVerified, Verified, Asks, Asking, Erasing, Areas
  <1>13. CASE FirstHeadUnknown
    BY <1>1, <1>2, <1>13, HeardTyped, GoShape
       DEF FirstHeadUnknown, dev, Asking, Areas, Shape, TypeOK, Ranges
  <1>14. CASE BackToApp
    <2>1. DeviceTyped'
      BY <1>1, <1>14 DEF BackToApp, DeviceTyped, Shape, TypeOK, Modes, Zones
    <2> QED BY <1>2, <1>14, <2>1, GoShape DEF BackToApp, Asking, Areas, Shape, TypeOK, Ranges
  <1>15. CASE Fetched
    <2>1. Heard /\ UNCHANGED <<file, both>> /\ dirty' \subseteq Unit /\ pc = "fetch"
      BY <1>15, DifferingUnits DEF Fetched, Asks
    <2>2. PICK p \in {"reboot", "eraseHead"} : Go(p, 0)
      BY <1>15 DEF Fetched
    <2>3. p \in Asking \cup Erasing \cup Writing /\ p \notin Areas \cup {"writeFirstHead"}
      BY DEF Asking, Erasing, Areas
    <2> QED BY <1>1, <1>2, <2>1, <2>2, <2>3, AdvanceShape
  <1>16. CASE HeadErased \/ UnitWritten
    BY <1>1, <1>16, NextDirtyShape DEF HeadErased, UnitWritten
  <1>17. CASE UnitErased
    BY <1>1, <1>2, <1>17, AdvanceShape
       DEF UnitErased, Succeeds, Writing, Areas, Shape, TypeOK
  <1>18. CASE Reboot
    <2>1. DeviceTyped'
      BY <1>1, <1>18 DEF Reboot, End, DeviceTyped, Shape, TypeOK, Modes, Zones
    <2> QED BY <1>18, <2>1, EndShape DEF Reboot
  <1>19. CASE NoAnswer
    <2>1. CASE pc = "writeFirst"
      <3>1. DeviceTyped'
        BY <1>1, <1>19, <2>1, HeardTyped DEF NoAnswer, dev
      <3> QED BY <1>2, <1>19, <2>1, <3>1, GoShape
              DEF NoAnswer, Writing, Shape, TypeOK, Ranges
    <2>2. CASE pc # "writeFirst"
      BY <1>1, <1>19, <2>2, EndShape, HeardTyped DEF NoAnswer, Close, dev, End
    <2> QED BY <2>1, <2>2
  <1> QED
    BY <1>4, <1>6, <1>7, <1>8, <1>9, <1>10, <1>11, <1>12, <1>13, <1>14, <1>15, <1>16,
       <1>17, <1>18, <1>19 DEF Tool

LEMMA FaultKeepsShape ==
  ASSUME Shape, Fault
  PROVE  Shape'
  <1>1. flash' \in [Unit -> Content] /\ alone' \in BOOLEAN /\ [Next]_vars
    BY FaultFrame DEF Frame, Shape, TypeOK, Fault, Next
  <1>2. CASE WipeFails
    BY <1>1, <1>2, DeviceShape DEF WipeFails, DeviceTyped, Shape, TypeOK, Modes, tool
  <1>3. CASE CopyFails
    <2>1. UNCHANGED <<nvram, loader, tool>>
      BY <1>3 DEF CopyFails, CopyTo
    <2>2. pos' \in 0 .. AppBase - 1 /\ mode' \in Modes /\ zone' \in Zones
      BY <1>3, Numbers, EnterTyped DEF CopyFails, CopyTo, Shape, TypeOK, Modes
    <2> QED BY <1>1, <2>1, <2>2, DeviceShape DEF DeviceTyped, Shape, TypeOK, tool
  <1>4. CASE FirstWriteFails
    <2>1. /\ UNCHANGED <<mode, nvram, loader, pos, zone, base, misled, held, file, both, dirty>>
          /\ pc = "writeFirst" /\ Go("writeFirstHead", 0)
          /\ late' \subseteq Zones \/ late' = {"write"}
      BY <1>4 DEF FirstWriteFails, Fails, Heard, Listening, dev, Keep
    <2>2. DeviceTyped'
      BY <1>1, <2>1, HeardTyped
    <2>3. 0 \in Unit /\ 0 < K /\ "writeFirstHead" \in Writing
      BY Numbers, UnitNumbers DEF Writing
    <2> QED BY <2>1, <2>2, <2>3, GoShape DEF Shape, TypeOK, Ranges
  <1>5. CASE CommandFails
    BY <1>1, <1>5, EndShape, HeardTyped DEF CommandFails, Close, dev, End
  <1>6. CASE GiveUp
    BY <1>1, <1>6, EndShape, HeardTyped, OwedZones DEF GiveUp, MayOwe, dev, End
  <1>7. CASE PowerCut
    <2>1. /\ mode' = "off" /\ nvram' = "none" /\ pos' = 0 /\ zone' = "app" /\ held' = FALSE
          /\ UNCHANGED <<loader, pc, file, both, unit, dirty, base, misled>>
          /\ (late' = {"lost"} /\ pc \in Commanding) \/ late' = late \cap {"lost"}
      BY <1>7 DEF PowerCut, Commanding
    <2>2. late' = {} \/ (late' = {"lost"} /\ pc \in Commanding)
      <3>1. CASE late' = {"lost"} /\ pc \in Commanding
        BY <3>1
      <3>2. CASE late' = late \cap {"lost"} /\ late = {"lost"} /\ pc \in Commanding
        BY <3>2
      <3>3. CASE late' = late \cap {"lost"} /\ "lost" \notin late
        BY <3>3
      <3>4. "lost" \notin late \/ (late = {"lost"} /\ pc \in Commanding)
        BY DEF Shape, Ranges, Zones
      <3> QED BY <2>1, <3>1, <3>2, <3>3, <3>4
    <2>3. late' \in (SUBSET Zones) \cup {{"lost"}, {"write"}} /\ 0 \in 0 .. AppBase - 1
      BY <2>2, Numbers
    <2>4. TypeOK'
      BY <1>1, <2>1, <2>3 DEF Shape, TypeOK, Zones, Areas
    <2>5. Ranges'
      BY <2>1, <2>2 DEF Shape, Ranges
    <2> QED BY <2>4, <2>5 DEF Shape
  <1> QED BY <1>2, <1>3, <1>4, <1>5, <1>6, <1>7 DEF Fault

\* The type invariant, together with the ranges, is inductive.
LEMMA StepShape ==
  ASSUME Shape, [Next]_vars
  PROVE  Shape'
  <1>1. CASE LeaveAlone
    BY <1>1, DeviceShape DEF LeaveAlone, dev, DeviceTyped, tool, Shape, TypeOK, Modes
  <1>2. CASE UNCHANGED vars
    BY <1>2, DeviceShape DEF vars, tool, DeviceTyped, Shape, TypeOK, Modes
  <1> QED BY <1>1, <1>2, DeviceKeepsShape, ToolKeepsShape, FaultKeepsShape DEF Next

----------------------------------------------------------------------------
(* What a step leaves alone *)

\* user_check_upgrade and the commands for the first area keep away from the backup.
LEMMA BackupUntouched ==
  ASSUME Shape, AppBase < K,
         mode \in {"wipe", "copy"} \/ (mode = "loop" /\ zone = "uboot" /\ pc \in FirstPhases)
  PROVE  \A i \in 0 .. AppBase - 1 : K + i \in Unit \ Touched
  <1> SUFFICES ASSUME NEW i \in 0 .. AppBase - 1 PROVE K + i \in Unit \ Touched
    OBVIOUS
  <1>1. i \in Nat /\ K + i \in Unit
    BY Numbers, UnitNumbers
  <1>2. CASE mode = "wipe"
    BY <1>1, <1>2, Numbers DEF Touched, Wiped
  <1>3. CASE mode = "copy"
    BY <1>1, <1>3, Numbers DEF Touched, Shape, TypeOK
  <1>4. CASE mode = "loop" /\ zone = "uboot" /\ pc \in FirstPhases \cap Commanding
    <2>1. Offset = unit /\ unit \in Nat /\ unit < K
      BY <1>4, UnitNumbers
         DEF Offset, FirstPhases, Commanding, Erasing, Writing, Areas, Shape, Ranges, TypeOK
    <2>2. Address = unit
      BY <1>4, <2>1 DEF Address, ZoneBase
    <2> QED BY <1>1, <1>4, <2>1, <2>2, Numbers DEF Touched
  <1>5. CASE mode = "loop" /\ pc \notin Commanding
    BY <1>1, <1>5 DEF Touched
  <1> QED BY <1>2, <1>3, <1>4, <1>5

\* Commands for the application zone, and those that mark it and make the backup, lie
\* above the place of the loader.
LEMMA FirstUntouched ==
  ASSUME Shape, mode \notin {"wipe", "copy"},
         mode = "loop" /\ pc \in Commanding =>
           \/ zone = "app"
           \/ base = AppBase /\ pc \in {"mark", "eraseBackup", "writeBackup"}
  PROVE  \A i \in 0 .. AppBase - 1 : i \in Unit \ Touched
  <1> SUFFICES ASSUME NEW i \in 0 .. AppBase - 1 PROVE i \in Unit \ Touched
    OBVIOUS
  <1>1. i \in Nat /\ i \in Unit /\ i < AppBase
    BY Numbers, UnitNumbers
  <1>2. unit \in Nat /\ base \in Nat /\ zone \in {"app", "uboot"}
    BY Numbers, UnitNumbers DEF Shape, TypeOK, Zones
  <1>3. CASE mode = "loop" /\ pc \in Commanding
    <2>1. Address >= AppBase
      <3>1. Offset \in {base, K + unit, unit}
        BY DEF Offset
      <3>2. CASE zone = "app"
        BY <1>2, <3>1, <3>2, Numbers DEF Address, ZoneBase
      <3>3. CASE zone = "uboot"
        <4>1. Offset \in {AppBase, K + unit}
          BY <1>3, <3>3 DEF Offset
        <4> QED BY <1>2, <3>3, <4>1, Numbers DEF Address, ZoneBase
      <3> QED BY <1>2, <3>2, <3>3
    <2>2. i # Address
      BY <1>1, <2>1, Numbers
    <2> QED BY <1>1, <1>3, <2>2 DEF Touched
  <1>4. CASE ~(mode = "loop" /\ pc \in Commanding)
    BY <1>1, <1>4 DEF Touched
  <1> QED BY <1>3, <1>4

\* A loader whose units are left alone stays.
LEMMA LoadsKept ==
  ASSUME Frame, NEW u \in {0, K}, NEW img, Loads(u, img),
         \A i \in 0 .. AppBase - 1 : u + i \in Unit \ Touched
  PROVE  Loads(u, img)'
  BY DEF Loads, Frame

LEMMA LoaderKept ==
  ASSUME Frame, NEW u \in {0, K}, LoaderAt(u),
         \A i \in 0 .. AppBase - 1 : u + i \in Unit \ Touched
  PROVE  LoaderAt(u)'
  BY LoadsKept DEF LoaderAt

\* In the zone of the loader, the area that compares equal to the file holds its
\* loader.
LEMMA SameLoads ==
  ASSUME Shape, zone = "uboot", file.len > AppBase, NEW u \in {0, K}, Same(u)
  PROVE  Loads(u, file)
  <1>1. file.len \in Nat /\ u \in Nat /\ 0 + u = u
    BY Numbers DEF Shape, TypeOK, NoFile
  <1>2. ASSUME NEW i \in 0 .. AppBase - 1 PROVE flash[u + i] = file.unit[i]
    <2>1. i \in 0 .. K - 1 /\ i \in Nat /\ i < AppBase /\ u + i \in Unit /\ i < file.len
      BY <1>1, Numbers, UnitNumbers
    <2>2. 0 + u + i = u + i
      BY ONLY <1>1, <2>1
    <2>3. i \in AreaUnits(u)
      BY <2>1, <2>2 DEF AreaUnits, ZoneBase
    <2>4. flash[0 + u + i] = FileUnit(i)
      BY <2>3 DEF Same, ZoneBase
    <2> QED BY <2>1, <2>2, <2>4 DEF FileUnit
  <1> QED BY <1>2 DEF Loads

\* In the application zone, a comparison that finds nothing different has found the
\* file.
LEMMA NothingDiffers ==
  ASSUME Shape, zone = "app", base = AppBase, pc \in AppPhases, {} \in Differing
  PROVE  ZoneHolds(file)
  <1> SUFFICES ASSUME NEW u \in AppBase .. file.len - 1 PROVE flash[u] = file.unit[u]
    BY DEF ZoneHolds
  <1>1. file.len \in 0 .. N /\ AppBase \in Nat
    BY Numbers DEF Shape, TypeOK, NoFile
  <1>2. PICK b \in Int : b = u - AppBase
    BY <1>1
  <1>3. u \in Nat /\ u < file.len /\ u \in Unit
    BY <1>1, Numbers, UnitNumbers
  <1>4. b \in 0 .. file.len - AppBase - 1 /\ AppBase + b = u
    BY <1>1, <1>2, <1>3
  <1>5. b \in {0} \cup BodyUnits
    BY <1>1, <1>4 DEF BodyUnits
  <1>6. ~(flash[ZoneBase(zone) + b] # file.unit[base + b])
    BY <1>3, <1>4, <1>5 DEF Differing, ZoneBase
  <1> QED BY <1>4, <1>6 DEF ZoneBase

----------------------------------------------------------------------------
(* The zone of the device *)

LEMMA InitTurned == Init => Turned
  BY DEF Init, Turned, AppPhases

LEMMA StepTurned ==
  ASSUME Shape, Turned, [Next]_vars
  PROVE  Turned'
  <1> USE DEF Go, Keep, Turned, UbootPhases, AppPhases, FirstPhases
  <1>1. held \in BOOLEAN /\ misled \in BOOLEAN
    BY DEF Shape, TypeOK
  <1>2. CASE Device
    BY <1>2 DEF Device, PowerOn, Boot, EnterLoop, EnterUpdate, CheckSuccess, Wipe, CopyUnit, CopyTo, tool
  <1>3. CASE StartSession
    BY <1>3 DEF StartSession, dev
  <1>4. CASE Prepared
    BY <1>1, <1>4 DEF Prepared, InitAnswered
  <1>5. CASE FileTooShort
    BY <1>5 DEF FileTooShort, InitAnswered, End
  <1>6. CASE UbootChosen
    BY <1>6 DEF UbootChosen
  <1>7. CASE AppMarked \/ FirstHeadWritten \/ BackupVerified \/ FirstVerified
    BY <1>7 DEF AppMarked, FirstHeadWritten, BackupVerified, FirstVerified, Succeeds, Asks, Heard, dev
  <1>8. CASE BackupErased \/ BackupWritten \/ FirstErased \/ FirstWritten
    BY <1>8 DEF BackupErased, BackupWritten, FirstErased, FirstWritten, Through, Succeeds, Heard, dev
  <1>9. CASE FirstHeadUnknown \/ FirstWriteFails
    BY <1>9 DEF FirstHeadUnknown, FirstWriteFails, Fails, Heard, dev
  <1>10. CASE LoaderMismatch \/ Mismatch \/ CommandFails
    BY <1>10 DEF LoaderMismatch, Mismatch, CommandFails, Close, End, dev
  <1>11. CASE BackToApp
    BY <1>11 DEF BackToApp
  <1>12. CASE Fetched
    BY <1>12 DEF Fetched, Asks, Heard, dev
  <1>13. CASE HeadErased \/ UnitErased \/ UnitWritten \/ HeadWritten \/ Verified
    BY <1>13 DEF HeadErased, UnitErased, UnitWritten, HeadWritten, Verified, NextDirty, Succeeds, Asks, Heard, dev
  <1>14. CASE Reboot
    BY <1>14 DEF Reboot, End
  <1>15. CASE NoAnswer
    BY <1>15 DEF NoAnswer, Close, End, dev
  <1>16. CASE GiveUp
    BY <1>16 DEF GiveUp, End, dev
  <1>17. CASE WipeFails \/ CopyFails
    BY <1>17 DEF WipeFails, CopyFails, CopyTo, EnterLoop, tool
  <1>18. CASE PowerCut
    BY <1>18 DEF PowerCut
  <1>19. CASE LeaveAlone \/ UNCHANGED vars
    BY <1>19 DEF LeaveAlone, vars, dev, tool
  <1> QED
    BY <1>2, <1>3, <1>4, <1>5, <1>6, <1>7, <1>8, <1>9, <1>10, <1>11, <1>12, <1>13, <1>14,
       <1>15, <1>16, <1>17, <1>18, <1>19 DEF Next, Tool, Fault
----------------------------------------------------------------------------
(* Where the steps come from *)

\* The tool comes to the first area by the comparison of the backup.
LEMMA IntoFirst ==
  ASSUME Turned, [Next]_vars, pc' \in FirstPhases, zone' = "uboot", ~misled'
  PROVE  \/ pc \in FirstPhases /\ file' = file /\ zone = "uboot" /\ ~misled
         \/ BackupVerified
  <1> USE DEF FirstPhases, Go, Keep, Turned
  <1>1. CASE Device
    BY <1>1 DEF Device, PowerOn, Boot, EnterLoop, EnterUpdate, CheckSuccess, Wipe, CopyUnit,
                CopyTo, tool
  <1>2. CASE \/ StartSession \/ Prepared \/ FileTooShort \/ UbootChosen \/ LoaderMismatch
             \/ BackToApp \/ Fetched \/ Mismatch \/ Reboot
    BY <1>2
       DEF StartSession, Prepared, FileTooShort, UbootChosen, LoaderMismatch, BackToApp,
           Fetched, Mismatch, Reboot, Close, End
  <1>3. CASE \/ AppMarked \/ BackupErased \/ BackupWritten \/ FirstErased \/ FirstWritten
             \/ FirstHeadWritten \/ FirstHeadUnknown \/ FirstVerified \/ NoAnswer
    BY <1>3
       DEF AppMarked, BackupErased, BackupWritten, FirstErased, FirstWritten,
           FirstHeadWritten, FirstHeadUnknown, FirstVerified, NoAnswer, Close, End,
           Through, Succeeds, Asks, Heard, dev
  <1>4. CASE HeadErased \/ UnitErased \/ UnitWritten \/ HeadWritten \/ Verified
    BY <1>4 DEF HeadErased, UnitErased, UnitWritten, HeadWritten, Verified, NextDirty
  <1>5. CASE Fault
    BY <1>5
       DEF Fault, WipeFails, CopyFails, CopyTo, EnterLoop, FirstWriteFails, CommandFails,
           GiveUp, PowerCut, Fails, Heard, Close, End, tool, dev
  <1>6. CASE LeaveAlone \/ UNCHANGED vars
    BY <1>6 DEF LeaveAlone, vars, tool, dev
  <1> QED BY <1>1, <1>2, <1>3, <1>4, <1>5, <1>6 DEF Next, Tool

\* With the zone of the loader chosen, it leaves the first area by its comparison.
LEMMA IntoApp ==
  ASSUME Turned, [Next]_vars, held', ~misled', pc' \in AppPhases \cup {"initAgain"}
  PROVE  \/ pc \in AppPhases \cup {"initAgain"} /\ file' = file /\ held /\ ~misled
         \/ FirstVerified /\ held
  <1> USE DEF AppPhases, Go, Keep
  <1>1. CASE Device
    BY <1>1 DEF Device, PowerOn, EnterUpdate, CheckSuccess, Wipe, CopyUnit, CopyTo, tool
  <1>2. CASE \/ StartSession \/ FileTooShort \/ UbootChosen \/ LoaderMismatch
             \/ Mismatch \/ Reboot
    BY <1>2
       DEF StartSession, FileTooShort, UbootChosen, LoaderMismatch, Mismatch, Reboot,
           Close, End
  <1>3. CASE Prepared
    BY <1>3 DEF Prepared, Turned, UbootPhases, FirstPhases
  <1>4. CASE \/ AppMarked \/ BackupErased \/ BackupWritten \/ BackupVerified
             \/ FirstErased \/ FirstWritten \/ FirstHeadWritten \/ FirstHeadUnknown
             \/ FirstVerified \/ BackToApp \/ NoAnswer
    BY <1>4
       DEF AppMarked, BackupErased, BackupWritten, BackupVerified, FirstErased,
           FirstWritten, FirstHeadWritten, FirstHeadUnknown, FirstVerified, BackToApp,
           NoAnswer, Close, End, Through, Succeeds, Asks, Heard
  <1>5. CASE Fetched \/ HeadErased \/ UnitErased \/ UnitWritten \/ HeadWritten \/ Verified
    BY <1>5
       DEF Fetched, HeadErased, UnitErased, UnitWritten, HeadWritten, Verified, NextDirty,
           Succeeds, Asks, Heard
  <1>6. CASE Fault
    BY <1>6
       DEF Fault, WipeFails, CopyFails, CopyTo, FirstWriteFails, CommandFails,
           GiveUp, PowerCut, Close, End, tool
  <1>7. CASE LeaveAlone \/ UNCHANGED vars
    BY <1>7 DEF LeaveAlone, vars, tool
  <1> QED BY <1>1, <1>2, <1>3, <1>4, <1>5, <1>6, <1>7 DEF Next, Tool

\* It comes to the reboot by a comparison of the application.
LEMMA IntoReboot ==
  ASSUME [Next]_vars, pc' = "reboot", ~misled'
  PROVE  \/ pc = "reboot" /\ file' = file /\ ~misled
         \/ Fetched /\ dirty' = {}
         \/ Verified
  <1> USE DEF Go, Keep
  <1>1. CASE Device
    BY <1>1 DEF Device, PowerOn, EnterUpdate, CheckSuccess, Wipe, CopyUnit, CopyTo, tool
  <1>2. CASE \/ StartSession \/ Prepared \/ FileTooShort \/ UbootChosen \/ LoaderMismatch
             \/ BackToApp \/ Fetched \/ Mismatch \/ Reboot
    BY <1>2
       DEF StartSession, Prepared, FileTooShort, UbootChosen, LoaderMismatch, BackToApp,
           Fetched, Mismatch, Reboot, Close, End
  <1>3. CASE \/ AppMarked \/ BackupErased \/ BackupWritten \/ BackupVerified \/ FirstErased
             \/ FirstWritten \/ FirstHeadWritten \/ FirstHeadUnknown \/ FirstVerified
             \/ NoAnswer
    BY <1>3
       DEF AppMarked, BackupErased, BackupWritten, BackupVerified, FirstErased,
           FirstWritten, FirstHeadWritten, FirstHeadUnknown, FirstVerified, NoAnswer,
           Close, End, Through
  <1>4. CASE HeadErased \/ UnitErased \/ UnitWritten \/ HeadWritten
    BY <1>4 DEF HeadErased, UnitErased, UnitWritten, HeadWritten, NextDirty
  <1>5. CASE Fault
    BY <1>5
       DEF Fault, WipeFails, CopyFails, CopyTo, FirstWriteFails, CommandFails,
           GiveUp, PowerCut, Close, End, tool
  <1>6. CASE LeaveAlone \/ UNCHANGED vars
    BY <1>6 DEF LeaveAlone, vars, tool
  <1> QED BY <1>1, <1>2, <1>3, <1>4, <1>5, <1>6 DEF Next, Tool

\* The steps of the tool and its faults leave the mode of the device, but for the
\* reboot and the power.
LEMMA ModeStays ==
  ASSUME Tool \/ Fault
  PROVE  \/ UNCHANGED <<mode, nvram>>
         \/ Reboot
         \/ WipeFails \/ CopyFails
         \/ mode' = "off" /\ nvram' = "none"
  <1>1. CASE \/ StartSession \/ Prepared \/ FileTooShort \/ UbootChosen \/ LoaderMismatch
             \/ BackToApp \/ Fetched \/ Mismatch
    BY <1>1
       DEF StartSession, Prepared, FileTooShort, InitAnswered, UbootChosen, LoaderMismatch,
           BackToApp, Fetched, Mismatch, Close, Asks, Heard, dev
  <1>2. CASE \/ AppMarked \/ BackupErased \/ BackupWritten \/ BackupVerified \/ FirstErased
             \/ FirstWritten \/ FirstHeadWritten \/ FirstHeadUnknown \/ FirstVerified
             \/ NoAnswer
    BY <1>2
       DEF AppMarked, BackupErased, BackupWritten, BackupVerified, FirstErased,
           FirstWritten, FirstHeadWritten, FirstHeadUnknown, FirstVerified, NoAnswer,
           Close, Through, Succeeds, Asks, Heard, dev
  <1>3. CASE HeadErased \/ UnitErased \/ UnitWritten \/ HeadWritten \/ Verified
    BY <1>3
       DEF HeadErased, UnitErased, UnitWritten, HeadWritten, Verified, Succeeds, Asks,
           Heard, dev
  <1>4. CASE FirstWriteFails \/ CommandFails \/ GiveUp \/ PowerCut
    BY <1>4
       DEF FirstWriteFails, CommandFails, GiveUp, PowerCut, Fails, Heard, Close, dev
  <1> QED BY <1>1, <1>2, <1>3, <1>4 DEF Tool, Fault

\* user_check_upgrade is entered from a complete backup.
LEMMA IntoRepair ==
  ASSUME [Next]_vars, mode' \in {"wipe", "copy"}, mode \notin {"wipe", "copy"}
  PROVE  flash' = flash /\ LoaderAt(K)
  <1>1. CASE PowerOn
    <2>1. PICK u \in RomChoice : LoaderAt(u) /\ Boot(u) /\ flash' = flash
      BY <1>1 DEF PowerOn
    <2>2. u = K
      BY <2>1 DEF Boot, EnterLoop
    <2> QED BY <2>1, <2>2
  <1>2. CASE EnterUpdate \/ CheckSuccess \/ Wipe \/ CopyUnit
    BY <1>2 DEF EnterUpdate, CheckSuccess, Wipe, CopyUnit, CopyTo
  <1>3. CASE Tool \/ Fault
    BY <1>3, ModeStays DEF Reboot, WipeFails, CopyFails, CopyTo
  <1>4. CASE LeaveAlone \/ UNCHANGED vars
    BY <1>4 DEF LeaveAlone, vars, dev
  <1> QED BY <1>1, <1>2, <1>3, <1>4 DEF Next, Device

\* Only the answers to the first INIT can mislead a session.
LEMMA MisledStays ==
  ASSUME Tool \/ Fault, ~Prepared
  PROVE  misled' = misled
  <1>1. CASE Tool
    BY <1>1
       DEF Tool, StartSession, FileTooShort, UbootChosen, AppMarked, BackupErased,
           BackupWritten, BackupVerified, FirstErased, FirstWritten, FirstHeadWritten,
           FirstHeadUnknown, FirstVerified, LoaderMismatch, BackToApp, Fetched, HeadErased,
           UnitErased, UnitWritten, HeadWritten, Verified, Mismatch, Reboot, NoAnswer,
           Through, Succeeds, Asks, Heard, Listening, Close, End
  <1>2. CASE Fault
    BY <1>2
       DEF Fault, WipeFails, CopyFails, CopyTo, FirstWriteFails, CommandFails, GiveUp,
           PowerCut, Fails, Heard, Close, End, tool
  <1> QED BY <1>1, <1>2

Telling == {"off", "app", "wipe", "copy"}

\* The success magic appears at the reboot.  After that only user_check_upgrade changes
\* the flash before a loop is entered, and no session gets past INIT.
LEMMA IntoTold ==
  ASSUME Shape, [Next]_vars, nvram' = "succ", mode' \in Telling, ~misled'
  PROVE  \/ Reboot /\ ~misled
         \/ nvram = "succ" /\ mode \in Telling /\ ~misled
  <1> USE DEF Telling
  <1>1. CASE Device
    BY <1>1
       DEF Device, PowerOn, Boot, EnterLoop, EnterUpdate, CheckSuccess, Wipe, CopyUnit,
           CopyTo, tool
  <1>2. CASE Tool \/ Fault
    <2>1. CASE UNCHANGED <<mode, nvram>>
      <3>1. CASE Prepared
        BY <2>1, <3>1 DEF Prepared, InitAnswered
      <3>2. CASE ~Prepared
        BY <1>2, <2>1, <3>2, MisledStays
      <3> QED BY <3>1, <3>2
    <2>2. CASE Reboot
      BY <2>2 DEF Reboot, End
    <2>3. CASE WipeFails \/ CopyFails
      BY <2>3 DEF WipeFails, CopyFails, CopyTo, tool
    <2> QED BY <1>2, <2>1, <2>2, <2>3, ModeStays
  <1>3. CASE LeaveAlone \/ UNCHANGED vars
    BY <1>3 DEF LeaveAlone, vars, dev, tool
  <1> QED BY <1>1, <1>2, <1>3 DEF Next

----------------------------------------------------------------------------
(* The steps *)

LEMMA StepBackupGood ==
  ASSUME Shape, Turned, AppBase < K, BackupGood, [Next]_vars
  PROVE  BackupGood'
  <1> SUFFICES ASSUME ~misled', zone' = "uboot", pc' \in FirstPhases
               PROVE  Loads(K, file)'
    BY DEF BackupGood
  <1>1. CASE pc \in FirstPhases /\ file' = file /\ zone = "uboot" /\ ~misled
    <2>1. Loads(K, file) /\ Frame
      BY <1>1, StepFrame DEF BackupGood
    <2>2. \A i \in 0 .. AppBase - 1 : K + i \in Unit \ Touched
      BY <1>1, BackupUntouched DEF Turned
    <2> QED BY <1>1, <2>1, <2>2 DEF Loads, Frame
  <1>2. CASE BackupVerified
    <2>1. Same(K) /\ pc = "verifyBackup" /\ flash' = flash /\ file' = file /\ zone' = zone
          /\ misled' = misled
      BY <1>2 DEF BackupVerified, Asks, Keep, Heard, dev
    <2>2. file.len > AppBase
      BY <2>1 DEF Shape, Ranges, Turned
    <2>3. Loads(K, file)
      BY <2>1, <2>2, SameLoads
    <2> QED BY <2>1, <2>3 DEF Loads
  <1> QED BY <1>1, <1>2, IntoFirst

LEMMA StepRepairGood ==
  ASSUME Shape, AppBase < K, RepairGood, [Next]_vars
  PROVE  RepairGood'
  <1> SUFFICES ASSUME mode' \in {"wipe", "copy"} PROVE LoaderAt(K)'
    BY DEF RepairGood
  <1>1. CASE mode \in {"wipe", "copy"}
    BY <1>1, StepFrame, BackupUntouched, LoaderKept DEF RepairGood
  <1>2. CASE mode \notin {"wipe", "copy"}
    BY <1>2, IntoRepair DEF LoaderAt, Loads
  <1> QED BY <1>1, <1>2

LEMMA StepFirstGood ==
  ASSUME Shape, Turned, FirstGood, [Next]_vars
  PROVE  FirstGood'
  <1> SUFFICES ASSUME held', ~misled', pc' \in AppPhases \cup {"initAgain"}
               PROVE  Loads(0, file)'
    BY DEF FirstGood
  <1>1. CASE pc \in AppPhases \cup {"initAgain"} /\ file' = file /\ held /\ ~misled
    <2>1. Loads(0, file) /\ Frame
      BY <1>1, StepFrame DEF FirstGood
    <2>2. mode = "loop" /\ (pc \in Commanding => zone = "app")
      BY <1>1 DEF Turned, Commanding, Erasing, Writing
    <2>3. \A i \in 0 .. AppBase - 1 : i \in Unit \ Touched
      BY <2>2, FirstUntouched
    <2>4. \A i \in 0 .. AppBase - 1 : 0 + i = i
      BY Numbers
    <2> QED BY <1>1, <2>1, <2>3, <2>4 DEF Loads, Frame
  <1>2. CASE FirstVerified /\ held
    <2>1. Same(0) /\ pc = "verifyFirst" /\ flash' = flash /\ file' = file /\ misled' = misled
      BY <1>2 DEF FirstVerified, Asks, Keep, Heard
    <2>2. file.len > AppBase /\ zone = "uboot"
      BY <1>2, <2>1 DEF Shape, Ranges, Turned, UbootPhases, FirstPhases
    <2>3. Loads(0, file)
      BY <2>1, <2>2, SameLoads
    <2> QED BY <2>1, <2>3 DEF Loads
  <1> QED BY <1>1, <1>2, IntoApp

\* user_check_upgrade takes nothing of the zone away but its head.
LEMMA ZoneKept ==
  ASSUME Shape, [Next]_vars, Mountable', mode = "loop" => pc \notin Commanding
  PROVE  /\ Mountable
         /\ \A img \in Images : ZoneHolds(img) => ZoneHolds(img)'
  <1>1. Frame
    BY StepFrame
  <1>2. AppBase \in Unit /\ \A img \in Images : img.len \in 0 .. N
    BY Numbers, UnitNumbers
  <1>3. \A u \in AppBase + 1 .. N - 1 : flash'[u] = flash[u]
    <2>1. \A u \in AppBase + 1 .. N - 1 : u \in Unit \ Touched
      BY Numbers, UnitNumbers DEF Touched, Wiped, Shape, TypeOK
    <2> QED BY <1>1, <2>1 DEF Frame
  <1>4. flash'[AppBase] = flash[AppBase]
    <2>1. CASE mode = "wipe"
      BY <1>1, <2>1, CellAssumption DEF Frame, Mountable
    <2>2. CASE mode # "wipe"
      <3>1. AppBase \notin Touched
        BY <2>2, Numbers DEF Touched, Shape, TypeOK
      <3> QED BY <1>1, <1>2, <3>1 DEF Frame
    <2> QED BY <2>1, <2>2
  <1>5. ASSUME NEW img \in Images, ZoneHolds(img) PROVE ZoneHolds(img)'
    <2> SUFFICES ASSUME NEW u \in AppBase .. img.len - 1 PROVE flash'[u] = img.unit[u]
      BY DEF ZoneHolds
    <2>1. flash[u] = img.unit[u]
      BY <1>5 DEF ZoneHolds
    <2>2. u = AppBase \/ u \in AppBase + 1 .. N - 1
      BY <1>2, Numbers
    <2> QED BY <1>3, <1>4, <2>1, <2>2
  <1> QED BY <1>4, <1>5 DEF Mountable

LEMMA StepCompared ==
  ASSUME Shape, Turned, Compared, [Next]_vars
  PROVE  Compared'
  <1> SUFFICES ASSUME ~misled', pc' = "reboot", Mountable' PROVE ZoneHolds(file)'
    BY DEF Compared
  <1>1. CASE pc = "reboot" /\ file' = file /\ ~misled
    <2>1. pc \notin Commanding /\ file \in Images
      BY <1>1 DEF Shape, Ranges, Commanding, Erasing, Writing
    <2>2. Mountable /\ (ZoneHolds(file) => ZoneHolds(file)')
      <3>1. \A img \in Images : ZoneHolds(img) => \A u \in AppBase .. img.len - 1 : flash'[u] = img.unit[u]
        BY <2>1, ZoneKept DEF ZoneHolds
      <3> QED BY <1>1, <2>1, <3>1, ZoneKept DEF ZoneHolds
    <2> QED BY <1>1, <2>2 DEF Compared
  <1>2. CASE (Fetched /\ dirty' = {}) \/ Verified
    <2>1. {} \in Differing /\ flash' = flash /\ file' = file /\ pc \in {"fetch", "verify"}
          /\ ~misled
      BY <1>2 DEF Fetched, Verified, Asks, Keep, Heard
    <2>2. zone = "app" /\ base = AppBase
      BY <2>1 DEF Turned, AppPhases
    <2>3. ZoneHolds(file)
      BY <2>1, <2>2, NothingDiffers DEF AppPhases
    <2> QED BY <2>1, <2>3 DEF ZoneHolds
  <1> QED BY <1>1, <1>2, IntoReboot

LEMMA StepTold ==
  ASSUME Shape, Turned, Compared, Told, [Next]_vars
  PROVE  Told'
  <1> SUFFICES ASSUME ~misled', nvram' = "succ", mode' \in Telling, Mountable'
               PROVE  AppComplete'
    BY DEF Told, Telling
  <1>1. CASE Reboot /\ ~misled
    <2>1. flash' = flash /\ Mountable /\ pc = "reboot"
      BY <1>1 DEF Reboot, Mountable
    <2>2. file \in Images /\ file.len > AppBase /\ ZoneHolds(file)
      <3>1. file \in Images /\ file.len > base /\ ZoneHolds(file)
        BY <1>1, <2>1 DEF Compared, Shape, Ranges
      <3>2. base = AppBase
        BY <1>1, <2>1 DEF Turned
      <3> QED BY <3>1, <3>2
    <2> QED BY <2>1, <2>2 DEF AppComplete, ZoneHolds
  <1>2. CASE nvram = "succ" /\ mode \in Telling /\ ~misled
    <2>1. mode # "loop"
      BY <1>2 DEF Telling
    <2>2. Mountable /\ \A img \in Images : ZoneHolds(img) => ZoneHolds(img)'
      BY <2>1, ZoneKept
    <2>3. PICK img \in Images : img.len > AppBase /\ ZoneHolds(img)
      BY <1>2, <2>2 DEF Told, Telling, AppComplete, ZoneHolds
    <2> QED BY <2>2, <2>3 DEF AppComplete, ZoneHolds
  <1> QED BY <1>1, <1>2, IntoTold

\* The application is started only where it mounts.
LEMMA AppMounts ==
  ASSUME Shape, [Next]_vars, mode = "app" => Mountable
  PROVE  mode' = "app" => Mountable'
  <1> SUFFICES ASSUME mode' = "app" PROVE Mountable'
    OBVIOUS
  <1>1. CASE mode = "app"
    <2>1. flash'[AppBase] = flash[AppBase]
      BY <1>1, StepFrame, Numbers, UnitNumbers DEF Frame, Touched
    <2> QED BY <1>1, <2>1 DEF Mountable
  <1>2. CASE mode # "app"
    <2>1. CASE PowerOn
      BY <1>2, <2>1 DEF PowerOn, Boot, EnterLoop, Mountable
    <2>2. CASE CopyUnit \/ CopyFails
      <3>1. Mountable /\ mode = "copy"
        BY <2>2 DEF CopyUnit, CopyFails, CopyTo, EnterLoop
      <3>2. AppBase # pos /\ AppBase \in Unit
        BY Numbers, UnitNumbers DEF Shape, TypeOK
      <3>3. flash'[AppBase] = flash[AppBase]
        BY <3>1, <3>2, StepFrame DEF Frame, Touched
      <3> QED BY <3>1, <3>3 DEF Mountable
    <2>3. CASE EnterUpdate \/ CheckSuccess \/ Wipe \/ WipeFails \/ Reboot
      BY <1>2, <2>3 DEF EnterUpdate, CheckSuccess, Wipe, WipeFails, Reboot
    <2>4. CASE LeaveAlone \/ UNCHANGED vars
      BY <1>2, <2>4 DEF LeaveAlone, vars, dev
    <2> QED BY <1>2, <2>1, <2>2, <2>3, <2>4, ModeStays DEF Next, Device
  <1> QED BY <1>1, <1>2

\* A step that takes the loader in the first area away is one of user_check_upgrade,
\* or a command of a session for that area or of one that is misled.
LEMMA StepNeedsBackup ==
  ASSUME Shape, Turned, BackupGood, RepairGood, [Next]_vars, LoaderAt(0), ~LoaderAt(0)'
  PROVE  LoaderAt(K) \/ (misled /\ pc \notin {"idle", "init"})
  <1>1. CASE mode \in {"wipe", "copy"}
    BY <1>1 DEF RepairGood
  <1>2. CASE ~misled /\ zone = "uboot" /\ pc \in FirstPhases
    <2>1. file \in Images
      BY <1>2 DEF Shape, Ranges, FirstPhases
    <2> QED BY <1>2, <2>1 DEF BackupGood, LoaderAt
  <1>3. CASE mode \notin {"wipe", "copy"} /\ (mode = "loop" /\ pc \in Commanding =>
               \/ zone = "app"
               \/ base = AppBase /\ pc \in {"mark", "eraseBackup", "writeBackup"})
    <2>1. \A i \in 0 .. AppBase - 1 : 0 + i \in Unit \ Touched
      <3>1. \A i \in 0 .. AppBase - 1 : i \in Unit \ Touched
        BY <1>3, FirstUntouched
      <3>2. \A i \in 0 .. AppBase - 1 : 0 + i = i
        BY Numbers
      <3> QED BY <3>1, <3>2
    <2> QED BY <2>1, LoaderKept, StepFrame
  <1>4. CASE misled /\ pc \in Commanding
    BY <1>4 DEF Commanding, Erasing, Writing
  <1>5. pc \in Commanding
          => pc \in {"mark", "eraseBackup", "writeBackup"} \cup FirstPhases \cup AppPhases
    BY DEF Commanding, Erasing, Writing, FirstPhases, AppPhases
  <1>6. ~misled => base = AppBase /\ (pc \in AppPhases => zone = "app")
    BY DEF Turned
  <1>7. zone \in {"app", "uboot"}
    BY DEF Shape, TypeOK, Zones
  <1> QED BY <1>1, <1>2, <1>3, <1>4, <1>5, <1>6, <1>7

----------------------------------------------------------------------------
(* Theorems *)

\* Whatever fails, lies, is late or is cut, every variable of UbootUpdate has its type,
\* and the loops of updatethread.cpp 378-405 stay within their area.
THEOREM UbootTypeCorrect == Spec => []TypeOK
  <1>1. Init => Shape
    BY InitShape
  <1>2. Shape /\ [Next]_vars => Shape'
    BY StepShape
  <1>3. Shape => TypeOK
    BY DEF Shape
  <1> QED BY <1>1, <1>2, <1>3, PTL DEF Spec

\* The ranges of the loops, what can be late where (Shape), and the zone the device is
\* in and the tool takes it to be in (Turned: user.c 290 and 506).
THEOREM ShapeHolds == Spec => [](Shape /\ Turned)
  <1> QED BY InitShape, StepShape, InitTurned, StepTurned, PTL DEF Spec

\* The tool turns to the application only with its loader in the first area, also
\* after the failed or unanswered write of updatethread.cpp 405 that does not stop it.
THEOREM LoaderComesFirst == Spec => []NewLoaderFirst
  <1>1. Init => FirstGood
    BY DEF Init, FirstGood
  <1>2. (Shape /\ Turned) /\ FirstGood /\ [Next]_vars => FirstGood'
    BY StepFirstGood
  <1>3. FirstGood => NewLoaderFirst
    BY DEF FirstGood, NewLoaderFirst, AppPhases
  <1> QED BY <1>1, <1>2, <1>3, ShapeHolds, PTL DEF Spec

\* An application that finds the success magic of user.c 448 is complete.
THEOREM MagicIsTrue == Spec => []SuccessIsTrue
  <1> DEFINE Mounted == mode = "app" => Mountable
  <1>1. Init => Compared /\ Told /\ Mounted
    BY DEF Init, Compared, Told
  <1>2. (Shape /\ Turned) /\ Compared /\ Told /\ Mounted /\ [Next]_vars
          => Compared' /\ Told' /\ Mounted'
    BY StepCompared, StepTold, AppMounts
  <1>3. Told /\ Mounted => SuccessIsTrue
    BY DEF Told, SuccessIsTrue
  <1> QED BY <1>1, <1>2, <1>3, ShapeHolds, PTL DEF Spec

\* Where the application begins before the backup does, the loader in the first area
\* (updatethread.cpp 399-414, user.c 486-503) is given up only with a complete one at
\* 64 KB, or by a session that took a late answer for that to its first INIT.
THEOREM BackupProtects ==
  ASSUME AppBase < K
  PROVE  Spec => FirstNeedsBackup
  <1>1. Init => BackupGood /\ RepairGood
    BY DEF Init, BackupGood, RepairGood, FirstPhases
  <1>2. (Shape /\ Turned) /\ BackupGood /\ RepairGood /\ [Next]_vars
          => BackupGood' /\ RepairGood'
    BY StepBackupGood, StepRepairGood
  <1>3. (Shape /\ Turned) /\ BackupGood /\ RepairGood /\ [Next]_vars
          => [LoaderAt(0) /\ ~LoaderAt(0)'
                => LoaderAt(K) \/ (misled /\ pc \notin {"idle", "init"})]_vars
    BY StepNeedsBackup
  <1> QED BY <1>1, <1>2, <1>3, ShapeHolds, PTL DEF Spec, FirstNeedsBackup
============================================================================
