--------------------------- MODULE HidWriteProofs ---------------------------
(***************************************************************************)
(* What the writes of a session do to the zone, for every value of the     *)
(* constants with SilentFaults = FALSE.  What guards the body needs no     *)
(* more; what a write finds and leaves needs answers in time too           *)
(* (SlowReplies = FALSE), and BootsComplete the order of the head.         *)
(***************************************************************************)
EXTENDS HidLockstepProofs

Writing == {"eraseHead", "erase", "write", "writeHead"}

\* The unit before its chunk k is asked for
FilledUpTo(u, k) ==
  /\ \A j \in 1 .. k - 1 : zone[u][ChunkOf(u, j)] = file.unit[u][ChunkOf(u, j)]
  /\ \A j \in k .. Chunks : zone[u][ChunkOf(u, j)] = Erased

\* Every chunk has one place in the order in which a unit is written.
LEMMA ChunkOrder ==
  ASSUME NEW u
  PROVE  /\ \A j \in Chunk : ChunkOf(u, j) \in Chunk
         /\ \A j, k \in Chunk : ChunkOf(u, j) = ChunkOf(u, k) => j = k
         /\ \A c \in Chunk : \E j \in Chunk : ChunkOf(u, j) = c
  <1>1. \A j \in Chunk : HeadOrder[j] \in Chunk
    BY OrderAssumption
  <1>2. \A j, k \in Chunk : HeadOrder[j] = HeadOrder[k] => j = k
    <2> SUFFICES ASSUME NEW j \in Chunk, NEW k \in Chunk, HeadOrder[j] = HeadOrder[k]
                 PROVE  j = k
      OBVIOUS
    <2>1. PICK i \in Chunk : \A m \in Chunk : HeadOrder[m] = HeadOrder[j] <=> m = i
      BY <1>1, OrderAssumption
    <2> QED BY <2>1
  <1>3. \A c \in Chunk : \E j \in Chunk : HeadOrder[j] = c
    BY OrderAssumption
  <1> QED BY <1>1, <1>2, <1>3 DEF ChunkOf, HeadChunk

\* Who is not alone, or not writing, claims nothing.
LEMMA NotWriting ==
  ASSUME Lockstep', ~Alone' \/ pc' \notin Writing PROVE Honest'
  <1>1. link' /\ pc' \in {"erase", "write", "writeHead"} => Alone'
    BY DEF Lockstep, Counted, Alone
  <1>2. Erasures'
    BY <1>1 DEF Erasures, Writing, Alone
  <1>3. Writes' /\ Settled'
    BY <1>1 DEF Writes, Settled, Writing
  <1> QED BY <1>2, <1>3 DEF Honest

\* A command of whoever is alone and writing, executed by honest flash
LEMMA OwnExecution ==
  ASSUME ~SilentFaults, Shape, Lockstep, pc \in Writing, Alone',
         DeviceInit \/ FlashCrc \/ Mutate \/ MutateFails \/ MutateLies
  PROVE  /\ Alone /\ pc' = pc /\ unit' = unit /\ chunk' = chunk /\ file' = file
         /\ reports = <<>> /\ reports' # <<>> /\ unit \in Block
         /\ Cmd = Request(pc, unit, chunk)
         /\ \/ Believed' /\ zone' = [zone EXCEPT ![unit] = After]
            \/ ~Believed' /\ \E w \in {zone[unit], Halfway} : zone' = [zone EXCEPT ![unit] = w]
  <1>1. out # <<>>
    BY Executions
  <1>2. PICK ok, list : Answer(ok, list)
    BY Executions
  <1>3. /\ Alone /\ pc' = pc /\ unit' = unit /\ chunk' = chunk /\ file' = file
        /\ reports = <<>> /\ reports' # <<>>
    BY <1>1, <1>2, ExecutedAlone
  <1>4. Cmd = Request(pc, unit, chunk)
    BY <1>1, <1>3, AloneOut DEF Writing, Steady
  <1>5. Cmd.unit = unit /\ Cmd.op \in Mutating
    BY <1>4, Opcodes DEF Request, Writing, Mutating
  <1>6. Mutate \/ MutateFails
    BY <1>5 DEF DeviceInit, FlashCrc, MutateLies, Executes, Cmd, Mutating
  <1>7. CASE Mutate
    <2>1. Answer(TRUE, <<>>) /\ zone' = [zone EXCEPT ![unit] = After]
      BY <1>5, <1>7 DEF Mutate, Becomes
    <2>2. reports'[1] = [op |-> out[1].op, ok |-> TRUE, list |-> <<>>]
      BY <1>1, <2>1, ExecutedAlone
    <2>3. Believed'
      BY <1>3, <2>2 DEF Believed
    <2> QED BY <1>3, <1>4, <2>1, <2>3 DEF Shape, Typed
  <1>8. CASE MutateFails
    <2>1. Answer(FALSE, <<>>) /\ \E w \in {zone[unit], Halfway} : zone' = [zone EXCEPT ![unit] = w]
      BY <1>5, <1>8 DEF MutateFails, Becomes
    <2>2. reports'[1] = [op |-> out[1].op, ok |-> FALSE, list |-> <<>>]
      BY <1>1, <2>1, ExecutedAlone
    <2>3. ~Believed'
      BY <2>2 DEF Believed
    <2> QED BY <1>3, <1>4, <2>1, <2>3 DEF Shape, Typed
  <1> QED BY <1>6, <1>7, <1>8

\* Units other than the one that is written keep what is claimed of them.
LEMMA ExecutedSettled ==
  ASSUME Shape, Honest, Alone, pc \in Writing, pc' = pc, unit' = unit, file' = file,
         \A b \in Block : b # unit => zone'[b] = zone[b]
  PROVE  /\ Settled'
         /\ pc \in {"erase", "write"} => zone'[0] = Blank
  <1>1. link /\ Units' = Units /\ Units \subseteq Block /\ \A b \in Block : b \in Nat
    BY Numbers DEF Alone, Units, Shape, Typed, Block, NoFile
  <1>2. pc \in {"erase", "write"} => unit # 0 /\ unit \in Nat
    BY Numbers DEF Shape, Typed, Ranges
  <1>3. pc = "writeHead" => unit = 0
    BY DEF Shape, Ranges
  <1>4. pc \in {"erase", "write"} => zone'[0] = Blank
    BY <1>1, <1>2, Numbers DEF Honest, Erasures
  <1>5. Settled'
    BY <1>1, <1>2, <1>3 DEF Honest, Settled, Same
  <1> QED BY <1>4, <1>5

LEMMA ExecutedHonest ==
  ASSUME ~SilentFaults, Shape, Lockstep, Lockstep', Honest,
         DeviceInit \/ FlashCrc \/ Mutate \/ MutateFails \/ MutateLies
  PROVE  Honest'
  <1>1. pc' = pc
    <2>1. PICK ok, list : Answer(ok, list)
      BY Executions
    <2> QED BY <2>1 DEF Answer, tool
  <1>2. SUFFICES ASSUME Alone', pc \in Writing PROVE Honest'
    BY <1>1, NotWriting
  <1>3. /\ Alone /\ unit' = unit /\ chunk' = chunk /\ file' = file
        /\ reports = <<>> /\ reports' # <<>> /\ unit \in Block /\ link'
        /\ Cmd = Request(pc, unit, chunk)
    BY <1>2, OwnExecution DEF Alone
  <1>4. \/ Believed' /\ zone' = [zone EXCEPT ![unit] = After]
        \/ ~Believed' /\ \E w \in {zone[unit], Halfway} : zone' = [zone EXCEPT ![unit] = w]
    BY <1>2, OwnExecution
  <1>5. zone \in [Block -> UnitData]
    BY DEF Shape, Typed
  <1>6. \A b \in Block : b # unit => zone'[b] = zone[b]
    BY <1>3, <1>4, <1>5
  <1>7. Settled' /\ (pc \in {"erase", "write"} => zone'[0] = Blank)
    BY <1>1, <1>2, <1>3, <1>6, ExecutedSettled
  <1>8. CASE pc \in {"eraseHead", "erase"}
    <2>1. After = Blank
      BY <1>3, <1>8, Opcodes DEF After, Request
    <2>2. Believed' => zone'[unit] = Blank
      BY <1>3, <1>4, <1>5, <2>1
    <2>3. pc = "eraseHead" => unit = 0
      BY DEF Shape, Ranges
    <2>4. Erasures'
      BY <1>1, <1>3, <1>7, <1>8, <2>2, <2>3 DEF Erasures
    <2>5. Writes'
      BY <1>1, <1>8 DEF Writes
    <2> QED BY <1>7, <2>4, <2>5 DEF Honest
  <1>9. CASE pc \in {"write", "writeHead"}
    <2> DEFINE c == ChunkOf(unit, chunk)
    <2>1. chunk \in Chunk /\ chunk \in Nat /\ c \in Chunk
      BY <1>9, ChunkOrder, Numbers DEF Shape, Ranges, Chunk
    <2>2. Cmd.op = "WRITE" /\ Cmd.unit = unit /\ Cmd.chunk = c /\ Cmd.data = file.unit[unit][c]
      BY <1>3, <1>9, Opcodes DEF Request
    <2>3. Filled(unit, chunk)
      BY <1>3, <1>9 DEF Honest, Writes, Alone
    <2>4. zone[unit] \in UnitData /\ zone[unit][c] = Erased
      BY <1>3, <1>5, <2>3 DEF Filled
    <2>5. After = [zone[unit] EXCEPT ![c] = file.unit[unit][c]]
      BY <2>2, <2>4 DEF After, Programmed
    <2>6. Halfway = [zone[unit] EXCEPT ![c] = Torn]
      BY <2>2 DEF Halfway
    <2>7. \A d \in Chunk : d # c => zone'[unit][d] = zone[unit][d]
      BY <1>3, <1>4, <1>5, <2>1, <2>4, <2>5, <2>6 DEF UnitData
    <2>8. Believed' => zone'[unit][c] = file.unit[unit][c]
      BY <1>3, <1>4, <1>5, <2>1, <2>4, <2>5 DEF UnitData
    <2>9. \A j \in Chunk : j # chunk => ChunkOf(unit, j) # c /\ ChunkOf(unit, j) \in Chunk
      BY <2>1, ChunkOrder
    <2>10. \A j \in 1 .. chunk - 1 : j \in Chunk /\ j # chunk
      BY <2>1, Numbers DEF Chunk
    <2>11. \A j \in chunk + 1 .. Chunks : j \in Chunk /\ j # chunk
      BY <2>1, Numbers DEF Chunk
    <2> HIDE DEF c
    <2>12. \A j \in Chunk : j # chunk => zone'[unit][ChunkOf(unit, j)] = zone[unit][ChunkOf(unit, j)]
      BY <2>7, <2>9
    <2>13. \A j \in 1 .. chunk - 1 : zone'[unit][ChunkOf(unit, j)] = file.unit[unit][ChunkOf(unit, j)]
      BY <2>3, <2>10, <2>12 DEF Filled
    <2>14. \A j \in chunk + 1 .. Chunks : zone'[unit][ChunkOf(unit, j)] = Erased
      BY <2>3, <2>11, <2>12 DEF Filled
    <2>15. Filled(unit, chunk)'
      BY <1>3, <2>8, <2>13, <2>14 DEF Filled, c, ChunkOf
    <2>16. Writes'
      BY <1>1, <2>15 DEF Writes
    <2>17. Erasures'
      BY <1>1, <1>7, <1>9 DEF Erasures
    <2> QED BY <1>7, <2>16, <2>17 DEF Honest
  <1> QED BY <1>2, <1>8, <1>9 DEF Writing

\* A question of whoever is alone: what is claimed of the zone already holds.
LEMMA AskHonest ==
  ASSUME ~SlowReplies, Shape, Lockstep, Lockstep', Read, Rest,
         NEW p \in Steady, NEW u, NEW k, Ask(p, u, k), link => Request(p, u, k) \in Sendable,
         Alone /\ p \in {"erase", "write"} =>
           zone[0] = Blank /\ \A b \in Units : 0 < b /\ b < u => Same(zone, file, b),
         Alone /\ p = "writeHead" => \A b \in Units : 0 < b => Same(zone, file, b),
         Alone /\ p \in {"write", "writeHead"} => FilledUpTo(u, k) /\ k \in Chunk
  PROVE  Honest'
  <1> SUFFICES ASSUME Alone', p \in Writing PROVE Honest'
    BY NotWriting DEF Ask
  <1>1. link
    BY DEF Alone, Rest
  <1>2. Alone /\ reports' = <<>>
    BY <1>1, AskAlone
  <1>3. pc' = p /\ unit' = u /\ chunk' = k /\ zone' = zone /\ file' = file /\ Units' = Units
    BY DEF Ask, Rest, Units
  <1>4. ~Believed'
    BY <1>2 DEF Believed
  <1>5. Erasures'
    BY <1>2, <1>3, <1>4 DEF Erasures
  <1>6. Settled'
    BY <1>2, <1>3 DEF Settled, Same
  <1>7. Writes'
    <2> SUFFICES ASSUME p \in {"write", "writeHead"} PROVE Filled(unit, chunk)'
      BY <1>3 DEF Writes
    <2>1. FilledUpTo(u, k) /\ k \in 1 .. Chunks
      BY <1>2 DEF Chunk
    <2>2. \A j \in k + 1 .. Chunks : j \in k .. Chunks
      BY <2>1, Numbers
    <2>3. k \in k .. Chunks
      BY <2>1, Numbers
    <2> QED BY <1>2, <1>3, <1>4, <2>1, <2>2, <2>3 DEF Filled, FilledUpTo, ChunkOf
  <1> QED BY <1>5, <1>6, <1>7 DEF Honest

\* Nothing of a blank unit is written.
LEMMA BlankUnwritten ==
  ASSUME NEW u, zone[u] = Blank PROVE FilledUpTo(u, 1)
  <1>1. \A j \in 1 .. Chunks : zone[u][ChunkOf(u, j)] = Erased
    BY ChunkOrder DEF Chunk, Blank
  <1>2. \A j \in 1 .. 1 - 1 : FALSE
    OBVIOUS
  <1> QED BY <1>1, <1>2 DEF FilledUpTo

\* On to the next unit that differs: all in front of it are the file's.
LEMMA NextDirtyHonest ==
  ASSUME ~SlowReplies, Shape, Lockstep, Lockstep', pc # "idle", Read, Rest,
         NEW u \in Block, NextDirty(u),
         Alone => /\ zone[0] = Blank
                  /\ \A b \in Units : 0 < b /\ b <= u => Same(zone, file, b)
                  /\ \A b \in Units : b > u => Fresh(b)
  PROVE  Honest'
  <1>1. file \in Images /\ file.len \in 1 .. N /\ u \in Nat
    BY Numbers DEF Shape, Ranges, Block
  <1>2. \A b \in Units : b \in Nat
    BY <1>1, Numbers DEF Units
  <1>3. Alone => \A b \in Units : 0 < b /\ b \notin Dirty(u) => Same(zone, file, b)
    BY <1>1, <1>2 DEF Dirty, Same, Fresh
  <1>4. CASE Dirty(u) = {} /\ Ask("writeHead", 0, 1)
    <2>1. 0 \in Block /\ 1 \in 0 .. Chunks /\ 1 \in Chunk
      BY Numbers
    <2>2. Request("writeHead", 0, 1) \in Sendable
      BY <1>1, <2>1, RequestTyped DEF Phase
    <2>3. Alone => FilledUpTo(0, 1) /\ \A b \in Units : 0 < b => Same(zone, file, b)
      BY <1>3, <1>4, BlankUnwritten
    <2> QED BY <1>4, <2>1, <2>2, <2>3, AskHonest DEF Steady
  <1>5. ASSUME NEW j \in Dirty(u), \A i \in Dirty(u) : j <= i, Ask("erase", j, 0) PROVE Honest'
    <2>1. j \in Block /\ 0 \in 0 .. Chunks /\ j \in Nat
      BY <1>1, Numbers DEF Dirty, Units, Block
    <2>2. Request("erase", j, 0) \in Sendable
      BY <1>1, <2>1, RequestTyped DEF Phase
    <2>3. \A b \in Units : b < j => b \notin Dirty(u)
      BY <1>2, <1>5, <2>1
    <2>4. Alone => zone[0] = Blank /\ \A b \in Units : 0 < b /\ b < j => Same(zone, file, b)
      BY <1>3, <2>3
    <2> QED BY <1>5, <2>2, <2>4, AskHonest DEF Steady
  <1> QED BY <1>4, <1>5 DEF NextDirty

\* A unit whose last chunk was answered is the file's.
LEMMA UnitFilled ==
  ASSUME Shape, pc = "write", chunk = Chunks, Believed, Filled(unit, chunk)
  PROVE  Same(zone, file, unit)
  <1>1. unit # 0 /\ unit \in Block /\ file \in Images /\ unit \in Nat
    BY Numbers DEF Shape, Typed, Ranges, Block
  <1>2. zone[unit] \in UnitData /\ file.unit[unit] \in UnitData
    BY <1>1, Numbers DEF Shape, Typed
  <1>3. ASSUME NEW c \in Chunk PROVE zone[unit][c] = file.unit[unit][c]
    <2>1. ChunkOf(unit, c) = c
      BY <1>1 DEF ChunkOf
    <2>2. c \in 1 .. Chunks - 1 \/ c = Chunks
      BY Numbers DEF Chunk
    <2> QED BY <2>1, <2>2 DEF Filled
  <1>4. zone[unit] = file.unit[unit]
    BY <1>2, <1>3 DEF UnitData
  <1> QED BY <1>4 DEF Same

LEMMA WriteHonest ==
  ASSUME ~SlowReplies, Shape, Lockstep, Lockstep', Lists, Honest,
         \/ HeadErased \/ UnitErased \/ ChunkWritten("write") \/ UnitWritten
         \/ ChunkWritten("writeHead")
  PROVE  Honest'
  <1>1. Read /\ Rest /\ pc # "idle"
    BY DEF HeadErased, UnitErased, ChunkWritten, UnitWritten, Reads
  <1>2. /\ unit \in Block /\ unit \in Nat /\ 0 \in Block /\ 0 \in 0 .. Chunks
        /\ 1 \in Chunk /\ 1 \in 0 .. Chunks
    BY Numbers DEF Shape, Typed, Block
  <1>3. file \in Images /\ 0 < file.len /\ \A b \in Units : b \in Nat
    BY <1>1, Numbers DEF Shape, Ranges, Units
  <1>4. Alone => link
    BY DEF Alone
  <1>5. Alone => Believed
    <2> SUFFICES ASSUME Alone PROVE Believed
      OBVIOUS
    <2>1. Good("ERASE") \/ Good("WRITE")
      BY DEF HeadErased, UnitErased, ChunkWritten, UnitWritten, Reads
    <2>2. reports # <<>> /\ reports[1].ok
      BY <1>1, <1>4, <2>1, Accepted
    <2> QED BY <2>2 DEF Believed
  <1>6. CASE HeadErased
    <2>1. pc = "eraseHead" /\ NextDirty(0)
      BY <1>6 DEF HeadErased, Reads
    <2>2. Alone => zone[0] = Blank
      BY <1>4, <1>5, <2>1 DEF Honest, Erasures, Alone
    <2>3. Alone => \A b \in Units : b > 0 => Fresh(b)
      BY <2>1 DEF Lists
    <2>4. \A b \in Units : ~(0 < b /\ b <= 0)
      BY <1>3
    <2> QED BY <1>1, <1>2, <2>1, <2>2, <2>3, <2>4, NextDirtyHonest
  <1>7. CASE UnitWritten
    <2>1. pc = "write" /\ chunk = Chunks /\ NextDirty(unit)
      BY <1>7 DEF UnitWritten, Reads
    <2>2. Alone => zone[0] = Blank
      BY <1>4, <2>1 DEF Honest, Erasures
    <2>3. Alone => Same(zone, file, unit)
      BY <1>4, <1>5, <2>1, UnitFilled DEF Honest, Writes
    <2>4. Alone => \A b \in Units : 0 < b /\ b < unit => Same(zone, file, b)
      BY <1>4, <2>1 DEF Honest, Settled
    <2>5. Alone => \A b \in Units : 0 < b /\ b <= unit => Same(zone, file, b)
      BY <1>2, <1>3, <2>3, <2>4
    <2>6. Alone => \A b \in Units : b > unit => Fresh(b)
      BY <2>1 DEF Lists
    <2> QED BY <1>1, <1>2, <2>1, <2>2, <2>5, <2>6, NextDirtyHonest
  <1>8. CASE UnitErased
    <2>1. pc = "erase" /\ Ask("write", unit, 1)
      BY <1>8 DEF UnitErased, Reads
    <2>2. Request("write", unit, 1) \in Sendable
      BY <1>2, <1>3, RequestTyped DEF Phase
    <2>3. Alone => zone[0] = Blank /\ zone[unit] = Blank
      BY <1>4, <1>5, <2>1 DEF Honest, Erasures
    <2>4. Alone => \A b \in Units : 0 < b /\ b < unit => Same(zone, file, b)
      BY <1>4, <2>1 DEF Honest, Settled
    <2>5. Alone => FilledUpTo(unit, 1)
      BY <2>3, BlankUnwritten
    <2> QED BY <1>1, <1>2, <2>1, <2>2, <2>3, <2>4, <2>5, AskHonest DEF Steady
  <1>9. CASE ChunkWritten("write") \/ ChunkWritten("writeHead")
    <2>1. PICK p \in {"write", "writeHead"} : ChunkWritten(p)
      BY <1>9
    <2>2. pc = p /\ chunk < Chunks /\ Ask(p, unit, chunk + 1)
      BY <2>1 DEF ChunkWritten, Reads
    <2>3. chunk \in Chunk /\ chunk \in Nat /\ chunk + 1 \in Chunk /\ chunk + 1 \in 0 .. Chunks
      BY <2>2, Numbers DEF Shape, Typed, Ranges, Chunk
    <2>4. Request(p, unit, chunk + 1) \in Sendable
      BY <1>2, <1>3, <2>3, RequestTyped DEF Phase
    <2>5. Alone => Filled(unit, chunk)
      BY <1>4, <2>2 DEF Honest, Writes
    <2>6. Alone => FilledUpTo(unit, chunk + 1)
      <3> SUFFICES ASSUME Alone PROVE FilledUpTo(unit, chunk + 1)
        OBVIOUS
      <3>1. \A j \in 1 .. (chunk + 1) - 1 : j \in 1 .. chunk - 1 \/ j = chunk
        BY <2>3
      <3> QED BY <1>5, <2>5, <3>1 DEF Filled, FilledUpTo
    <2>7. Alone /\ p = "write" =>
            zone[0] = Blank /\ \A b \in Units : 0 < b /\ b < unit => Same(zone, file, b)
      BY <1>4, <2>2 DEF Honest, Erasures, Settled
    <2>8. Alone /\ p = "writeHead" => \A b \in Units : 0 < b => Same(zone, file, b)
      BY <1>4, <2>2 DEF Honest, Settled
    <2> QED BY <1>1, <2>2, <2>3, <2>4, <2>6, <2>7, <2>8, AskHonest DEF Steady
  <1> QED BY <1>6, <1>7, <1>8, <1>9

LEMMA FetchDoneHonest ==
  ASSUME ~SlowReplies, Shape, Lockstep, Lockstep', FetchDone PROVE Honest'
  <1>1. CASE SayOk("reboot")
    BY <1>1, NotWriting DEF SayOk, Writing
  <1>2. CASE Ask("eraseHead", 0, 0)
    <2>1. file \in Images /\ 0 \in Block /\ 0 \in 0 .. Chunks
      BY Numbers DEF FetchDone, Reads, Shape, Ranges
    <2>2. Request("eraseHead", 0, 0) \in Sendable
      BY <2>1, RequestTyped DEF Phase
    <2> QED BY <1>2, <2>2, AskHonest DEF FetchDone, Reads, Steady
  <1> QED BY <1>1, <1>2 DEF FetchDone

LEMMA SameHonest ==
  ASSUME Honest, usb' = usb, tool' = tool, zone' = zone PROVE Honest'
  <1>1. /\ pc' = pc /\ reports' = reports /\ Units' = Units /\ link' = link /\ file' = file
        /\ unit' = unit /\ chunk' = chunk /\ Pending' = Pending
    BY DEF usb, tool, Pending, Units
  <1>2. Erasures'
    BY <1>1 DEF Honest, Erasures, Believed
  <1>3. Settled'
    BY <1>1 DEF Honest, Settled, Same
  <1>4. Writes'
    BY <1>1 DEF Honest, Writes, Filled, Believed, ChunkOf
  <1> QED BY <1>2, <1>3, <1>4 DEF Honest

LEMMA HonestNext ==
  ASSUME ~SlowReplies, ~SilentFaults, Shape, Lockstep, Lockstep', Lists, Honest, [Next]_vars
  PROVE  Honest'
  <1>1. CASE DeviceInit \/ FlashCrc \/ Mutate \/ MutateFails \/ MutateLies
    BY <1>1, ExecutedHonest
  <1>2. CASE Reboot \/ BootFails \/ PowerCut
    BY <1>2, NotWriting DEF Reboot, BootFails, PowerCut, Disappears, Alone
  <1>3. CASE PowerOn \/ EnterUpdate
    BY <1>3, SameHonest DEF PowerOn, EnterUpdate
  <1>4. CASE StartSession
    BY <1>4, NotWriting DEF StartSession, Writing
  <1>5. CASE InitFails \/ VerifyFails \/ BadAnswer \/ Abandon
    BY <1>5, Ends, NotWriting DEF End, Leave, Writing
  <1>6. CASE RebootSent
    BY <1>6, NotWriting DEF RebootSent, Leave, Writing
  <1>7. CASE \/ InitAnswered \/ BatchAnswered("fetch") \/ BatchAnswered("verify")
            \/ FetchFails \/ Verified \/ HeadWritten
    BY <1>7, NotWriting
    DEF InitAnswered, BatchAnswered, FetchFails, Verified, HeadWritten, Ask, SayOk, Writing
  <1>8. CASE FetchDone
    BY <1>8, FetchDoneHonest
  <1>9. CASE \/ HeadErased \/ UnitErased \/ ChunkWritten("write") \/ UnitWritten
            \/ ChunkWritten("writeHead")
    BY <1>9, WriteHonest
  <1>10. CASE UNCHANGED vars
    BY <1>10, SameHonest DEF vars, usb, tool
  <1> QED
    BY <1>1, <1>2, <1>3, <1>4, <1>5, <1>6, <1>7, <1>8, <1>9, <1>10
    DEF Next, Device, Tool, User, Fault

----------------------------------------------------------------------------
(* The commands that change flash *)

\* What the tool does with an answer it goes on after
LEMMA ToolSteps ==
  ASSUME \/ InitAnswered \/ BatchAnswered("fetch") \/ BatchAnswered("verify") \/ FetchDone
         \/ FetchFails \/ HeadErased \/ UnitErased \/ ChunkWritten("write") \/ UnitWritten
         \/ ChunkWritten("writeHead") \/ HeadWritten \/ Verified
  PROVE  Rest /\ ((\E p \in Steady : \E u, k : Ask(p, u, k)) \/ out' = out)
  <1>1. Rest
    BY DEF InitAnswered, BatchAnswered, FetchDone, FetchFails, HeadErased, UnitErased,
           ChunkWritten, UnitWritten, HeadWritten, Verified
  <1>2. CASE HeadErased \/ UnitWritten
    <2>1. \E u : NextDirty(u)
      BY <1>2 DEF HeadErased, UnitWritten
    <2> QED BY <1>1, <2>1 DEF NextDirty, Steady
  <1>3. CASE \/ InitAnswered \/ BatchAnswered("fetch") \/ BatchAnswered("verify") \/ FetchDone
            \/ FetchFails \/ UnitErased \/ ChunkWritten("write")
            \/ ChunkWritten("writeHead") \/ HeadWritten \/ Verified
    BY <1>1, <1>3 DEF InitAnswered, BatchAnswered, FetchDone, FetchFails, UnitErased,
           ChunkWritten, HeadWritten, Verified, SayOk, Steady
  <1> QED BY <1>2, <1>3

\* What is in the device was there before, or was just sent.
LEMMA Lengthened ==
  ASSUME Typed, NEW c, out' \in {out, Append(out, c)}, NEW i \in 1 .. Len(out')
  PROVE  (\E j \in 1 .. Len(out) : out'[i] = out[j]) \/ (out' = Append(out, c) /\ out'[i] = c)
  <1>1. out \in Seq(Sendable) /\ Len(out) \in Nat
    BY QueueLengths DEF Typed
  <1>2. CASE out' = out
    BY <1>2
  <1>3. CASE out' = Append(out, c)
    <2>1. /\ Len(out') = Len(out) + 1 /\ out'[Len(out) + 1] = c
          /\ \A j \in 1 .. Len(out) : out'[j] = out[j]
      BY <1>1, <1>3
    <2>2. i \in 1 .. Len(out) \/ i = Len(out) + 1
      BY <1>1, <2>1
    <2> QED BY <1>3, <2>1, <2>2
  <1> QED BY <1>2, <1>3

\* A mutating command is in the device because it was there and nothing has changed,
\* or because it is the tool's own.
LEMMA OutStep ==
  ASSUME Shape, Lockstep, [Next]_vars, NEW i \in 1 .. Len(out'), out'[i].op \in Mutating
  PROVE  /\ zone' = zone
         /\ \/ \E j \in 1 .. Len(out) : out'[i] = out[j]
            \/ link' /\ pc' \in Writing /\ out'[i] = Request(pc', unit', chunk') /\ file' = file
  <1>1. Typed /\ Len(out) \in Nat
    BY QueueLengths DEF Shape
  <1>2. CASE DeviceInit \/ FlashCrc \/ Mutate \/ MutateFails \/ MutateLies
    <2>1. out # <<>>
      BY <1>2, Executions
    <2>2. PICK ok, list : Answer(ok, list)
      BY <1>2, Executions
    <2>3. out' # <<>> => Len(out) = 2 /\ Len(out') = 1 /\ out'[1] = out[2]
      BY <1>1, <2>1, <2>2, Executed
    <2>4. out' # <<>>
      <3>1. out' = <<>> => Len(out') = 0
        OBVIOUS
      <3> QED BY <3>1
    <2>5. i = 1 /\ Len(out) = 2 /\ out'[i] = out[2]
      <3>1. Len(out') = 1 /\ out'[1] = out[2] /\ Len(out) = 2
        BY <2>3, <2>4
      <3>2. i = 1
        BY <3>1
      <3> QED BY <3>1, <3>2
    <2>6. out[1].op \notin Mutating
      BY <2>5 DEF Lockstep, MutatingApart, Mutating
    <2>7. zone' = zone
      <3>1. ~(Mutate \/ MutateFails \/ MutateLies)
        BY <1>1, <2>6, Mutated
      <3> QED BY <1>2, <3>1 DEF DeviceInit, FlashCrc
    <2> QED BY <2>5, <2>7
  <1>3. CASE Reboot \/ BootFails \/ PowerCut
    <2>1. out' = <<>>
      BY <1>3 DEF Reboot, BootFails, PowerCut, Disappears
    <2>2. Len(out') = 0
      BY <2>1
    <2> QED BY <2>2
  <1>4. CASE PowerOn \/ EnterUpdate \/ UNCHANGED vars
    BY <1>4 DEF PowerOn, EnterUpdate, usb, vars
  <1>5. CASE StartSession
    <2> DEFINE c == Request("init", 0, 0)
    <2>1. out' \in {out, Append(out, c)} /\ zone' = zone
      BY <1>5 DEF StartSession
    <2>2. c.op = "INIT"
      BY Opcodes DEF Request
    <2> HIDE DEF c
    <2> QED BY <1>1, <2>1, <2>2, Lengthened DEF Mutating
  <1>6. CASE InitFails \/ VerifyFails \/ BadAnswer \/ Abandon
    BY <1>6, Ends DEF End, Leave
  <1>7. CASE RebootSent
    <2> DEFINE c == Request(pc, 0, 0)
    <2>1. out' \in {out, Append(out, c)} /\ zone' = zone
      BY <1>7 DEF RebootSent, Sent, Leave
    <2>2. c.op = "REBOOT"
      BY <1>7, Opcodes DEF Request, RebootSent
    <2> HIDE DEF c
    <2> QED BY <1>1, <2>1, <2>2, Lengthened DEF Mutating
  <1>8. CASE \/ InitAnswered \/ BatchAnswered("fetch") \/ BatchAnswered("verify") \/ FetchDone
            \/ FetchFails \/ HeadErased \/ UnitErased \/ ChunkWritten("write") \/ UnitWritten
            \/ ChunkWritten("writeHead") \/ HeadWritten \/ Verified
    <2>1. zone' = zone /\ link' = link /\ file' = file
      BY <1>8, ToolSteps DEF Rest
    <2>2. CASE out' = out
      BY <2>1, <2>2
    <2>3. ASSUME NEW p \in Steady, NEW u, NEW k, Ask(p, u, k)
          PROVE  \/ \E j \in 1 .. Len(out) : out'[i] = out[j]
                 \/ link' /\ pc' \in Writing /\ out'[i] = Request(pc', unit', chunk')
      <3> DEFINE c == Request(p, u, k)
      <3>1. out' = Sent(c) /\ pc' = p /\ unit' = u /\ chunk' = k /\ c = Request(pc', unit', chunk')
        BY <2>3 DEF Ask
      <3>2. c.op = Opcode(p)
        BY DEF Request
      <3> HIDE DEF c
      <3>3. out' \in {out, Append(out, c)}
        BY <3>1 DEF Sent
      <3>4. CASE link
        <4>1. CASE out'[i] = c
          <5>1. p \in Writing
            BY <3>2, <4>1, Opcodes DEF Steady, Writing, Mutating
          <5> QED BY <2>1, <3>1, <3>4, <4>1, <5>1
        <4> QED BY <1>1, <3>3, <4>1, Lengthened
      <3>5. CASE ~link
        BY <3>1, <3>5 DEF Sent
      <3> QED BY <3>4, <3>5
    <2> QED BY <1>8, <2>1, <2>2, <2>3, ToolSteps
  <1> QED
    BY <1>2, <1>3, <1>4, <1>5, <1>6, <1>7, <1>8
    DEF Next, Device, Tool, User, Fault

\* The zone changes by the command in front alone.
LEMMA ZoneStep ==
  ASSUME Shape, [Next]_vars, zone' # zone
  PROVE  /\ out # <<>> /\ Cmd = out[1] /\ 1 \in 1 .. Len(out) /\ Cmd \in Sendable
         /\ Cmd.op \in Mutating /\ Cmd.unit \in Block
         /\ \E w \in {After, Halfway, zone[Cmd.unit]} : zone' = [zone EXCEPT ![Cmd.unit] = w]
  <1>1. Mutate \/ MutateFails \/ MutateLies \/ PowerCut
    <2>1. ~(\/ InitAnswered \/ BatchAnswered("fetch") \/ BatchAnswered("verify") \/ FetchDone
            \/ FetchFails \/ HeadErased \/ UnitErased \/ ChunkWritten("write") \/ UnitWritten
            \/ ChunkWritten("writeHead") \/ HeadWritten \/ Verified)
      BY ToolSteps DEF Rest
    <2>2. ~(InitFails \/ VerifyFails \/ BadAnswer \/ Abandon \/ RebootSent)
      BY Ends DEF End, RebootSent, Leave
    <2>3. ~(DeviceInit \/ FlashCrc \/ Reboot \/ BootFails \/ PowerOn \/ EnterUpdate \/ StartSession \/ UNCHANGED vars)
      BY DEF DeviceInit, FlashCrc, Reboot, BootFails, PowerOn, EnterUpdate, StartSession, vars
    <2> QED BY <2>1, <2>2, <2>3 DEF Next, Device, Tool, User, Fault
  <1>2. Executes("ERASE") \/ Executes("WRITE")
    BY <1>1 DEF Mutate, MutateFails, MutateLies, PowerCut
  <1>3. PICK w \in {After, Halfway, zone[Cmd.unit]} : Becomes(w)
    BY <1>1, <1>2 DEF Mutate, MutateFails, MutateLies, PowerCut
  <1>4. out # <<>> /\ Cmd.op \in Mutating
    BY <1>2 DEF Executes, Cmd, Mutating
  <1>5. Cmd = out[1] /\ Cmd \in Sendable
    BY <1>4, Rest1 DEF Shape, Typed, Cmd
  <1>6. 1 \in 1 .. Len(out)
    BY <1>4, Rest1 DEF Shape, Typed
  <1>7. Cmd.unit \in Block
    BY <1>4, AftermathTyped DEF Shape
  <1> QED BY <1>3, <1>4, <1>5, <1>6, <1>7 DEF Becomes

LEMMA BlankUnmounted == ASSUME NEW z, z[0] = Blank PROVE ~Mountable(z)
  BY Numbers, CellAssumption DEF Mountable, Blank

----------------------------------------------------------------------------
(* A tool that does not wait for its answers: only an unmounted zone is changed *)
(* beyond its first unit.                                                       *)

\* What is pending is what was pending but for the report that was read, and what was sent.
LEMMA PendingMoves ==
  ASSUME Typed, Typed', Read, NEW c, out' \in {out, Append(out, c)},
         NEW i \in 1 .. Pending'
  PROVE  /\ i \in Nat
         /\ reports = <<>> =>
              \/ i \in 1 .. Pending /\ Ahead(i)' = Ahead(i)
              \/ i = Pending' /\ out' = Append(out, c) /\ Ahead(i)' = c.op
         /\ reports # <<>> =>
              \/ i + 1 \in 1 .. Pending /\ Ahead(i)' = Ahead(i + 1)
              \/ i = Pending' /\ out' = Append(out, c) /\ Ahead(i)' = c.op
  <1> DEFINE r == Len(reports)
             l == Len(out)
  <1>1. r \in Nat /\ l \in Nat /\ (reports = <<>> <=> r = 0)
    BY QueueLengths
  <1>2. Len(reports') \in Nat /\ Len(out') \in Nat
    BY Lengths DEF Typed
  <1>3. i \in Nat /\ 1 <= i /\ i <= Len(reports') + Len(out')
    BY <1>2 DEF Pending
  <1>4. \/ out' = out /\ Len(out') = l
        \/ out' = Append(out, c) /\ Len(out') = l + 1 /\ out'[l + 1] = c
           /\ \A j \in 1 .. l : out'[j] = out[j]
    <2>1. out \in Seq(Sendable)
      BY DEF Typed
    <2> QED BY <2>1
  <1>5. CASE reports = <<>>
    <2>1. r = 0 /\ Len(reports') = 0
      BY <1>1, <1>5 DEF Read
    <2>2. Pending = l /\ Pending' = Len(out')
      BY <1>1, <1>2, <2>1 DEF Pending
    <2>3. Ahead(i)' = out'[i].op
      BY <1>3, <2>1 DEF Ahead
    <2>4. i \in 1 .. l => Ahead(i) = out[i].op
      BY <1>1, <2>1 DEF Ahead
    <2> HIDE DEF r, l
    <2>5. i \in 1 .. l \/ (i = l + 1 /\ out' = Append(out, c) /\ out'[l + 1] = c /\ Len(out') = l + 1)
      BY <1>1, <1>3, <1>4, <2>1
    <2>6. i \in 1 .. l => out'[i] = out[i]
      BY <1>4
    <2> QED BY <1>3, <1>5, <2>2, <2>3, <2>4, <2>5, <2>6
  <1>6. CASE reports # <<>>
    <2>1. /\ r >= 1 /\ Len(reports') = r - 1
          /\ \A j \in 1 .. r - 1 : reports'[j] = reports[j + 1]
      BY <1>6, Rest1 DEF Read, Typed
    <2>2. Pending = r + l /\ Pending' = (r - 1) + Len(out')
      BY <2>1 DEF Pending
    <2>3. Ahead(i)' = IF i <= r - 1 THEN reports'[i].op ELSE out'[i - (r - 1)].op
      BY <2>1 DEF Ahead
    <2>4. Ahead(i + 1) = IF i + 1 <= r THEN reports[i + 1].op ELSE out[(i + 1) - r].op
      BY DEF Ahead
    <2>5. (i <= r - 1 <=> i + 1 <= r) /\ i - (r - 1) = (i + 1) - r
      BY <1>1, <1>3
    <2> HIDE DEF r, l
    <2>6. CASE i <= r - 1
      <3>1. reports'[i] = reports[i + 1] /\ i + 1 \in 1 .. r + l
        BY <1>1, <1>3, <2>1, <2>6
      <3> QED BY <1>3, <1>6, <2>2, <2>3, <2>4, <2>5, <2>6, <3>1
    <2>7. CASE ~(i <= r - 1)
      <3> DEFINE j == i - (r - 1)
      <3>1. j \in Nat /\ 1 <= j /\ j <= Len(out') /\ i + 1 = r + j
        BY <1>1, <1>2, <1>3, <2>1, <2>7
      <3>2. Ahead(i)' = out'[j].op /\ Ahead(i + 1) = out[j].op
        BY <2>3, <2>4, <2>5, <2>7
      <3> HIDE DEF j
      <3>3. CASE j <= l
        <4>1. out'[j] = out[j] /\ i + 1 \in 1 .. r + l
          BY <1>1, <1>3, <1>4, <3>1, <3>3
        <4> QED BY <1>3, <1>6, <2>2, <3>2, <4>1
      <3>4. CASE ~(j <= l)
        <4>1. /\ j = l + 1 /\ out' = Append(out, c) /\ Len(out') = l + 1 /\ out'[j] = c
          BY <1>1, <1>4, <3>1, <3>4
        <4>2. i = Pending'
          BY <1>1, <1>3, <2>2, <3>1, <4>1
        <4> QED BY <1>3, <1>6, <3>2, <4>1, <4>2
      <3> QED BY <3>3, <3>4
    <2> QED BY <2>6, <2>7
  <1> QED BY <1>5, <1>6

\* An execution turns a command into a report of the same operation.
LEMMA PendingStays ==
  ASSUME Typed, out # <<>>, link, NEW ok, NEW list, Answer(ok, list)
  PROVE  Pending' = Pending /\ \A i \in 1 .. Pending : Ahead(i)' = Ahead(i)
  <1> DEFINE r == Len(reports)
             l == Len(out)
  <1>1. r \in Nat /\ l \in {1, 2} /\ Len(reports') = r + 1 /\ Len(out') = l - 1
    BY QueueLengths, Executed
  <1>2. /\ \A i \in 1 .. r : reports'[i] = reports[i]
        /\ reports'[r + 1] = [op |-> out[1].op, ok |-> ok, list |-> list]
        /\ out' # <<>> => out'[1] = out[2] /\ l = 2
        /\ out' = <<>> => l = 1
    BY Executed
  <1>3. reports'[r + 1].op = out[1].op
    BY <1>2
  <1>4. l = 2 => out'[1] = out[2]
    BY <1>1, <1>2
  <1>5. Pending = r + l /\ Pending' = (r + 1) + (l - 1)
    BY <1>1 DEF Pending
  <1>6. ASSUME NEW i \in 1 .. Pending PROVE Ahead(i)' = Ahead(i)
    <2>1. Ahead(i) = IF i <= r THEN reports[i].op ELSE out[i - r].op
      BY DEF Ahead
    <2>2. Ahead(i)' = IF i <= r + 1 THEN reports'[i].op ELSE out'[i - (r + 1)].op
      BY <1>1 DEF Ahead
    <2> HIDE DEF r, l
    <2>3. i \in 1 .. r \/ i = r + 1 \/ (l = 2 /\ i = r + 2)
      BY <1>1, <1>5
    <2>4. CASE i \in 1 .. r
      BY <1>1, <1>2, <2>1, <2>2, <2>4
    <2>5. CASE i = r + 1
      <3>1. i - r = 1 /\ ~(i <= r) /\ i <= r + 1
        BY <1>1, <2>5
      <3> QED BY <1>3, <2>1, <2>2, <2>5, <3>1
    <2>6. CASE l = 2 /\ i = r + 2
      <3>1. i - r = 2 /\ i - (r + 1) = 1 /\ ~(i <= r) /\ ~(i <= r + 1)
        BY <1>1, <2>6
      <3> QED BY <1>4, <2>1, <2>2, <2>6, <3>1
    <2> QED BY <2>3, <2>4, <2>5, <2>6
  <1> QED BY <1>1, <1>5, <1>6

\* The command in the device is among what is pending.
LEMMA OutAhead ==
  ASSUME Typed, NEW i \in 1 .. Len(out)
  PROVE  Len(reports) + i \in 1 .. Pending /\ Ahead(Len(reports) + i) = out[i].op
  <1>1. Len(reports) \in Nat /\ Len(out) \in Nat
    BY QueueLengths
  <1>2. ~(Len(reports) + i <= Len(reports)) /\ (Len(reports) + i) - Len(reports) = i
    BY <1>1
  <1> QED BY <1>1, <1>2 DEF Ahead, Pending

LEMMA LinkedNext == ASSUME Shape, Linked, [Next]_vars PROVE Linked'
  <1>1. CASE DeviceInit \/ FlashCrc \/ Mutate \/ MutateFails \/ MutateLies
    <2>1. out # <<>> /\ \E ok, list : Answer(ok, list)
      BY <1>1, Executions
    <2> QED BY <2>1 DEF Answer, tool, Linked
  <1>2. CASE Reboot \/ BootFails \/ PowerCut
    BY <1>2 DEF Reboot, BootFails, PowerCut, Disappears, Linked
  <1>3. CASE PowerOn \/ EnterUpdate \/ UNCHANGED vars
    BY <1>3 DEF PowerOn, EnterUpdate, usb, tool, vars, Linked
  <1>4. CASE StartSession
    BY <1>4 DEF StartSession, Linked
  <1>5. CASE InitFails \/ VerifyFails \/ BadAnswer \/ Abandon \/ RebootSent
    BY <1>5, Ends DEF End, Leave, RebootSent, Linked
  <1>6. CASE \/ InitAnswered \/ BatchAnswered("fetch") \/ BatchAnswered("verify") \/ FetchDone
            \/ FetchFails \/ HeadErased \/ UnitErased \/ ChunkWritten("write") \/ UnitWritten
            \/ ChunkWritten("writeHead") \/ HeadWritten \/ Verified
    <2>1. link' = link /\ Read /\ pc # "idle" /\ pc' # "idle" /\ (~link => out' = out)
      <3>1. Rest /\ Read /\ pc # "idle"
        BY <1>6 DEF InitAnswered, BatchAnswered, FetchDone, FetchFails, HeadErased, UnitErased,
                    ChunkWritten, UnitWritten, HeadWritten, Verified, Reads
      <3>2. (\E p \in Steady : \E u, k : Ask(p, u, k)) \/ (\E p \in Leaving : SayOk(p))
        <4>1. CASE HeadErased \/ UnitWritten
          <5>1. \E u : NextDirty(u)
            BY <4>1 DEF HeadErased, UnitWritten
          <5> QED BY <5>1 DEF NextDirty, Steady
        <4>2. CASE ~(HeadErased \/ UnitWritten)
          BY <1>6, <4>2 DEF InitAnswered, BatchAnswered, FetchDone, FetchFails, UnitErased,
                    ChunkWritten, HeadWritten, Verified, Steady, Leaving
        <4> QED BY <4>1, <4>2
      <3>3. pc' # "idle" /\ (~link => out' = out)
        BY <3>2 DEF Ask, SayOk, Sent, Steady, Leaving
      <3> QED BY <3>1, <3>3 DEF Rest
    <2>2. ~link => reports' = <<>>
      BY <2>1 DEF Linked, Read
    <2> QED BY <2>1, <2>2 DEF Linked
  <1> QED
    BY <1>1, <1>2, <1>3, <1>4, <1>5, <1>6
    DEF Next, Device, Tool, User, Fault

\* The device executes the command in front.
LEMMA ExecutedGuards ==
  ASSUME ~SilentFaults, Shape, GInv, link,
         DeviceInit \/ FlashCrc \/ Mutate \/ MutateFails \/ MutateLies
  PROVE  AfterInit' /\ AfterFetch' /\ AfterHead' /\ HeadGone'
  <1>1. Typed /\ out # <<>>
    BY Executions DEF Shape
  <1>2. PICK ok, list : Answer(ok, list)
    BY Executions
  <1>3. /\ link' = link /\ pc' = pc /\ seen' = seen
        /\ Pending' = Pending /\ \A i \in 1 .. Pending : Ahead(i)' = Ahead(i)
    BY <1>1, <1>2, PendingStays DEF Answer, tool
  <1>4. /\ Len(out') = Len(out) - 1 /\ Cmd = out[1]
        /\ out' # <<>> => Len(out) = 2 /\ Len(out') = 1 /\ out'[1] = out[2]
        /\ out' = <<>> => Len(out) = 1
    BY <1>1, <1>2, Executed
  <1>5. Pending \in Nat
    BY <1>1, QueueLengths DEF Pending
  <1>6. AfterInit'
    <2> SUFFICES ASSUME pc = "init"
                 PROVE  Pending' <= 2 /\ (Pending' = 2 /\ Ahead(1)' = "INIT" => Ahead(2)' \notin Mutating)
      BY <1>3 DEF AfterInit
    <2>1. Pending <= 2 /\ (Pending = 2 /\ Ahead(1) = "INIT" => Ahead(2) \notin Mutating)
      BY DEF GInv, AfterInit
    <2>2. Pending = 2 => Ahead(1)' = Ahead(1) /\ Ahead(2)' = Ahead(2)
      BY <1>3
    <2> QED BY <1>3, <2>1, <2>2
  <1>7. AfterFetch'
    BY <1>3 DEF GInv, AfterFetch
  <1>8. AfterHead'
    <2> SUFFICES ASSUME pc = "eraseHead"
                 PROVE  /\ \A i \in 1 .. Pending' : Ahead(i)' # "INIT"
                        /\ \A i \in 1 .. Pending' - 1 : Ahead(i)' \notin Mutating
                        /\ out' # <<>> /\ out'[Len(out')].op \in Mutating =>
                             out'[Len(out')].op = "ERASE" /\ out'[Len(out')].unit = 0
                        /\ out' = <<>> /\ reports' # <<>> =>
                             (reports'[Len(reports')].op = "ERASE" /\ reports'[Len(reports')].ok
                                => zone'[0] = Blank)
      BY <1>3 DEF AfterHead, GInv
    <2>1. /\ \A i \in 1 .. Pending : Ahead(i) # "INIT"
          /\ \A i \in 1 .. Pending - 1 : Ahead(i) \notin Mutating
          /\ seen.op \notin Mutating
          /\ out[Len(out)].op \in Mutating =>
               out[Len(out)].op = "ERASE" /\ out[Len(out)].unit = 0
      BY <1>1 DEF GInv, AfterHead
    <2>2. \A i \in 1 .. Pending - 1 : i \in 1 .. Pending
      BY <1>5
    <2>3. out' # <<>> => out'[Len(out')] = out[Len(out)]
      BY <1>4
    <2>4. ASSUME out' = <<>>, reports'[Len(reports')].op = "ERASE", reports'[Len(reports')].ok
          PROVE  zone'[0] = Blank
      <3>1. Len(out) = 1 /\ reports'[Len(reports')] = [op |-> out[1].op, ok |-> ok, list |-> list]
        <4>1. /\ Len(reports') = Len(reports) + 1
              /\ reports'[Len(reports) + 1] = [op |-> out[1].op, ok |-> ok, list |-> list]
          BY <1>1, <1>2, Executed
        <4> QED BY <1>4, <2>4, <4>1
      <3>2. out[1].op = "ERASE" /\ ok
        BY <2>4, <3>1
      <3>3. out[1].unit = 0
        BY <2>1, <3>1, <3>2 DEF Mutating
      <3>4. Mutate
        <4>1. ~(DeviceInit \/ FlashCrc \/ MutateLies)
          BY <1>4, <3>2 DEF DeviceInit, FlashCrc, MutateLies, Executes, Cmd
        <4>2. ~MutateFails
          <5> SUFFICES ASSUME MutateFails PROVE FALSE
            OBVIOUS
          <5>1. Answer(FALSE, <<>>)
            BY DEF MutateFails
          <5>2. /\ Len(reports') = Len(reports) + 1
                /\ reports'[Len(reports) + 1] = [op |-> out[1].op, ok |-> FALSE, list |-> <<>>]
            BY <1>1, <5>1, Executed
          <5> QED BY <2>4, <5>2
        <4> QED BY <4>1, <4>2
      <3>5. zone' = [zone EXCEPT ![0] = Blank]
        BY <1>4, <3>2, <3>3, <3>4 DEF Mutate, Becomes, After
      <3> QED BY <1>1, <3>5, Numbers DEF Typed
    <2> QED BY <1>3, <2>1, <2>2, <2>3, <2>4
  <1>9. HeadGone'
    <2> SUFFICES ASSUME pc \in {"erase", "write", "writeHead"}
                 PROVE  /\ \A i \in 1 .. Len(out') : out'[i].op # "INIT"
                        /\ pc # "writeHead" =>
                             /\ zone'[0] = Blank
                             /\ \A i \in 1 .. Len(out') : out'[i].op \in Mutating /\ out'[i].unit # 0
      BY <1>3 DEF HeadGone
    <2>1. \A i \in 1 .. Len(out') : 2 \in 1 .. Len(out) /\ out'[i] = out[2]
      <3>1. CASE out' = <<>>
        BY <3>1
      <3>2. CASE out' # <<>>
        BY <1>4, <3>2
      <3> QED BY <3>1, <3>2
    <2>2. pc # "writeHead" => zone'[0] = Blank
      <3> SUFFICES ASSUME pc # "writeHead" PROVE zone'[0] = Blank
        OBVIOUS
      <3>1. zone[0] = Blank /\ Cmd.unit # 0
        BY <1>1, <1>4 DEF GInv, HeadGone
      <3>2. CASE DeviceInit \/ FlashCrc
        BY <3>1, <3>2 DEF DeviceInit, FlashCrc
      <3>3. CASE Mutate \/ MutateFails \/ MutateLies
        BY <1>1, <3>1, <3>3, Mutated, Numbers
      <3> QED BY <3>2, <3>3
    <2> QED BY <2>1, <2>2 DEF GInv, HeadGone
  <1> QED BY <1>6, <1>7, <1>8, <1>9

\* What a mutating command leaves does not mount, unless it writes the first unit.
LEMMA StaysUnmounted ==
  ASSUME Shape, [Next]_vars, ~Mountable(zone),
         zone' # zone => Cmd.op # "WRITE" \/ Cmd.unit # 0
  PROVE  ~Mountable(zone')
  <1>1. CASE zone' = zone
    BY <1>1
  <1>2. CASE zone' # zone
    <2>1. Cmd.op \in Mutating /\ Cmd.unit \in Block
      BY <1>2, ZoneStep
    <2>2. PICK w \in {After, Halfway, zone[Cmd.unit]} : zone' = [zone EXCEPT ![Cmd.unit] = w]
      BY <1>2, ZoneStep
    <2>3. zone \in [Block -> UnitData]
      BY DEF Shape, Typed
    <2>4. CASE Cmd.unit # 0
      <3>1. zone'[0] = zone[0]
        BY <2>1, <2>2, <2>3, <2>4, Numbers
      <3> QED BY <3>1 DEF Mountable
    <2>5. CASE Cmd.unit = 0
      <3>1. Cmd.op = "ERASE"
        BY <1>2, <2>1, <2>5 DEF Mutating
      <3>2. zone'[0] = w
        BY <2>1, <2>2, <2>3, <2>5
      <3>3. w = Blank \/ w = [c \in Chunk |-> Torn] \/ w = zone[0]
        BY <2>5, <3>1 DEF After, Halfway
      <3>4. w[1] \notin Heads
        BY <3>3, Numbers, CellAssumption DEF Blank, Mountable
      <3> QED BY <3>2, <3>4 DEF Mountable
    <2> QED BY <2>4, <2>5
  <1> QED BY <1>1, <1>2

LEMMA ExecutedBodyFirst ==
  ASSUME Shape, BodyFirst, [Next]_vars,
         DeviceInit \/ FlashCrc \/ Mutate \/ MutateFails \/ MutateLies
  PROVE  BodyFirst'
  <1>1. Typed /\ out # <<>>
    BY Executions DEF Shape
  <1>2. PICK ok, list : Answer(ok, list)
    BY Executions
  <1>3. Cmd = out[1] /\ (out' # <<>> => Len(out) = 2 /\ Len(out') = 1 /\ out'[1] = out[2])
    BY <1>1, <1>2, Executed
  <1> SUFFICES ASSUME NEW j \in 1 .. Len(out'), out'[j].op \in Mutating
               PROVE  /\ \A i \in 1 .. j - 1 : out'[i].op # "INIT"
                      /\ out'[j].unit # 0 =>
                           /\ ~Mountable(zone')
                           /\ \A i \in 1 .. j - 1 : out'[i].op # "WRITE" \/ out'[i].unit # 0
    BY DEF BodyFirst, Mountable
  <1>4. out' # <<>>
    <2>1. out' = <<>> => Len(out') = 0
      OBVIOUS
    <2> QED BY <2>1
  <1>5. j = 1 /\ 2 \in 1 .. Len(out) /\ out'[j] = out[2] /\ ~(\E i : i \in 1 .. j - 1)
    BY SMTT(30), <1>3, <1>4
  <1>6. out'[j].unit # 0 => ~Mountable(zone) /\ (Cmd.op # "WRITE" \/ Cmd.unit # 0)
    BY <1>3, <1>5 DEF BodyFirst
  <1>7. out'[j].unit # 0 => ~Mountable(zone')
    BY <1>6, StaysUnmounted
  <1> QED BY <1>5, <1>7

\* The tool sends: a command that changes flash has no INIT before it, and one for
\* the body is sent to an erased head alone.
LEMMA SentBodyFirst ==
  ASSUME Typed, BodyFirst, zone' = zone, NEW c, out' \in {out, Append(out, c)},
         out' # out /\ c.op \in Mutating =>
           /\ \A i \in 1 .. Len(out') : out'[i].op # "INIT"
           /\ c.unit # 0 => /\ ~Mountable(zone)
                            /\ \A i \in 1 .. Len(out') : out'[i].unit # 0
  PROVE  BodyFirst'
  <1>1. out \in Seq(Sendable) /\ Len(out) \in Nat
    BY QueueLengths DEF Typed
  <1>2. CASE out' = out
    BY <1>2 DEF BodyFirst, Mountable
  <1>3. CASE out' = Append(out, c) /\ out' # out
    <2>1. /\ Len(out') = Len(out) + 1 /\ out'[Len(out) + 1] = c
          /\ \A j \in 1 .. Len(out) : out'[j] = out[j]
      BY <1>1, <1>3
    <2> SUFFICES ASSUME NEW j \in 1 .. Len(out'), out'[j].op \in Mutating
                 PROVE  /\ \A i \in 1 .. j - 1 : out'[i].op # "INIT"
                        /\ out'[j].unit # 0 =>
                             /\ ~Mountable(zone')
                             /\ \A i \in 1 .. j - 1 : out'[i].op # "WRITE" \/ out'[i].unit # 0
      BY DEF BodyFirst, Mountable
    <2>2. CASE j \in 1 .. Len(out)
      <3>1. \A i \in 1 .. j - 1 : out'[i] = out[i]
        BY <1>1, <2>1, <2>2
      <3>2. out'[j] = out[j]
        BY <2>1, <2>2
      <3> QED BY <2>2, <3>1, <3>2 DEF BodyFirst
    <2>3. CASE j = Len(out) + 1
      <3>1. out'[j] = c /\ \A i \in 1 .. j - 1 : i \in 1 .. Len(out')
        BY <1>1, <2>1, <2>3
      <3> QED BY <1>3, <3>1
    <2>4. j \in 1 .. Len(out) \/ j = Len(out) + 1
      BY <1>1, <2>1
    <2> QED BY <2>2, <2>3, <2>4
  <1> QED BY <1>2, <1>3

\* Who reads a CRC list has no INIT and, but for what it sends, no command left that
\* changes flash.
LEMMA CrcRead ==
  ASSUME Shape, Shape', GInv, link, pc = "fetch", Read, Good("CRC"),
         NEW c, out' \in {out, Append(out, c)}, c.op # "INIT", NEW i \in 1 .. Pending'
  PROVE  /\ Ahead(i)' # "INIT"
         /\ Ahead(i)' \notin Mutating \/ (i = Pending' /\ out' = Append(out, c))
         /\ seen'.op = "CRC"
  <1>1. Typed /\ Typed'
    BY DEF Shape
  <1>2. seen' = Got /\ Got.op = "CRC"
    BY DEF Read, Good
  <1>3. /\ \A j \in 1 .. Pending : Ahead(j) \notin Mutating
        /\ \A j \in 1 .. Pending : Ahead(j) = "INIT" => j = 1 /\ seen.op # "CRC"
    BY DEF GInv, AfterFetch
  <1>4. CASE reports = <<>>
    <2>1. seen.op = "CRC"
      BY <1>2, <1>4 DEF Got
    <2>2. \/ i \in 1 .. Pending /\ Ahead(i)' = Ahead(i)
          \/ i = Pending' /\ out' = Append(out, c) /\ Ahead(i)' = c.op
      BY <1>1, <1>4, PendingMoves
    <2> QED BY <1>2, <1>3, <2>1, <2>2
  <1>5. CASE reports # <<>>
    <2>1. \/ i + 1 \in 1 .. Pending /\ Ahead(i)' = Ahead(i + 1)
          \/ i = Pending' /\ out' = Append(out, c) /\ Ahead(i)' = c.op
      BY <1>1, <1>5, PendingMoves
    <2>2. i \in Nat /\ i + 1 # 1
      BY <1>1, PendingMoves
    <2> QED BY <1>2, <1>3, <2>1, <2>2
  <1> QED BY <1>4, <1>5

LEMMA InitGuards ==
  ASSUME Shape, Shape', GInv, link, InitAnswered
  PROVE  AfterFetch'
  <1> DEFINE c == Request("fetch", 0, 0)
  <1>1. Typed /\ Typed' /\ reports # <<>> /\ Read /\ Good("INIT") /\ pc = "init"
    BY DEF Shape, InitAnswered, Reads
  <1>2. out' \in {out, Append(out, c)}
    BY DEF InitAnswered, Ask, Sent
  <1>3. c.op = "CRC"
    BY Opcodes DEF Request
  <1> HIDE DEF c
  <1>4. reports[1].op = "INIT" /\ seen'.op = "INIT"
    <2>1. Got = reports[1]
      BY <1>1, Rest1 DEF Got, Typed
    <2> QED BY <1>1, <2>1 DEF Good, Read
  <1>5. Ahead(1) = "INIT"
    <2>1. 1 <= Len(reports)
      BY <1>1, QueueLengths
    <2> QED BY <1>4, <2>1 DEF Ahead
  <1>6. Pending \in Nat /\ Pending <= 2 /\ (Pending = 2 => Ahead(2) \notin Mutating)
    BY <1>1, <1>5, QueueLengths DEF GInv, AfterInit, Pending
  <1>7. ASSUME NEW i \in 1 .. Pending'
        PROVE  Ahead(i)' \notin Mutating /\ (Ahead(i)' = "INIT" => i = 1)
    <2>1. i \in Nat
      BY <1>1, <1>2, PendingMoves
    <2>2. \/ i + 1 \in 1 .. Pending /\ Ahead(i)' = Ahead(i + 1)
          \/ Ahead(i)' = "CRC"
      BY <1>1, <1>2, <1>3, PendingMoves
    <2>3. i + 1 \in 1 .. Pending => i = 1 /\ Pending = 2
      BY <1>6, <2>1
    <2> QED BY <1>6, <2>2, <2>3 DEF Mutating
  <1> QED BY <1>4, <1>7 DEF AfterFetch, Mutating

LEMMA BatchGuards ==
  ASSUME Shape, Shape', GInv, link, BatchAnswered("fetch")
  PROVE  AfterFetch'
  <1> DEFINE c == Request("fetch", NextBatch, 0)
  <1>1. pc = "fetch" /\ Read /\ Good("CRC") /\ out' \in {out, Append(out, c)}
    BY DEF BatchAnswered, Reads, Ask, Sent
  <1>2. c.op = "CRC"
    BY Opcodes DEF Request
  <1> HIDE DEF c
  <1>3. seen'.op = "CRC"
    BY <1>1 DEF Read, Good
  <1>4. ASSUME NEW i \in 1 .. Pending' PROVE Ahead(i)' \notin Mutating /\ Ahead(i)' # "INIT"
    <2>1. /\ Ahead(i)' # "INIT"
          /\ Ahead(i)' \notin Mutating \/ (i = Pending' /\ out' = Append(out, c))
      BY <1>1, <1>2, CrcRead
    <2>2. Typed /\ Typed'
      BY DEF Shape
    <2>3. \/ \E j \in 1 .. Pending : Ahead(i)' = Ahead(j)
          \/ Ahead(i)' = c.op
      BY <1>1, <2>2, PendingMoves
    <2> QED BY <1>1, <1>2, <2>1, <2>3 DEF GInv, AfterFetch, Mutating
  <1> QED BY <1>3, <1>4 DEF AfterFetch, Mutating

LEMMA FetchDoneGuards ==
  ASSUME Shape, Shape', GInv, link, FetchDone, pc' = "eraseHead"
  PROVE  AfterHead'
  <1> DEFINE c == Request("eraseHead", 0, 0)
  <1>1. /\ Typed /\ Typed' /\ pc = "fetch" /\ Read /\ Good("CRC") /\ out' = Sent(c)
    BY DEF FetchDone, Reads, Ask, SayOk, Shape
  <1>2. c.op = "ERASE" /\ c.unit = 0
    BY Opcodes DEF Request
  <1> HIDE DEF c
  <1>3. out' \in {out, Append(out, c)}
    BY <1>1 DEF Sent
  <1>4. seen'.op = "CRC"
    BY <1>1 DEF Read, Good
  <1>5. \A i \in 1 .. Pending' :
          /\ Ahead(i)' # "INIT"
          /\ Ahead(i)' \notin Mutating \/ i = Pending'
    BY <1>1, <1>2, <1>3, CrcRead
  <1>6. Pending' \in Nat
    BY <1>1, Lengths DEF Typed, Pending
  <1>7. \A i \in 1 .. Pending' - 1 : i \in 1 .. Pending' /\ i # Pending'
    <2>1. \A n \in Nat : \A i \in 1 .. n - 1 : i \in 1 .. n /\ i # n
      OBVIOUS
    <2> QED BY <1>6, <2>1
  <1>8. out' # <<>>
    BY <1>1, QueueLengths DEF Sent, Depth, Typed
  <1>9. ASSUME out'[Len(out')].op \in Mutating
        PROVE  out'[Len(out')].op = "ERASE" /\ out'[Len(out')].unit = 0
    <2>1. CASE out' = Append(out, c)
      <3>1. out'[Len(out')] = c
        BY <1>1, <2>1 DEF Typed
      <3> QED BY <1>2, <3>1
    <2>2. CASE out' = out
      <3>1. Len(out) \in 1 .. Len(out)
        BY <1>1, <1>8, <2>2, QueueLengths
      <3>2. out[Len(out)].op \notin Mutating
        BY <1>1, <3>1, OutAhead DEF GInv, AfterFetch
      <3> QED BY <1>9, <2>2, <3>2
    <2> QED BY <1>3, <2>1, <2>2
  <1> QED BY <1>4, <1>5, <1>7, <1>8, <1>9 DEF AfterHead, Mutating

\* The answer to the erasure of the head can only be its own.
LEMMA HeadIsGone ==
  ASSUME Shape, GInv, link, HeadErased
  PROVE  out = <<>> /\ zone[0] = Blank
  <1>1. Typed /\ pc = "eraseHead" /\ Read /\ Got.op = "ERASE" /\ Got.ok
    BY DEF Shape, HeadErased, Reads, Good
  <1>2. /\ \A i \in 1 .. Pending - 1 : Ahead(i) \notin Mutating
        /\ seen.op \notin Mutating
        /\ out = <<>> /\ reports # <<>> =>
             (reports[Len(reports)].op = "ERASE" /\ reports[Len(reports)].ok => zone[0] = Blank)
    BY <1>1 DEF GInv, AfterHead
  <1>3. reports # <<>> /\ Got = reports[1]
    BY <1>1, <1>2, Rest1 DEF Got, Typed, Mutating
  <1>4. Len(reports) \in Nat /\ Len(reports) >= 1 /\ Len(out) \in Nat
    BY <1>1, <1>3, QueueLengths
  <1>5. Ahead(1) = "ERASE"
    BY <1>1, <1>3, <1>4 DEF Ahead
  <1>6. Pending = 1
    <2>1. 1 \notin 1 .. Pending - 1
      BY <1>2, <1>5 DEF Mutating
    <2> QED BY <1>4, <2>1 DEF Pending
  <1>7. Len(out) = 0 /\ Len(reports) = 1
    <2>1. Len(reports) + Len(out) = 1
      BY <1>6 DEF Pending
    <2>2. \A m, n \in Nat : n + m = 1 /\ n >= 1 => m = 0 /\ n = 1
      OBVIOUS
    <2> QED BY <1>4, <2>1, <2>2
  <1>8. out = <<>>
    BY <1>1, <1>7, QueueLengths
  <1> QED BY <1>1, <1>2, <1>3, <1>7, <1>8

\* With the head erased, the tool asks for units of the body, then for the head.
LEMMA BodyAsked ==
  ASSUME Typed, zone' = zone, zone[0] = Blank,
         \A i \in 1 .. Len(out) : out[i].op \in Mutating /\ out[i].unit # 0,
         NEW p \in {"erase", "write", "writeHead"}, NEW u, NEW k, Ask(p, u, k),
         p # "writeHead" => u # 0
  PROVE  HeadGone'
  <1> DEFINE c == Request(p, u, k)
  <1>1. c.op \in Mutating /\ c.unit = u
    BY Opcodes DEF Request, Mutating
  <1>2. pc' = p /\ out' \in {out, Append(out, c)}
    BY DEF Ask, Sent
  <1> HIDE DEF c
  <1>3. ASSUME NEW i \in 1 .. Len(out')
        PROVE  out'[i].op \in Mutating /\ (p # "writeHead" => out'[i].unit # 0)
    BY <1>1, <1>2, Lengthened
  <1> QED BY <1>2, <1>3 DEF HeadGone, Mutating

LEMMA NextDirtyAsks ==
  ASSUME Shape, pc # "idle", NEW u \in Block, NextDirty(u)
  PROVE  \E p \in {"erase", "writeHead"} : \E v, k : Ask(p, v, k) /\ (p # "writeHead" => v # 0)
  <1>1. u \in Nat /\ file \in Images
    BY Numbers DEF Block, Shape, Ranges
  <1>2. \A j \in Dirty(u) : j # 0
    BY <1>1, Numbers DEF Dirty, Units
  <1> QED BY <1>2 DEF NextDirty

LEMMA WriteGuards ==
  ASSUME Shape, GInv, link,
         \/ HeadErased \/ UnitErased \/ ChunkWritten("write") \/ UnitWritten
         \/ ChunkWritten("writeHead")
  PROVE  HeadGone'
  <1>1. Typed /\ unit \in Block /\ 0 \in Block /\ zone' = zone /\ pc # "idle"
    BY Numbers DEF Shape, Typed, HeadErased, UnitErased, ChunkWritten, UnitWritten, Reads, Rest
  <1>2. CASE HeadErased \/ UnitErased \/ ChunkWritten("write") \/ UnitWritten
    <2>1. zone[0] = Blank /\ \A i \in 1 .. Len(out) : out[i].op \in Mutating /\ out[i].unit # 0
      <3>1. CASE HeadErased
        <4>1. out = <<>> /\ zone[0] = Blank
          BY <3>1, HeadIsGone
        <4>2. Len(out) = 0
          BY <4>1
        <4> QED BY <4>1, <4>2
      <3>2. CASE UnitErased \/ ChunkWritten("write") \/ UnitWritten
        BY <3>2 DEF UnitErased, ChunkWritten, UnitWritten, Reads, GInv, HeadGone
      <3> QED BY <1>2, <3>1, <3>2
    <2>2. \E p \in {"erase", "write", "writeHead"} :
            \E v, k : Ask(p, v, k) /\ (p # "writeHead" => v # 0)
      <3>1. CASE HeadErased \/ UnitWritten
        BY <1>1, <3>1, NextDirtyAsks DEF HeadErased, UnitWritten
      <3>2. CASE UnitErased \/ ChunkWritten("write")
        <4>1. unit # 0
          BY <3>2, Numbers DEF UnitErased, ChunkWritten, Reads, Shape, Ranges
        <4> QED BY <3>2, <4>1 DEF UnitErased, ChunkWritten
      <3> QED BY <1>2, <3>1, <3>2
    <2> QED BY <1>1, <2>1, <2>2, BodyAsked
  <1>3. CASE ChunkWritten("writeHead")
    <2> DEFINE c == Request("writeHead", unit, chunk + 1)
    <2>1. pc = "writeHead" /\ pc' = "writeHead" /\ out' \in {out, Append(out, c)}
      BY <1>3 DEF ChunkWritten, Reads, Ask, Sent
    <2>2. c.op = "WRITE"
      BY Opcodes DEF Request
    <2> HIDE DEF c
    <2>3. ASSUME NEW i \in 1 .. Len(out') PROVE out'[i].op # "INIT"
      BY <1>1, <2>1, <2>2, Lengthened DEF GInv, HeadGone
    <2> QED BY <2>1, <2>3 DEF HeadGone
  <1> QED BY <1>2, <1>3

LEMMA StartGuards ==
  ASSUME Shape, GInv, StartSession
  PROVE  AfterInit' /\ BodyFirst'
  <1> DEFINE c == Request("init", 0, 0)
  <1>1. /\ Typed /\ link' /\ pc' = "init" /\ reports' = <<>> /\ zone' = zone
        /\ out' = IF Len(out) < 2 THEN Append(out, c) ELSE out
    BY DEF Shape, StartSession, Depth
  <1>2. c.op = "INIT"
    BY Opcodes DEF Request
  <1> HIDE DEF c
  <1>3. out \in Seq(Sendable) /\ Len(out) \in Nat /\ Len(out) <= 2
    BY <1>1, QueueLengths DEF Typed
  <1>4. BodyFirst'
    BY <1>1, <1>2, SentBodyFirst DEF GInv, Mutating
  <1>5. Pending' = Len(out') /\ Len(out') \in Nat /\ Len(out') <= 2
    <2>1. Len(out') \in Nat /\ Len(out') <= 2
      BY <1>1, <1>3
    <2> QED BY <1>1, <2>1 DEF Pending
  <1>6. Ahead(1)' = out'[1].op /\ Ahead(2)' = out'[2].op
    <2>1. Len(reports') = 0 /\ 1 - 0 = 1 /\ 2 - 0 = 2
      BY <1>1
    <2>2. \A i : Ahead(i)' = IF i <= 0 THEN reports'[i].op ELSE out'[i - 0].op
      BY <2>1 DEF Ahead
    <2> QED BY <2>1, <2>2
  <1>7. ASSUME Len(out') = 2, out'[1].op = "INIT" PROVE out'[2].op \notin Mutating
    BY <1>4, <1>7 DEF BodyFirst
  <1>8. AfterInit'
    BY <1>1, <1>5, <1>6, <1>7 DEF AfterInit
  <1> QED BY <1>4, <1>8

\* Only what sends a command needs an argument for the order of the commands.
LEMMA AskedBodyFirst ==
  ASSUME Shape, Shape', GInv, AfterHead', HeadGone', zone' = zone, link' = link,
         NEW p \in Steady, NEW u, NEW k, Ask(p, u, k)
  PROVE  BodyFirst'
  <1> DEFINE c == Request(p, u, k)
  <1>1. Typed /\ Typed' /\ pc' = p /\ unit' = u /\ out' = Sent(c) /\ c.op = Opcode(p) /\ c.unit = u
    BY DEF Shape, Ask, Request
  <1> HIDE DEF c
  <1>2. CASE ~link
    BY <1>1, <1>2 DEF Sent, GInv, BodyFirst, Mountable
  <1>3. CASE link
    <2>1. out' \in {out, Append(out, c)}
      BY <1>1 DEF Sent
    <2>2. CASE p \in {"fetch", "verify"}
      <3>1. c.op \notin Mutating
        BY <1>1, <2>2, Opcodes DEF Mutating
      <3> QED BY <1>1, <2>1, <3>1, SentBodyFirst DEF GInv
    <2>3. CASE p = "eraseHead"
      <3>1. u = 0
        BY <1>1, <2>3 DEF Shape, Ranges
      <3>2. ASSUME NEW i \in 1 .. Len(out') PROVE out'[i].op # "INIT"
        <4>1. (\E j \in 1 .. Pending' : Ahead(j)' = out'[i].op)
          <5>1. Len(reports') \in Nat /\ Len(out') \in Nat
            BY <1>1, Lengths DEF Typed
          <5>2. ~(Len(reports') + i <= Len(reports')) /\ (Len(reports') + i) - Len(reports') = i
            BY <5>1
          <5>3. Len(reports') + i \in 1 .. Pending'
            BY <5>1 DEF Pending
          <5>4. Ahead(Len(reports) + i)' = out'[i].op
            BY <5>2 DEF Ahead
          <5> QED BY <5>3, <5>4
        <4> QED BY <1>1, <1>3, <2>3, <4>1 DEF AfterHead
      <3> QED BY <1>1, <2>1, <3>1, <3>2, SentBodyFirst DEF GInv
    <2>4. CASE p \in {"erase", "write"}
      <3>1. /\ \A i \in 1 .. Len(out') : out'[i].op # "INIT" /\ out'[i].unit # 0
            /\ zone[0] = Blank
        BY <1>1, <1>3, <2>4 DEF HeadGone
      <3>2. ~Mountable(zone)
        BY <3>1, BlankUnmounted
      <3> QED BY <1>1, <2>1, <3>1, <3>2, SentBodyFirst DEF GInv
    <2>5. CASE p = "writeHead"
      <3>1. u = 0 /\ \A i \in 1 .. Len(out') : out'[i].op # "INIT"
        BY <1>1, <1>3, <2>5 DEF HeadGone, Shape, Ranges
      <3> QED BY <1>1, <2>1, <3>1, SentBodyFirst DEF GInv
    <2> QED BY <2>2, <2>3, <2>4, <2>5 DEF Steady
  <1> QED BY <1>2, <1>3

\* Nothing is claimed of a session without a device.
LEMMA UnlinkedGuards ==
  ASSUME ~link' \/ pc' \notin Steady \cup {"init"} PROVE AfterInit' /\ AfterFetch' /\ AfterHead' /\ HeadGone'
  BY DEF AfterInit, AfterFetch, AfterHead, HeadGone, Steady

LEMMA ToolGuards ==
  ASSUME Shape, Shape', GInv,
         \/ InitAnswered \/ BatchAnswered("fetch") \/ BatchAnswered("verify") \/ FetchDone
         \/ FetchFails \/ HeadErased \/ UnitErased \/ ChunkWritten("write") \/ UnitWritten
         \/ ChunkWritten("writeHead") \/ HeadWritten \/ Verified
  PROVE  AfterInit' /\ AfterFetch' /\ AfterHead' /\ HeadGone' /\ BodyFirst'
  <1>1. Rest /\ zone' = zone /\ link' = link
    BY ToolSteps DEF Rest
  <1>2. AfterInit' /\ AfterFetch' /\ AfterHead' /\ HeadGone'
    <2>1. SUFFICES ASSUME link PROVE AfterInit' /\ AfterFetch' /\ AfterHead' /\ HeadGone'
      BY <1>1, UnlinkedGuards
    <2>2. CASE InitAnswered \/ BatchAnswered("fetch")
      <3>1. AfterFetch'
        BY <2>1, <2>2, InitGuards, BatchGuards
      <3>2. pc' = "fetch"
        BY <2>2 DEF InitAnswered, BatchAnswered, Ask
      <3> QED BY <3>1, <3>2 DEF AfterInit, AfterHead, HeadGone
    <2>3. CASE FetchDone
      <3>1. pc' = "eraseHead" \/ pc' = "reboot"
        BY <2>3 DEF FetchDone, Ask, SayOk
      <3>2. pc' = "eraseHead" => AfterHead'
        BY <2>1, <2>3, FetchDoneGuards
      <3> QED BY <3>1, <3>2 DEF AfterInit, AfterFetch, AfterHead, HeadGone
    <2>4. CASE \/ HeadErased \/ UnitErased \/ ChunkWritten("write") \/ UnitWritten
               \/ ChunkWritten("writeHead")
      <3>1. HeadGone'
        BY <2>1, <2>4, WriteGuards
      <3>2. pc' \in {"erase", "write", "writeHead"}
        BY <2>4 DEF HeadErased, UnitErased, ChunkWritten, UnitWritten, NextDirty, Ask
      <3> QED BY <3>1, <3>2 DEF AfterInit, AfterFetch, AfterHead
    <2>5. CASE BatchAnswered("verify") \/ HeadWritten \/ FetchFails \/ Verified
      <3>1. pc' \in {"verify", "reboot", "unfetched"}
        BY <2>5 DEF BatchAnswered, HeadWritten, FetchFails, Verified, Ask, SayOk
      <3> QED BY <3>1 DEF AfterInit, AfterFetch, AfterHead, HeadGone
    <2> QED BY <2>2, <2>3, <2>4, <2>5
  <1>3. BodyFirst'
    <2>1. CASE out' = out
      BY <1>1, <2>1 DEF GInv, BodyFirst, Mountable
    <2>2. CASE \E p \in Steady : \E u, k : Ask(p, u, k)
      BY <1>1, <1>2, <2>2, AskedBodyFirst
    <2> QED BY <2>1, <2>2, ToolSteps
  <1> QED BY <1>2, <1>3

LEMMA SameGuards ==
  ASSUME GInv, usb' = usb, tool' = tool, zone' = zone
  PROVE  AfterInit' /\ AfterFetch' /\ AfterHead' /\ HeadGone' /\ BodyFirst'
  <1>1. /\ out' = out /\ reports' = reports /\ link' = link /\ pc' = pc /\ seen' = seen
        /\ Pending' = Pending
    BY DEF usb, tool, Pending
  <1>2. \A i : Ahead(i)' = Ahead(i)
    BY <1>1 DEF Ahead
  <1>3. AfterInit'
    BY <1>1, <1>2 DEF GInv, AfterInit
  <1>4. AfterFetch'
    BY <1>1, <1>2 DEF GInv, AfterFetch
  <1>5. AfterHead'
    BY <1>1, <1>2 DEF GInv, AfterHead
  <1>6. HeadGone' /\ BodyFirst'
    BY <1>1 DEF GInv, HeadGone, BodyFirst, Mountable
  <1> QED BY <1>3, <1>4, <1>5, <1>6

LEMMA GInvNext == ASSUME ~SilentFaults, Shape, GInv, [Next]_vars PROVE GInv'
  <1>1. Shape' /\ Linked'
    BY ShapeNext, LinkedNext DEF GInv
  <1>2. AfterInit' /\ AfterFetch' /\ AfterHead' /\ HeadGone' /\ BodyFirst'
    <2>1. CASE DeviceInit \/ FlashCrc \/ Mutate \/ MutateFails \/ MutateLies
      <3>1. BodyFirst'
        BY <2>1, ExecutedBodyFirst DEF GInv
      <3>2. CASE link
        BY <2>1, <3>1, <3>2, ExecutedGuards
      <3>3. CASE ~link
        <4>1. ~link'
          BY <2>1, <3>3, Executions DEF Answer
        <4> QED BY <3>1, <4>1, UnlinkedGuards
      <3> QED BY <3>2, <3>3
    <2>2. CASE Reboot \/ BootFails \/ PowerCut
      <3>1. ~link' /\ out' = <<>>
        BY <2>2 DEF Reboot, BootFails, PowerCut, Disappears
      <3> QED BY <3>1, UnlinkedGuards DEF BodyFirst
    <2>3. CASE PowerOn \/ EnterUpdate \/ UNCHANGED vars
      BY <2>3, SameGuards DEF PowerOn, EnterUpdate, vars, usb, tool
    <2>4. CASE StartSession
      <3>1. pc' = "init"
        BY <2>4 DEF StartSession
      <3> QED BY <2>4, <3>1, StartGuards DEF AfterFetch, AfterHead, HeadGone
    <2>5. CASE InitFails \/ VerifyFails \/ BadAnswer \/ Abandon
      <3>1. ~link' /\ out' = out /\ zone' = zone
        BY <2>5, Ends DEF End, Leave
      <3> QED BY <3>1, UnlinkedGuards DEF GInv, BodyFirst, Mountable
    <2>6. CASE RebootSent
      <3> DEFINE c == Request(pc, 0, 0)
      <3>1. ~link' /\ out' \in {out, Append(out, c)} /\ zone' = zone
        BY <2>6 DEF RebootSent, Leave, Sent
      <3>2. c.op = "REBOOT"
        BY <2>6, Opcodes DEF RebootSent, Request
      <3> HIDE DEF c
      <3>3. BodyFirst'
        BY <3>1, <3>2, SentBodyFirst DEF GInv, Shape, Mutating
      <3> QED BY <3>1, <3>3, UnlinkedGuards
    <2>7. CASE \/ InitAnswered \/ BatchAnswered("fetch") \/ BatchAnswered("verify") \/ FetchDone
               \/ FetchFails \/ HeadErased \/ UnitErased \/ ChunkWritten("write") \/ UnitWritten
               \/ ChunkWritten("writeHead") \/ HeadWritten \/ Verified
      BY <1>1, <2>7, ToolGuards
    <2> QED
      BY <2>1, <2>2, <2>3, <2>4, <2>5, <2>6, <2>7
      DEF Next, Device, Tool, User, Fault
  <1> QED BY <1>1, <1>2 DEF GInv

\* What is ahead of a tool that takes whatever report comes for its answer: commands of
\* earlier sessions, its own late ones, in the order in which they were sent.
THEOREM HidGuards == ASSUME ~SilentFaults PROVE Spec => [](Shape /\ GInv)
  <1>1. Init => Shape /\ GInv
    <2> SUFFICES ASSUME Init PROVE GInv
      BY ShapeInit
    <2>1. ~link /\ out = <<>> /\ reports = <<>>
      BY DEF Init
    <2> QED BY <2>1 DEF GInv, Linked, BodyFirst, AfterInit, AfterFetch, AfterHead, HeadGone
  <1>2. Shape /\ GInv /\ [Next]_vars => (Shape /\ GInv)'
    BY ShapeNext, GInvNext
  <1> QED BY <1>1, <1>2, PTL DEF Spec

BodyGuarded == \A b \in Block \ {0} : (zone'[b] # zone[b] => ~Mountable(zone))

LEMMA BodyGuardedStep == ASSUME Shape, GInv, [Next]_vars PROVE BodyGuarded
  <1> SUFFICES ASSUME NEW b \in Block \ {0}, zone'[b] # zone[b] PROVE ~Mountable(zone)
    BY DEF BodyGuarded
  <1>1. zone' # zone
    OBVIOUS
  <1>2. /\ Cmd = out[1] /\ 1 \in 1 .. Len(out) /\ Cmd.op \in Mutating
        /\ \E w : zone' = [zone EXCEPT ![Cmd.unit] = w]
    BY <1>1, ZoneStep
  <1>3. Cmd.unit = b
    BY <1>1, <1>2 DEF Shape, Typed
  <1> QED BY <1>2, <1>3 DEF GInv, BodyFirst

\* A zone that mounts, and that the device therefore boots, is changed in its first unit
\* alone, whatever earlier sessions left in the device, however late the answers come, in
\* which order the chunks of the head are written and wherever power is lost (the head is
\* erased first in main() of win-usb_hid and in doUpdate of jl_bootloader.cpp).
THEOREM HidHeadGuardsBody == ASSUME ~SilentFaults PROVE Spec => HeadGuardsBody
  <1>1. Shape /\ GInv /\ [Next]_vars => [BodyGuarded]_vars
    BY BodyGuardedStep
  <1>2. Spec => [][BodyGuarded]_vars
    BY <1>1, HidGuards, PTL DEF Spec
  <1> QED BY <1>2 DEF HeadGuardsBody, BodyGuarded

----------------------------------------------------------------------------
(* The invariant of a tool that writes *)

LEMMA WInvInit == Init => WInv
  <1> SUFFICES ASSUME Init PROVE WInv
    OBVIOUS
  <1>1. ~link /\ out = <<>>
    BY DEF Init
  <1>2. Lists /\ Honest
    BY <1>1 DEF Lists, Alone, Honest, Erasures, Writes, Settled
  <1> QED BY <1>2, ShapeInit, LockstepInit DEF WInv

LEMMA WInvNext == ASSUME ~SlowReplies, ~SilentFaults, WInv, [Next]_vars PROVE WInv'
  <1>1. Shape /\ Lockstep /\ Lists /\ Honest
    BY DEF WInv
  <1>2. Shape'
    BY <1>1, ShapeNext
  <1>3. Lockstep'
    BY <1>1, LockstepNext
  <1>4. Lists'
    BY <1>1, ListsNext
  <1>5. Honest'
    BY <1>1, <1>3, HonestNext
  <1> QED BY <1>2, <1>3, <1>4, <1>5 DEF WInv

\* What the zone is while a tool writes, and which commands an earlier session may have
\* left for it
THEOREM HidWrites == ASSUME ~SlowReplies, ~SilentFaults PROVE Spec => []WInv
  <1>1. Init => WInv
    BY WInvInit
  <1>2. WInv /\ [Next]_vars => WInv'
    BY WInvNext
  <1> QED BY <1>1, <1>2, PTL DEF Spec

BlankFirst == link /\ pc = "erase" /\ pc' = "write" => zone[unit] = Blank

LEMMA BlankFirstStep == ASSUME ~SlowReplies, WInv, [Next]_vars PROVE BlankFirst
  <1> SUFFICES ASSUME link, pc = "erase", pc' = "write" PROVE zone[unit] = Blank
    BY DEF BlankFirst
  <1>1. UnitErased
    <2>1. ~(Device \/ MutateFails \/ MutateLies \/ BootFails \/ PowerCut \/ EnterUpdate \/ UNCHANGED vars)
      BY DEF Device, DeviceInit, FlashCrc, Mutate, MutateFails, MutateLies, Reboot, BootFails, PowerOn,
             PowerCut, EnterUpdate, Answer, tool, vars
    <2>2. ~(InitFails \/ VerifyFails \/ BadAnswer \/ Abandon \/ RebootSent \/ StartSession)
      BY Ends DEF End, Leave, RebootSent, StartSession
    <2>3. ~(\/ InitAnswered \/ BatchAnswered("fetch") \/ BatchAnswered("verify") \/ FetchDone
            \/ FetchFails \/ HeadErased \/ Verified \/ ChunkWritten("write") \/ UnitWritten
            \/ ChunkWritten("writeHead") \/ HeadWritten)
      BY DEF InitAnswered, BatchAnswered, FetchDone, FetchFails, HeadErased, Verified,
             ChunkWritten, UnitWritten, HeadWritten, Reads
    <2> QED BY <2>1, <2>2, <2>3 DEF Next, Tool, User, Fault
  <1>2. Read /\ Good("ERASE")
    BY <1>1 DEF UnitErased, Reads
  <1>3. Believed
    BY <1>2, Accepted DEF WInv, Believed
  <1> QED BY <1>3 DEF WInv, Honest, Erasures

\* The tool writes only to what was erased (writeFlash after eraseFlash in main()).
THEOREM HidErasedBeforeWrite ==
  ASSUME ~SlowReplies, ~SilentFaults PROVE Spec => ErasedBeforeWrite
  <1>1. WInv /\ [Next]_vars => [BlankFirst]_vars
    BY BlankFirstStep
  <1>2. Spec => [][BlankFirst]_vars
    BY <1>1, HidWrites, PTL DEF Spec
  <1> QED BY <1>2 DEF ErasedBeforeWrite, BlankFirst

----------------------------------------------------------------------------
(* A zone that mounts holds an image, if the head chunk is the last one. *)

\* The chunks of the first unit, and the head after them
LEMMA HeadChunkSafe ==
  ASSUME HeadLast, NEW z \in [Block -> UnitData], NEW f \in Images, NEW k \in Chunk,
         \A j \in 1 .. k - 1 : z[0][HeadOrder[j]] = f.unit[0][HeadOrder[j]],
         \A j \in k .. Chunks : z[0][HeadOrder[j]] = Erased
  PROVE  /\ z[0][1] = Erased
         /\ HeadOrder[k] = 1 => [z[0] EXCEPT ![1] = f.unit[0][1]] = f.unit[0]
  <1>1. Chunks \in Chunk /\ 0 \in Block /\ k \in Nat /\ k <= Chunks
    BY Numbers DEF Chunk
  <1>2. HeadOrder[Chunks] = 1 /\ Chunks \in k .. Chunks
    BY <1>1, Numbers DEF HeadLast
  <1>3. z[0][1] = Erased
    BY <1>2
  <1>4. ASSUME HeadOrder[k] = 1 PROVE [z[0] EXCEPT ![1] = f.unit[0][1]] = f.unit[0]
    <2>1. k = Chunks
      BY <1>4 DEF HeadLast
    <2>2. z[0] \in [Chunk -> Content] /\ f.unit[0] \in [Chunk -> Content]
      BY <1>1, Numbers DEF UnitData
    <2>3. ASSUME NEW c \in Chunk, c # 1 PROVE z[0][c] = f.unit[0][c]
      <3>1. PICK j \in Chunk : HeadOrder[j] = c
        BY OrderAssumption
      <3>2. j # Chunks
        BY <2>3, <3>1 DEF HeadLast
      <3>3. j \in 1 .. k - 1
        BY <2>1, <3>2, Numbers DEF Chunk
      <3> QED BY <3>1, <3>3
    <2> QED BY <2>2, <2>3, Numbers
  <1> QED BY <1>3, <1>4

LEMMA HeadSafeNext ==
  ASSUME HeadLast, Shape, Shape', Lockstep, Lockstep', [Next]_vars, HeadSafe, Honest'
  PROVE  HeadSafe'
  <1> SUFFICES ASSUME NEW i \in 1 .. Len(out'), out'[i].op \in Mutating
               PROVE  Safe(out[i])'
    BY DEF HeadSafe
  <1>1. zone' = zone
    BY OutStep
  <1>2. CASE \E j \in 1 .. Len(out) : out'[i] = out[j]
    <2>1. PICK j \in 1 .. Len(out) : out'[i] = out[j]
      BY <1>2
    <2>2. Safe(out[j])
      BY <2>1 DEF HeadSafe
    <2> QED BY <1>1, <2>1, <2>2 DEF Safe, Mountable, Same
  <1>3. CASE link' /\ pc' \in Writing /\ out'[i] = Request(pc', unit', chunk') /\ file' = file
    <2> DEFINE c == out'[i]
    <2>1. c.unit = unit' /\ c.op = Opcode(pc')
      BY <1>3 DEF Request
    <2>2. CASE pc' = "eraseHead"
      <3>1. c.unit = 0 /\ c.op = "ERASE"
        BY <2>1, <2>2, Opcodes DEF Shape, Ranges
      <3> HIDE DEF c
      <3> QED BY <3>1 DEF Safe, c
    <2>3. CASE pc' \in {"erase", "write"}
      <3>1. c.unit # 0
        BY <2>1, <2>3, Numbers DEF Shape, Ranges
      <3>2. ~Mountable(zone')
        BY <1>3, <2>3, BlankUnmounted DEF Honest, Erasures
      <3> HIDE DEF c
      <3> QED BY <3>1, <3>2 DEF Safe, c, Mountable
    <2>4. CASE pc' = "writeHead"
      <3>1. /\ unit' = 0 /\ chunk' \in Chunk /\ file' \in Images
            /\ zone' \in [Block -> UnitData]
        BY <2>4 DEF Shape, Typed, Ranges
      <3>2. /\ c.chunk = HeadOrder[chunk'] /\ c.data = file'.unit[0][HeadOrder[chunk']]
            /\ c.unit = 0
        BY <1>3, <2>4, <3>1 DEF Request, ChunkOf, HeadChunk
      <3>3. reports' = <<>>
        <4>1. Len(reports') + Len(out') = 1
          BY <1>3, <2>4 DEF Lockstep, Counted, Pending
        <4>2. /\ reports' \in Seq(Report) /\ Len(reports') \in Nat
              /\ (reports' = <<>> <=> Len(reports') = 0)
          BY Lengths DEF Shape, Typed
        <4>3. Len(out') \in Nat /\ Len(out') # 0
          BY Lengths DEF Shape, Typed
        <4> QED BY <4>1, <4>2, <4>3, Small
      <3>4. Filled(unit, chunk)'
        BY <1>3, <2>4 DEF Honest, Writes
      <3>5. \A j \in 1 .. chunk' - 1 : zone'[0][HeadOrder[j]] = file'.unit[0][HeadOrder[j]]
        BY <3>1, <3>4 DEF Filled, ChunkOf, HeadChunk
      <3>6. \A j \in chunk' + 1 .. Chunks : zone'[0][HeadOrder[j]] = Erased
        BY <3>1, <3>4 DEF Filled, ChunkOf, HeadChunk
      <3>7. zone'[0][HeadOrder[chunk']] = Erased
        BY <3>1, <3>3, <3>4 DEF Filled, ChunkOf, HeadChunk
      <3>8. \A j \in chunk' .. Chunks : zone'[0][HeadOrder[j]] = Erased
        <4>1. \A j \in chunk' .. Chunks : j = chunk' \/ j \in chunk' + 1 .. Chunks
          BY <3>1, Numbers DEF Chunk
        <4> QED BY <3>6, <3>7, <4>1
      <3>9. /\ zone'[0][1] = Erased
            /\ HeadOrder[chunk'] = 1 =>
                 [zone'[0] EXCEPT ![1] = file'.unit[0][1]] = file'.unit[0]
        BY <3>1, <3>5, <3>8, HeadChunkSafe
      <3>10. ~Mountable(zone')
        BY <3>9, CellAssumption DEF Mountable
      <3>11. \A b \in 1 .. file'.len - 1 : Same(zone', file', b)
        <4>1. \A b \in 1 .. file'.len - 1 : b \in Units' /\ 0 < b
          BY <3>1, Numbers DEF Units
        <4>2. \A b \in Units' : 0 < b => Same(zone', file', b)
          BY <1>3, <2>4 DEF Honest, Settled, Same
        <4> QED BY <4>1, <4>2
      <3> HIDE DEF c
      <3>12. c.chunk = 1 =>
               /\ [zone'[0] EXCEPT ![1] = c.data] = file'.unit[0]
               /\ zone'[0][1] = Erased
               /\ \A b \in 1 .. file'.len - 1 : Same(zone', file', b)
        BY <3>2, <3>9, <3>11
      <3> QED BY <3>1, <3>2, <3>10, <3>12 DEF Safe, c, Mountable, Same
    <2> QED BY <1>3, <2>2, <2>3, <2>4 DEF Writing
  <1> QED BY <1>2, <1>3, OutStep

\* What a safe command leaves, complete or cut, boots complete.
LEMMA SafeBoots ==
  ASSUME Shape, HeadSafe, BootsComplete, [Next]_vars PROVE BootsComplete'
  <1> SUFFICES ASSUME Mountable(zone') PROVE \E img \in Images : Matches(img)'
    BY DEF BootsComplete
  <1>1. CASE zone' = zone
    BY <1>1 DEF BootsComplete, Mountable, Matches
  <1>2. CASE zone' # zone
    <2>1. /\ Cmd = out[1] /\ 1 \in 1 .. Len(out) /\ Cmd \in Sendable
          /\ Cmd.op \in Mutating /\ Cmd.unit \in Block
      BY <1>2, ZoneStep
    <2>2. PICK w \in {After, Halfway, zone[Cmd.unit]} : zone' = [zone EXCEPT ![Cmd.unit] = w]
      BY <1>2, ZoneStep
    <2>3. Safe(Cmd)
      BY <2>1 DEF HeadSafe
    <2>4. zone \in [Block -> UnitData] /\ 0 \in Block
      BY Numbers DEF Shape, Typed
    <2>5. Mountable(zone) /\ Cmd.unit # 0 => FALSE
      BY <2>3 DEF Safe
    <2>6. Cmd.unit = 0
      <3>1. Cmd.unit # 0 => zone'[0] = zone[0]
        BY <2>2, <2>4
      <3> QED BY <2>5, <3>1 DEF Mountable
    <2>7. zone'[0] = w /\ zone[0] \in UnitData
      BY <2>2, <2>4, <2>6
    <2>8. w # zone[0]
      BY <1>2, <2>2, <2>4, <2>6
    <2>9. Cmd.op = "WRITE"
      <3>1. CASE Cmd.op = "ERASE"
        <4>1. w = Blank \/ w = [c \in Chunk |-> Torn]
          BY <2>6, <2>8, <3>1 DEF After, Halfway
        <4>2. w[1] \notin Heads
          BY <4>1, Numbers, CellAssumption DEF Blank
        <4> QED BY <2>7, <4>2 DEF Mountable
      <3> QED BY <2>1, <3>1 DEF Mutating
    <2>10. /\ After = [zone[0] EXCEPT ![Cmd.chunk] = Programmed(zone[0][Cmd.chunk], Cmd.data)]
           /\ Halfway = [zone[0] EXCEPT ![Cmd.chunk] = Torn]
           /\ Cmd.chunk \in Chunk
      BY <2>1, <2>4, <2>6, <2>7, <2>9 DEF After, Halfway, Sendable, UnitData
    <2>11. Cmd.chunk = 1
      <3>1. Cmd.chunk # 1 => w[1] = zone[0][1]
        BY <2>6, <2>7, <2>10, Numbers DEF UnitData
      <3>2. Cmd.chunk # 1 => ~Mountable(zone)
        BY <2>3, <2>6, <2>9 DEF Safe
      <3> QED BY <2>7, <3>1, <3>2 DEF Mountable
    <2>12. PICK img \in Images :
             /\ [zone[0] EXCEPT ![1] = Cmd.data] = img.unit[0]
             /\ zone[0][1] = Erased
             /\ \A b \in 1 .. img.len - 1 : Same(zone, img, b)
      BY <2>3, <2>6, <2>9, <2>11 DEF Safe
    <2>13. w = After
      <3>1. Halfway[1] = Torn
        BY <2>7, <2>10, <2>11, Numbers DEF UnitData
      <3>2. w # Halfway
        BY <2>7, <3>1, CellAssumption DEF Mountable
      <3> QED BY <2>2, <2>6, <2>8, <3>2
    <2>14. Programmed(zone[0][1], Cmd.data) = Cmd.data
      BY <2>12 DEF Programmed
    <2>15. zone'[0] = img.unit[0]
      BY <2>7, <2>10, <2>11, <2>12, <2>13, <2>14
    <2>16. img.len \in 1 .. N
      BY Numbers
    <2>17. \A b \in 1 .. img.len - 1 : b \in Block /\ b # 0
      BY <2>16, Numbers DEF Block
    <2>18. \A b \in 1 .. img.len - 1 : Crc[zone'[b]] = Crc[img.unit[b]]
      BY <2>2, <2>4, <2>6, <2>12, <2>17 DEF Same
    <2>19. \A b \in 0 .. img.len - 1 : b = 0 \/ b \in 1 .. img.len - 1
      BY <2>16, Numbers
    <2>20. \A b \in 0 .. img.len - 1 : Crc[zone'[b]] = Crc[img.unit[b]]
      BY <2>15, <2>18, <2>19
    <2> QED BY <2>16, <2>20, Numbers DEF Matches
  <1> QED BY <1>1, <1>2

LEMMA FactoryBoots == Init => BootsComplete
  <1> SUFFICES ASSUME Init, Mountable(zone) PROVE \E img \in Images : Matches(img)
    BY DEF BootsComplete
  <1>1. PICK img \in Images \cup {NoFile} : zone = Factory(img)
    BY DEF Init
  <1>2. 0 \in Block
    BY Numbers
  <1>3. CASE img = NoFile
    <2>1. zone[0] = Blank
      BY <1>1, <1>2, <1>3 DEF Factory, NoFile
    <2> QED BY <2>1, BlankUnmounted
  <1>4. CASE img \in Images
    <2>1. img.len \in 1 .. N
      BY <1>4, Numbers
    <2>2. \A b \in 0 .. img.len - 1 : b \in Block /\ b < img.len
      BY <2>1, Numbers DEF Block
    <2>3. \A b \in 0 .. img.len - 1 : zone[b] = img.unit[b]
      BY <1>1, <2>2 DEF Factory
    <2> QED BY <1>4, <2>1, <2>3, Numbers DEF Matches
  <1> QED BY <1>1, <1>3, <1>4

HInv == WInv /\ HeadSafe /\ BootsComplete

LEMMA HInvHolds ==
  ASSUME ~SlowReplies, ~SilentFaults, HeadLast PROVE Spec => []HInv
  <1>1. Init => HInv
    <2>1. Init => HeadSafe
      BY DEF Init, HeadSafe
    <2> QED BY <2>1, WInvInit, FactoryBoots DEF HInv
  <1>2. HInv /\ [Next]_vars => HInv'
    <2> SUFFICES ASSUME WInv, HeadSafe, BootsComplete, [Next]_vars PROVE HInv'
      BY DEF HInv
    <2>1. WInv'
      BY WInvNext
    <2>2. Shape /\ Shape' /\ Lockstep /\ Lockstep' /\ Honest'
      BY <2>1 DEF WInv
    <2>3. HeadSafe'
      BY <2>2, HeadSafeNext
    <2>4. BootsComplete'
      BY <2>2, SafeBoots
    <2> QED BY <2>1, <2>3, <2>4 DEF HInv
  <1> QED BY <1>1, <1>2, PTL DEF Spec

\* A zone that mounts, and that main() therefore boots, holds an image, for every cut of
\* power, failed operation and abandoned session: win-usb_hid writes the first 32 bytes,
\* which alone make a zone mount, last.
THEOREM HidBootsComplete ==
  ASSUME ~SlowReplies, ~SilentFaults, HeadLast PROVE Spec => []BootsComplete
  <1>1. HInv => BootsComplete
    BY DEF HInv
  <1> QED BY <1>1, HInvHolds, PTL

----------------------------------------------------------------------------
(* The refinement of AtomicInstall *)

\* A step that changes a zone that mounts makes it one that does not: there is no way
\* from one image to another but through nothing.
LEMMA ThroughNothing ==
  ASSUME HInv, [Next]_vars, zone' # zone PROVE ~(Mountable(zone) /\ Mountable(zone'))
  <1> SUFFICES ASSUME Mountable(zone), Mountable(zone') PROVE FALSE
    OBVIOUS
  <1>1. Shape /\ HeadSafe
    BY DEF HInv, WInv
  <1>2. /\ Cmd = out[1] /\ 1 \in 1 .. Len(out) /\ Cmd \in Sendable
        /\ Cmd.op \in Mutating /\ Cmd.unit \in Block
    BY <1>1, ZoneStep
  <1>3. PICK w \in {After, Halfway, zone[Cmd.unit]} : zone' = [zone EXCEPT ![Cmd.unit] = w]
    BY <1>1, ZoneStep
  <1>4. Safe(Cmd)
    BY <1>1, <1>2 DEF HeadSafe
  <1>5. Cmd.unit = 0
    BY <1>4 DEF Safe
  <1>6. Cmd.op = "WRITE" => Cmd.chunk = 1 /\ zone[0][1] = Erased
    BY <1>4, <1>5 DEF Safe
  <1>7. Cmd.op = "ERASE"
    BY <1>2, <1>6, CellAssumption DEF Mountable, Mutating
  <1>8. zone'[0] = w /\ w # zone[0]
    BY <1>1, <1>2, <1>3, <1>5 DEF Shape, Typed
  <1>9. w[1] \notin Heads
    BY <1>3, <1>5, <1>7, <1>8, Numbers, CellAssumption DEF After, Halfway, Blank
  <1> QED BY <1>8, <1>9 DEF Mountable

LEMMA RefinesInit == Init => Abstract!Init
  <1> SUFFICES ASSUME Init PROVE Booted \in Images \cup {NoFile}
    BY DEF Abstract!Init
  <1> QED BY FactoryBoots DEF Booted, BootsComplete

LEMMA RefinesNext ==
  ASSUME HInv, HInv', [Next]_vars
  PROVE  [Abstract!Next]_<<Booted, NoFile>>
  <1>1. CASE zone' = zone
    BY <1>1 DEF Booted, BootsComplete, Mountable, Matches
  <1>2. CASE zone' # zone /\ ~Mountable(zone')
    <2>1. Booted' = NoFile
      BY <1>2 DEF Booted
    <2> QED BY <2>1 DEF Abstract!Next, Abstract!Invalidate
  <1>3. CASE zone' # zone /\ Mountable(zone')
    <2>1. Booted = NoFile
      BY <1>3, ThroughNothing DEF Booted
    <2>2. BootsComplete'
      BY DEF HInv
    <2>3. Booted' \in Images
      BY <1>3, <2>2 DEF Booted, BootsComplete
    <2> QED BY <2>1, <2>3 DEF Abstract!Next, Abstract!Install
  <1> QED BY <1>1, <1>2, <1>3

\* Every step of the Windows tool, the device, the bus and the power is, seen from the next
\* reset, a step of AtomicInstall or none: from an image to nothing, or from nothing to
\* an image (main() of win-usb_hid, upgrade_loop, main() of the loader).
THEOREM HidImplements ==
  ASSUME ~SlowReplies, ~SilentFaults, HeadLast PROVE Spec => ImplementsAtomicInstall
  <1>1. HInv /\ HInv' /\ [Next]_vars => [Abstract!Next]_<<Booted, NoFile>>
    BY RefinesNext
  <1> QED BY <1>1, RefinesInit, HInvHolds, PTL DEF Spec, ImplementsAtomicInstall, Abstract!Spec
=============================================================================
