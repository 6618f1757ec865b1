--------------------------- MODULE SessionProofs ---------------------------
(***************************************************************************)
(* Proofs about the life of the dataflash image, for every size, every set *)
(* of block contents and any number of sessions.                           *)
(***************************************************************************)
EXTENDS SessionHistory, FlashSession, SequenceTheorems, TLAPS

hall == <<vars, hvars>>

-----------------------------------------------------------------------------
(* Type correctness                                                        *)

\* What the sequence operators do to a file.
LEMMA FileIsSeq ==
  ASSUME NEW n \in Nat, NEW f \in [1 .. n -> Block]
  PROVE  f \in Seq(Block) /\ Len(f) = n
  BY SeqDef, SMT

LEMMA NewImageTyped == NewImage \in Buffer
  BY BlockAssumption DEF NewImage, Buffer

LEMMA FilledTyped ==
  ASSUME TypeOK, NEW n \in Readable
  PROVE  Filled(n) \in Buffer
  <1>1. PICK m \in Nat : file \in [1 .. m -> Block]
    BY SeqDef DEF TypeOK
  <1>2. Len(file) = m
    BY <1>1, FileIsSeq
  <1>3. \A i \in 1 .. Size : i <= n => file[i] \in Block
    BY <1>1, <1>2, SizeAssumption, SMT DEF Readable
  <1>4. \A i \in 1 .. Size : (IF i <= n THEN file[i] ELSE Zeros[i]) \in Block
    BY <1>3, BlockAssumption
  <1> QED BY <1>4 DEF Filled, Buffer

\* One block more on disk.
LEMMA WriteGrows ==
  ASSUME TypeOK, WriteBlock
  PROVE  /\ written' \in 0 .. Size
         /\ file' = [i \in 1 .. written' |-> df[i]]
         /\ file' \in Seq(Block)
  <1> DEFINE f == [i \in 1 .. written |-> df[i]]
             g == [i \in 1 .. written + 1 |-> df[i]]
             e == df[written + 1]
             h == Append(f, e)
  <1>1. /\ file = f /\ file' = h
        /\ written' = written + 1 /\ written < Size
    BY DEF TypeOK, WriteBlock
  <1>2. written \in Nat /\ written + 1 \in 1 .. Size /\ Size \in Nat
    BY <1>1, SizeAssumption, SMT DEF TypeOK
  <1>3. \A i \in 1 .. Size : df[i] \in Block
    BY DEF TypeOK, Buffer
  <1>4. f \in [1 .. written -> Block] /\ g \in [1 .. written + 1 -> Block]
    BY <1>2, <1>3, SMT
  <1>5. /\ \A i \in 1 .. written : f[i] = g[i]
        /\ e \in Block /\ g[written + 1] = e
    BY <1>2, <1>3
  <1> HIDE DEF f, g, e
  <1>6. f \in Seq(Block) /\ Len(f) = written /\ g \in Seq(Block) /\ Len(g) = written + 1
    BY <1>2, <1>4, FileIsSeq
  <1>7. /\ h \in Seq(Block) /\ Len(h) = Len(f) + 1
        /\ \A i \in 1 .. Len(f) : h[i] = f[i]
        /\ h[Len(f) + 1] = e
    BY <1>5, <1>6, AppendProperties
  <1> HIDE DEF h
  <1>8. \A i \in 1 .. Len(h) : h[i] = g[i]
    BY <1>2, <1>5, <1>6, <1>7, SMT
  <1>9. Len(h) = Len(g)
    BY <1>6, <1>7
  <1>10. h = g
    BY <1>6, <1>7, <1>8, <1>9, SeqEqual, Zenon
  <1>11. written' = written + 1 /\ written' \in 0 .. Size /\ file' = g
    BY <1>1, <1>2, <1>10, SMT
  <1> QED BY <1>6, <1>11 DEF g

LEMMA TypeInit == Init => TypeOK
  <1> SUFFICES ASSUME Init PROVE TypeOK
    OBVIOUS
  <1>1. df \in Buffer
    BY BlockAssumption DEF Init, Buffer
  <1>2. written \in 0 .. Size /\ sessions \in 0 .. MaxSessions
    BY SizeAssumption, SessionsAssumption, SMT DEF Init
  <1> QED BY <1>1, <1>2 DEF Init, TypeOK

LEMMA TypeStep == TypeOK /\ [Next]_vars => TypeOK'
  <1> SUFFICES ASSUME TypeOK, [Next]_vars PROVE TypeOK'
    OBVIOUS
  <1>1. CASE Start
    <2>1. sessions' \in 0 .. MaxSessions
      BY <1>1, SessionsAssumption, SMT DEF Start, TypeOK
    <2> QED BY <1>1, <2>1 DEF Start, TypeOK
  <1>2. CASE InitFails \/ InitGoesOn \/ Unlock \/ SaveFails \/ Killed \/ Close
    BY <1>2 DEF InitFails, InitGoesOn, Unlock, SaveFails, Killed, Close, TypeOK
  <1>3. ASSUME NEW n \in 0 .. Size, df_init(n) PROVE TypeOK'
    <2>1. df' \in Buffer
      BY <1>3, NewImageTyped, FilledTyped DEF df_init
    <2> QED BY <1>3, <2>1 DEF df_init, Lock, TypeOK
  <1>4. ASSUME NEW i \in 1 .. Size, NEW b \in Block, Change(i, b) PROVE TypeOK'
    BY <1>4 DEF Change, TypeOK, Buffer
  <1>5. CASE Quit
    BY <1>5 DEF Quit, TypeOK
  <1>6. CASE OpenForWriting
    <2>1. file' = << >> /\ written' = 0 /\ UNCHANGED <<df, locked, save, status, sessions>>
          /\ pc' = "write"
      BY <1>6 DEF OpenForWriting
    <2>2. 0 \in 0 .. Size /\ 1 .. 0 = {}
      BY SizeAssumption, SMT
    <2>3. file' = [i \in 1 .. 0 |-> df[i]] /\ file' \in Seq(Block)
      BY <2>1, <2>2
    <2> QED BY <2>1, <2>2, <2>3 DEF TypeOK
  <1>7. CASE WriteBlock
    <2>1. pc' = "write" /\ UNCHANGED <<df, locked, save, status, sessions>>
      BY <1>7 DEF WriteBlock
    <2> QED BY <1>7, <2>1, WriteGrows DEF TypeOK
  <1>8. CASE UNCHANGED vars
    BY <1>8 DEF vars, TypeOK
  <1>9. CASE EraseChip
    <2>1. df' \in Buffer
      BY <1>9, BlockAssumption DEF EraseChip, Buffer
    <2> QED BY <1>9, <2>1 DEF EraseChip, TypeOK
  <1> QED BY <1>1, <1>2, <1>3, <1>4, <1>5, <1>6, <1>7, <1>8, <1>9 DEF Next, Finished

(* Every variable keeps its type; what has been written is what is on disk. *)
THEOREM TypeCorrect == Spec => []TypeOK
  BY TypeInit, TypeStep, PTL DEF Spec

-----------------------------------------------------------------------------
(* The saved image                                                         *)

\* Outside a rewrite, and unless something failed inside one, the file is the
\* saved image.
FileOK == ~faulty /\ pc # "write" => file = kept

\* The file is what the session found; only a session that saves rewrites it.
OpenedOK ==
  /\ pc \in {"save", "write"} => save
  /\ pc \in {"init", "load", "run", "save"} => file = opened

\* A session starts locked, with nothing changed; unlocking comes first.
LockOK ==
  /\ unlocked \in BOOLEAN
  /\ pc \in {"init", "load"} => ~unlocked /\ blessed = {}
  /\ pc = "run" /\ ~unlocked => locked /\ blessed = {}

\* What the chip holds is the image but for the blocks changed.
ChipOK ==
  pc = "run" /\ ~faulty =>
    \A i \in 1 .. Size : i \in blessed \/ df[i] = Presented(kept)[i]

Inv == TypeOK /\ FileOK /\ OpenedOK /\ LockOK /\ ChipOK

LEMMA HistoryOnly == [HNext]_hall => [Next]_vars
  BY DEF hall, vars, HNext, HStart, HLoad, HUnlock, HChange, HErase, HSaved, HFailed, HOther, Next

\* A load without an error gives the chip the image as it is presented.
LEMMA LoadPresents ==
  ASSUME TypeOK, NEW n, df_init(n), \A m \in Readable : m <= n
  PROVE  df' = Presented(file)
  <1>1. PICK m \in Nat : file \in [1 .. m -> Block]
    BY SeqDef DEF TypeOK
  <1>2. Len(file) = m /\ m \in Nat /\ file \in Seq(Block)
    BY <1>1, FileIsSeq
  <1>3. n \in 0 .. Size /\ n <= Len(file) /\ (n = Len(file) \/ n = Size)
    <2>1. n \in 0 .. Size /\ n <= Len(file) /\ Size \in Nat
      BY SizeAssumption DEF df_init, Readable
    <2>2. Size <= Len(file) => Size \in Readable
      BY <2>1, SMT DEF Readable
    <2>3. Len(file) <= Size => Len(file) \in Readable
      BY <1>2, <2>1, SMT DEF Readable
    <2> QED BY <1>2, <2>1, <2>2, <2>3, SMT
  <1>7. n = 0 <=> Len(file) = 0
    BY <1>2, <1>3, SizeAssumption, SMT
  <1>8. \A i \in 1 .. Size : i <= n <=> i <= Len(file)
    BY <1>2, <1>3, SizeAssumption, SMT
  <1>4. file = << >> <=> Len(file) = 0
    BY <1>2, EmptySeq
  <1>5. CASE file = << >>
    BY <1>4, <1>5, <1>7 DEF df_init, Presented
  <1>6. CASE file # << >>
    BY <1>4, <1>6, <1>7, <1>8 DEF df_init, Presented, Filled
  <1> QED BY <1>5, <1>6

LEMMA InvInit == HInit => Inv
  <1> SUFFICES ASSUME HInit PROVE Inv
    OBVIOUS
  <1>1. TypeOK
    BY TypeInit DEF HInit
  <1>2. pc = "off" /\ kept = file /\ unlocked = FALSE
    BY DEF HInit, Init
  <1> QED BY <1>1, <1>2 DEF Inv, FileOK, OpenedOK, LockOK, ChipOK

LEMMA InvStep == Inv /\ [HNext]_hall => Inv'
  <1> SUFFICES ASSUME Inv, [HNext]_hall PROVE Inv'
    OBVIOUS
  <1> USE DEF Inv
  <1>t. TypeOK'
    BY HistoryOnly, TypeStep
  <1>1. CASE HStart
    BY <1>t, <1>1 DEF HStart, Start, FileOK, OpenedOK, LockOK, ChipOK
  <1>2. CASE HLoad
    <2> PICK n \in 0 .. Size :
          /\ df_init(n)
          /\ faulty' = (faulty \/ \E m \in Readable : n < m)
          /\ UNCHANGED <<kept, opened, unlocked, blessed>>
      BY <1>2 DEF HLoad
    <2>1. pc = "load" /\ pc' = "run" /\ locked' = TRUE /\ UNCHANGED <<file, save>>
      BY DEF df_init, Lock
    <2>2. ~faulty' => df' = Presented(kept)
      <3> SUFFICES ASSUME ~faulty' PROVE df' = Presented(kept)
        OBVIOUS
      <3>1. file = kept
        BY <2>1 DEF FileOK
      <3>3. ASSUME NEW m \in Readable PROVE m <= n
        <4>1. ~(n < m)
          OBVIOUS
        <4>2. n \in Nat /\ m \in Nat
          BY SizeAssumption, SMT DEF Readable
        <4> QED BY <4>1, <4>2, SMT
      <3> QED BY <3>1, <3>3, LoadPresents
    <2>3. FileOK' /\ OpenedOK' /\ LockOK'
      BY <2>1 DEF FileOK, OpenedOK, LockOK
    <2>4. ChipOK'
      BY <2>1, <2>2 DEF ChipOK, Presented
    <2> QED BY <1>t, <2>3, <2>4
  <1>3. CASE HUnlock
    BY <1>t, <1>3 DEF HUnlock, Unlock, FileOK, OpenedOK, LockOK, ChipOK, Presented
  <1>4. CASE HChange
    <2> PICK i \in 1 .. Size, b \in Block :
          /\ Change(i, b) /\ blessed' = blessed \cup {i}
          /\ UNCHANGED <<kept, opened, unlocked, faulty>>
      BY <1>4 DEF HChange
    <2>1. pc = "run" /\ ~locked /\ df' = [df EXCEPT ![i] = b]
          /\ UNCHANGED <<pc, file, locked, save>>
      BY DEF Change
    <2>2. FileOK' /\ OpenedOK' /\ LockOK'
      BY <2>1 DEF FileOK, OpenedOK, LockOK
    <2>3. ChipOK'
      <3>1. \A j \in 1 .. Size : j # i => df'[j] = df[j]
        BY <2>1 DEF TypeOK, Buffer
      <3> QED BY <2>1, <3>1 DEF ChipOK, Presented
    <2> QED BY <1>t, <2>2, <2>3
  <1>5. CASE HSaved
    <2>1. pc = "write" /\ pc' = "off" /\ written = Size /\ kept' = df
          /\ UNCHANGED <<file, unlocked>>
      BY <1>5 DEF HSaved, Close, Closes
    <2>2. file = [i \in 1 .. Size |-> df[i]]
      BY <2>1 DEF TypeOK
    <2>3. file' = kept'
      BY <2>1, <2>2 DEF TypeOK, Buffer
    <2> QED BY <1>t, <2>1, <2>3 DEF FileOK, OpenedOK, LockOK, ChipOK
  <1>6. CASE HFailed
    <2>1. pc' = "off" /\ faulty' = (faulty \/ pc = "write")
          /\ UNCHANGED <<file, kept, opened, unlocked, blessed>>
      BY <1>6 DEF HFailed, SaveFails, Killed
    <2> QED BY <1>t, <2>1 DEF FileOK, OpenedOK, LockOK, ChipOK
  <1>7. CASE HOther
    <2>0. UNCHANGED <<kept, opened, unlocked, blessed, faulty>>
      BY <1>7 DEF HOther, hvars
    <2>1. CASE InitFails \/ InitGoesOn \/ Quit \/ OpenForWriting \/ WriteBlock
      BY <1>t, <2>0, <2>1 DEF InitFails, InitGoesOn, Quit, Saves, OpenForWriting, WriteBlock,
                              FileOK, OpenedOK, LockOK, ChipOK
    <2>2. CASE UNCHANGED vars
      BY <1>t, <2>0, <2>2 DEF vars, FileOK, OpenedOK, LockOK, ChipOK, Presented
    <2> QED BY <1>7, <2>1, <2>2 DEF HOther, Finished
  <1>8. CASE UNCHANGED hall
    BY <1>t, <1>8 DEF hall, vars, hvars, FileOK, OpenedOK, LockOK, ChipOK, Presented
  <1>9. CASE HErase
    <2>1. pc = "run" /\ ~locked /\ UNCHANGED <<pc, file, locked, save>>
          /\ blessed' = 1 .. Size /\ UNCHANGED <<kept, opened, unlocked, faulty>>
      BY <1>9 DEF HErase, EraseChip
    <2> QED BY <1>t, <2>1 DEF FileOK, OpenedOK, LockOK, ChipOK
  <1> QED BY <1>1, <1>2, <1>3, <1>4, <1>5, <1>6, <1>7, <1>8, <1>9 DEF HNext

(* What was saved is what the firmware runs on, but for its own changes.   *)
THEOREM Reloaded == HSpec => []SavedIsReloaded
  <1>1. Inv => SavedIsReloaded
    BY DEF Inv, ChipOK, SavedIsReloaded
  <1> QED BY <1>1, InvInit, InvStep, PTL DEF HSpec, hall

(* A session that is not to save never writes, nor does any before it saves. *)
THEOREM Untouched == HSpec => []FileUntouched
  <1>1. Inv => FileUntouched
    BY DEF Inv, TypeOK, OpenedOK, FileUntouched
  <1> QED BY <1>1, InvInit, InvStep, PTL DEF HSpec, hall

(* Before the first unlocking the chip is locked and holds the saved image. *)
THEOREM Protected == HSpec => []ProtectedUntilUnlocked
  <1>1. Inv => ProtectedUntilUnlocked
    <2> SUFFICES ASSUME Inv, pc = "run", ~faulty, ~unlocked
                 PROVE  locked /\ df = Presented(kept)
      BY DEF ProtectedUntilUnlocked
    <2>1. locked /\ blessed = {}
      BY DEF Inv, LockOK
    <2>2. \A i \in 1 .. Size : df[i] = Presented(kept)[i]
      BY <2>1 DEF Inv, ChipOK
    <2>3. df = [i \in 1 .. Size |-> df[i]]
      BY DEF Inv, TypeOK, Buffer
    <2>4. Presented(kept) = [i \in 1 .. Size |-> Presented(kept)[i]]
      BY DEF Presented, NewImage
    <2> QED BY <2>1, <2>2, <2>3, <2>4
  <1> QED BY <1>1, InvInit, InvStep, PTL DEF HSpec, hall

-----------------------------------------------------------------------------
(* The session over the real chip.  What the firmware does to the cells is *)
(* one of three things to the blocks: nothing, a change of one of them, or *)
(* the erasure of all.                                                     *)

fall == <<vars, flash>>

\* Every cell lies in one sector, and that is one of the image's.
LEMMA CellPlace ==
  ASSUME Sectors, NEW a \in Chip!Addr
  PROVE  /\ a \in Nat /\ (a \div 256) + 1 \in 1 .. Size
         /\ a \in Cells((a \div 256) + 1)
         /\ \A i \in 1 .. Size : a \in Cells(i) => i = (a \div 256) + 1
  <1>1. a \in 0 .. 256 * Size - 1 /\ Size \in Nat
    BY SizeAssumption DEF Sectors
  <1>2. a \div 256 \in 0 .. Size - 1
    BY <1>1, SMT
  <1>3. (a \div 256) + 1 \in 1 .. Size /\ ((a \div 256) + 1) - 1 = a \div 256
    BY <1>1, <1>2, SMT
  <1>4. \A i \in 1 .. Size : a \div 256 = i - 1 => i = (a \div 256) + 1
    BY <1>1, <1>2, SMT
  <1> QED BY <1>1, <1>3, <1>4 DEF Cells

\* The cells of one sector, as a content.
LEMMA ContentTyped ==
  ASSUME Sectors, NEW i \in 1 .. Size, NEW c \in [Cells(i) -> Chip!Byte]
  PROVE  c \in Block
  BY DEF Sectors

\* Where nothing outside one sector changes, one block does.
LEMMA OneSector ==
  ASSUME Sectors, NEW s \in 1 .. Size,
         cells' \in [Chip!Addr -> Chip!Byte],
         \A a \in Chip!Addr : (a \div 256) + 1 # s => cells'[a] = cells[a]
  PROVE  Image'[s] \in Block /\ Image' = [Image EXCEPT ![s] = Image'[s]]
  <1>1. \A i \in 1 .. Size : Image'[i] = [a \in Cells(i) |-> cells'[a]]
    BY DEF Image
  <1>2. \A i \in 1 .. Size : Image[i] = [a \in Cells(i) |-> cells[a]]
    BY DEF Image
  <1>3. Image'[s] \in [Cells(s) -> Chip!Byte]
    <2>1. \A a \in Cells(s) : cells'[a] \in Chip!Byte
      BY DEF Cells
    <2> QED BY <1>1, <2>1
  <1>4. ASSUME NEW i \in 1 .. Size, i # s PROVE Image'[i] = Image[i]
    <2>1. \A a \in Cells(i) : a \in Chip!Addr /\ (a \div 256) + 1 # s
      BY <1>4, CellPlace DEF Cells
    <2>2. [a \in Cells(i) |-> cells'[a]] = [a \in Cells(i) |-> cells[a]]
      BY <2>1
    <2> QED BY <1>1, <1>2, <2>2
  <1>5. Image' = [i \in 1 .. Size |-> Image'[i]] /\ Image = [i \in 1 .. Size |-> Image[i]]
    BY DEF Image
  <1>6. Image'[s] \in Block
    BY <1>3, ContentTyped
  <1> QED BY <1>4, <1>5, <1>6

\* The sector df_write erases is the sector of the address.
LEMMA SectorOfAddress ==
  ASSUME Sectors, NEW a \in Chip!Addr, NEW b \in Chip!Addr, b \in Chip!Sector(a)
  PROVE  b \div 256 = a \div 256
  <1>1. a \in Nat /\ b \in Nat
    BY CellPlace
  <1>2. a % 256 = a - 256 * (a \div 256) /\ a \div 256 \in Nat
    BY <1>1, SMT
  <1>3. PICK x \in Nat : x = a \div 256 /\ a - (a % 256) = 256 * x
    BY <1>1, <1>2, SMT
  <1>4. b \in 256 * x .. 256 * x + 255
    BY <1>3 DEF Chip!Sector
  <1>5. b \div 256 = x
    BY <1>1, <1>3, <1>4, SMT
  <1> QED BY <1>3, <1>5

\* The session's buffer is the chip's cells, and its lock the chip's.
FInv ==
  /\ TypeOK /\ Fits(file)
  /\ cells \in [Chip!Addr -> Chip!Byte] /\ wp \in Nat
  /\ df = Image
  /\ locked = ~Chip!WriteAllowed

\* A buffer that fits is the image of its cells.
LEMMA ImageOfCells ==
  ASSUME Sectors, NEW d \in Buffer, Fits(d),
         cells' = [a \in Chip!Addr |-> d[(a \div 256) + 1][a]]
  PROVE  cells' \in [Chip!Addr -> Chip!Byte] /\ Image' = d
  <1>1. DOMAIN d = 1 .. Size /\ d = [i \in 1 .. Size |-> d[i]]
    BY DEF Buffer
  <1>2. \A i \in 1 .. Size : d[i] \in [Cells(i) -> Chip!Byte]
    BY <1>1 DEF Fits
  <1>3. \A a \in Chip!Addr : d[(a \div 256) + 1][a] \in Chip!Byte
    BY <1>2, CellPlace
  <1>4. ASSUME NEW i \in 1 .. Size
        PROVE  [a \in Cells(i) |-> cells'[a]] = d[i]
    <2>1. \A a \in Cells(i) : a \in Chip!Addr
      BY DEF Cells
    <2>2. \A a \in Cells(i) : cells'[a] = d[i][a]
      BY <2>1, CellPlace
    <2>3. d[i] = [a \in Cells(i) |-> d[i][a]]
      BY <1>2
    <2> QED BY <2>2, <2>3
  <1>5. cells' \in [Chip!Addr -> Chip!Byte]
    BY <1>3
  <1>6. Image' = [i \in 1 .. Size |-> [a \in Cells(i) |-> cells'[a]]]
    BY DEF Image
  <1> QED BY <1>1, <1>4, <1>5, <1>6

\* The image fits, whatever the cells hold.
LEMMA ImageFits ==
  ASSUME cells \in [Chip!Addr -> Chip!Byte]
  PROVE  Fits(Image) /\ DOMAIN Image = 1 .. Size
  <1>1. \A i \in 1 .. Size : Image[i] = [a \in Cells(i) |-> cells[a]]
    BY DEF Image
  <1>2. ASSUME NEW i \in 1 .. Size PROVE Image[i] \in [Cells(i) -> Chip!Byte]
    <2>1. \A a \in Cells(i) : cells[a] \in Chip!Byte
      BY DEF Cells
    <2> QED BY <1>1, <2>1
  <1>3. DOMAIN Image = 1 .. Size
    BY DEF Image
  <1> QED BY <1>2, <1>3 DEF Fits

LEMMA ByteFacts == 0 \in Chip!Byte /\ Chip!ErasedByte \in Chip!Byte
  BY SMT DEF Chip!Byte, Chip!ErasedByte

LEMMA FlashInit == Sectors /\ FInit => FInv
  <1> SUFFICES ASSUME Sectors, FInit PROVE FInv
    OBVIOUS
  <1>1. TypeOK
    BY TypeInit DEF FInit
  <1>2. cells = [a \in Chip!Addr |-> 0] /\ wp = 0
    BY DEF FInit, Chip!Init
  <1>3. df = Image
    <2>1. \A i \in 1 .. Size : [a \in Cells(i) |-> 0] = [a \in Cells(i) |-> cells[a]]
      BY <1>2 DEF Cells
    <2>2. df = [i \in 1 .. Size |-> [a \in Cells(i) |-> 0]]
      BY DEF FInit, Init, Sectors
    <2> QED BY <2>1, <2>2 DEF Image
  <1>4. locked = TRUE /\ Chip!WriteAllowed = FALSE
    BY <1>2, SMT DEF FInit, Init, Chip!WriteAllowed
  <1>5. cells \in [Chip!Addr -> Chip!Byte]
    BY <1>2, ByteFacts
  <1> QED BY <1>1, <1>2, <1>3, <1>4, <1>5 DEF FInv, FInit

\* What df_init puts into the buffer fits.
LEMMA LoadFits ==
  ASSUME Sectors, TypeOK, Fits(file), NEW n \in 0 .. Size, df_init(n)
  PROVE  df' \in Buffer /\ Fits(df')
  <1>1. PICK m \in Nat : file \in [1 .. m -> Block]
    BY SeqDef DEF TypeOK
  <1>2. Len(file) = m /\ DOMAIN file = 1 .. m
    BY <1>1, FileIsSeq
  <1>3. df' \in Buffer
    BY NewImageTyped, FilledTyped DEF df_init
  <1>4. \A i \in 1 .. Size : Zeros[i] \in [Cells(i) -> Chip!Byte]
    BY ByteFacts DEF Sectors
  <1>5. \A i \in 1 .. Size : NewImage[i] \in [Cells(i) -> Chip!Byte]
    BY <1>4 DEF NewImage, Sectors
  <1>6. n <= m
    BY <1>2, SMT DEF df_init, Readable
  <1>7. \A i \in 1 .. Size : i <= n => file[i] \in [Cells(i) -> Chip!Byte]
    <2> SUFFICES ASSUME NEW i \in 1 .. Size, i <= n
                 PROVE  file[i] \in [Cells(i) -> Chip!Byte]
      OBVIOUS
    <2>1. i \in DOMAIN file
      BY <1>2, <1>6, SizeAssumption, SMT
    <2> QED BY <2>1 DEF Fits
  <1>8. \A i \in 1 .. Size : Filled(n)[i] \in [Cells(i) -> Chip!Byte]
    BY <1>4, <1>7 DEF Filled
  <1>9. \A i \in 1 .. Size : df'[i] \in [Cells(i) -> Chip!Byte]
    BY <1>5, <1>8 DEF df_init
  <1> QED BY <1>3, <1>9 DEF Fits, Buffer

\* A read moves the tracking byte alone; a write leaves the lock as it is.
LEMMA TrackingByte ==
  ASSUME FInv, Chip!Next
  PROVE  /\ wp' \in Nat
         /\ \/ UNCHANGED cells
            \/ /\ Chip!WriteAllowed /\ Chip!WriteAllowed'
               /\ \E a \in WriteAddr, v \in Val : cells' = Chip!Effect(a, v)
  <1>0. wp \in Nat
    BY DEF FInv
  <1>1. ASSUME NEW a \in ReadAddr, Chip!df_read(a)
        PROVE  wp' \in Nat /\ UNCHANGED cells
    <2>1. Chip!Advance(wp) \in Nat
      <3>1. (wp + 1) % 16 = 7 => Chip!Advance(wp) = Chip!SetWriteAllowed(wp + 2)
        BY DEF Chip!Advance
      <3>2. (wp + 1) % 16 = 15 => Chip!Advance(wp) = 0
        <4>1. 15 # 7
          OBVIOUS
        <4> QED BY <4>1, Zenon DEF Chip!Advance
      <3>3. (wp + 1) % 16 # 7 /\ (wp + 1) % 16 # 15 => Chip!Advance(wp) = wp + 1
        BY Zenon DEF Chip!Advance
      <3>4. Chip!SetWriteAllowed(wp + 2) \in Nat
        BY <1>0, SMT DEF Chip!SetWriteAllowed
      <3> QED BY <1>0, <3>1, <3>2, <3>3, <3>4
    <2>2. Chip!ClearSequence(wp) \in Nat
      BY <1>0, SMT DEF Chip!ClearSequence
    <2> QED BY <1>1, <2>1, <2>2 DEF Chip!df_read
  <1>2. ASSUME NEW a \in WriteAddr, NEW v \in Val, Chip!df_write(a, v)
        PROVE  /\ wp' \in Nat /\ (Chip!WriteAllowed => Chip!WriteAllowed')
               /\ \/ UNCHANGED cells
                  \/ Chip!WriteAllowed /\ cells' = Chip!Effect(a, v)
    <2>1. wp' = wp - (wp % 8)
      BY <1>2 DEF Chip!df_write, Chip!ClearSequence
    <2>2. wp' \in Nat /\ (wp >= 128 => wp' >= 128)
      BY <1>0, <2>1, SMT
    <2>3. Chip!WriteAllowed => Chip!WriteAllowed'
      BY <2>2 DEF Chip!WriteAllowed
    <2>4. \/ UNCHANGED cells
          \/ Chip!WriteAllowed /\ cells' = Chip!Effect(a, v)
      BY <1>2 DEF Chip!df_write, Chip!FirstCycle, Chip!SecondCycle
    <2> QED BY <2>2, <2>3, <2>4
  <1> QED BY <1>1, <1>2 DEF Chip!Next

\* What a command does to the cells: nothing, one sector, or all of them.
LEMMA EffectOnCells ==
  ASSUME Sectors, FInv, NEW a \in WriteAddr, NEW v \in Val
  PROVE  LET e == Chip!Effect(a, v) IN
         /\ e \in [Chip!Addr -> Chip!Byte]
         /\ \/ \A b \in Chip!Addr : (b \div 256) + 1 # (a \div 256) + 1 => e[b] = cells[b]
            \/ e = [b \in Chip!Addr |-> Chip!ErasedByte]
  <1> DEFINE e == Chip!Effect(a, v)
  <1>0. /\ a \in Chip!Addr /\ v \in Chip!Byte /\ cells \in [Chip!Addr -> Chip!Byte]
        /\ Chip!ErasedByte \in Chip!Byte
    BY ByteFacts DEF Chip!Addr, Sectors, FInv
  <1>1. \/ e = [b \in Chip!Addr |-> IF b \in Chip!Sector(a) THEN Chip!ErasedByte ELSE cells[b]]
        \/ e = [cells EXCEPT ![a] = v]
        \/ e = [b \in Chip!Addr |-> Chip!ErasedByte]
        \/ e = cells
    <2>1. /\ Chip!SectorErase # Chip!ByteProgram /\ Chip!SectorErase # Chip!ChipErase
          /\ Chip!ByteProgram # Chip!ChipErase
      BY SMT DEF Chip!SectorErase, Chip!ByteProgram, Chip!ChipErase
    <2>2. ASSUME cmd = Chip!SectorErase, v = Chip!EraseConfirm
          PROVE  e = [b \in Chip!Addr |->
                        IF b \in Chip!Sector(a) THEN Chip!ErasedByte ELSE cells[b]]
      BY <2>1, <2>2, Zenon DEF Chip!Effect
    <2>3. ASSUME cmd = Chip!ByteProgram PROVE e = [cells EXCEPT ![a] = v]
      BY <2>1, <2>3, Zenon DEF Chip!Effect
    <2>4. ASSUME cmd = Chip!ChipErase, v = Chip!ChipErase
          PROVE  e = [b \in Chip!Addr |-> Chip!ErasedByte]
      BY <2>1, <2>4, Zenon DEF Chip!Effect
    <2>5. ASSUME ~(cmd = Chip!SectorErase /\ v = Chip!EraseConfirm), cmd # Chip!ByteProgram,
                 ~(cmd = Chip!ChipErase /\ v = Chip!ChipErase)
          PROVE  e = cells
      BY <2>5, Zenon DEF Chip!Effect
    <2> QED BY <2>2, <2>3, <2>4, <2>5
  <1> HIDE DEF e
  <1>2. e \in [Chip!Addr -> Chip!Byte]
    BY <1>0, <1>1
  <1>3. ASSUME NEW b \in Chip!Addr, (b \div 256) + 1 # (a \div 256) + 1
        PROVE  b \notin Chip!Sector(a) /\ b # a
    <2>1. b \div 256 # a \div 256
      BY <1>3
    <2> QED BY <1>0, <2>1, SectorOfAddress
  <1>4. \/ \A b \in Chip!Addr : (b \div 256) + 1 # (a \div 256) + 1 => e[b] = cells[b]
        \/ e = [b \in Chip!Addr |-> Chip!ErasedByte]
    BY <1>0, <1>1, <1>3
  <1> QED BY <1>2, <1>4 DEF e

\* An access to the chip, as the session sees it.
LEMMA AccessIsSession ==
  ASSUME Sectors, FInv, FAccess
  PROVE  Next /\ FInv'
  <1> USE DEF FInv
  <1>1. /\ pc = "run" /\ Chip!Next /\ df' = Image' /\ locked' = ~Chip!WriteAllowed'
        /\ UNCHANGED rest
    BY DEF FAccess
  <1>2. wp' \in Nat
    BY <1>1, TrackingByte
  <1>3. Chip!WriteAllowed' \in BOOLEAN
    BY DEF Chip!WriteAllowed
  <1>4. CASE UNCHANGED cells
    <2>1. df' = df
      BY <1>1, <1>4 DEF Image
    <2>2. Unlock
      BY <1>1, <1>3, <2>1 DEF Unlock, rest
    <2>3. Next
      BY <2>2 DEF Next
    <2>4. TypeOK'
      BY <2>3, TypeStep
    <2> QED BY <1>1, <1>2, <1>4, <2>3, <2>4 DEF rest
  <1>5. ASSUME NEW a \in WriteAddr, NEW v \in Val,
               Chip!WriteAllowed, Chip!WriteAllowed', cells' = Chip!Effect(a, v)
        PROVE  Next /\ FInv'
    <2>1. a \in Chip!Addr /\ (a \div 256) + 1 \in 1 .. Size
      <3>1. a \in Chip!Addr
        BY DEF Chip!Addr
      <3> QED BY <3>1, CellPlace
    <2>2. cells' \in [Chip!Addr -> Chip!Byte]
      BY <1>5, EffectOnCells
    <2>3. pc = "run" /\ ~locked /\ UNCHANGED <<pc, file, locked, save, written, status, sessions>>
      BY <1>1, <1>5 DEF rest
    <2>4. ASSUME \A b \in Chip!Addr :
                   (b \div 256) + 1 # (a \div 256) + 1 => cells'[b] = cells[b]
          PROVE  Next
      <3>1. /\ Image'[(a \div 256) + 1] \in Block
            /\ Image' = [Image EXCEPT ![(a \div 256) + 1] = Image'[(a \div 256) + 1]]
        BY <2>1, <2>2, <2>4, OneSector
      <3>2. Change((a \div 256) + 1, Image'[(a \div 256) + 1])
        BY <1>1, <2>3, <3>1 DEF Change
      <3> QED BY <2>1, <3>1, <3>2 DEF Next
    <2>5. ASSUME cells' = [b \in Chip!Addr |-> Chip!ErasedByte] PROVE Next
      <3>1. \A i \in 1 .. Size :
              [b \in Cells(i) |-> cells'[b]] = [b \in Cells(i) |-> Chip!ErasedByte]
        BY <2>5 DEF Cells
      <3>2. Image' = Erased
        BY <3>1 DEF Image, Sectors
      <3>3. EraseChip
        BY <1>1, <2>3, <3>2 DEF EraseChip
      <3> QED BY <3>3 DEF Next
    <2>6. Next
      BY <1>5, <2>4, <2>5, EffectOnCells
    <2>7. TypeOK'
      BY <2>6, TypeStep
    <2> QED BY <1>1, <1>2, <2>2, <2>6, <2>7 DEF rest
  <1> QED BY <1>1, <1>4, <1>5, TrackingByte

LEMMA LoadIsSession ==
  ASSUME Sectors, FInv, FLoad
  PROVE  Next /\ FInv'
  <1> USE DEF FInv
  <1>1. PICK n \in 0 .. Size : df_init(n)
    BY DEF FLoad
  <1>2. /\ cells' = [a \in Chip!Addr |-> df'[(a \div 256) + 1][a]]
        /\ wp' = 0 /\ locked' = TRUE /\ file' = file
    BY <1>1 DEF FLoad, df_init, Lock
  <1>3. Next
    BY <1>1 DEF Next
  <1>4. cells' \in [Chip!Addr -> Chip!Byte] /\ Image' = df'
    BY <1>1, <1>2, LoadFits, ImageOfCells
  <1>5. Chip!WriteAllowed' = FALSE
    BY <1>2, SMT DEF Chip!WriteAllowed
  <1>6. TypeOK'
    BY <1>3, TypeStep
  <1> QED BY <1>2, <1>3, <1>4, <1>5, <1>6

\* Whatever main does to the file, every block on disk keeps its cells.
LEMMA MainIsSession ==
  ASSUME Sectors, FInv, FMain \/ UNCHANGED fall
  PROVE  [Next]_vars /\ FInv'
  <1> USE DEF FInv
  <1>1. [Next]_vars
    BY DEF FMain, Next, fall
  <1>2. UNCHANGED <<cells, wp>> /\ UNCHANGED Image
    BY DEF FMain, fall, flash, Image
  <1>3. UNCHANGED <<df, locked>>
    BY DEF FMain, fall, vars, Start, InitFails, InitGoesOn, Quit, OpenForWriting,
           WriteBlock, Close, SaveFails, Killed, Finished
  <1>4. Fits(file')
    <2>1. CASE OpenForWriting
      BY <2>1 DEF OpenForWriting, Fits
    <2>2. CASE WriteBlock
      <3>1. file' = [i \in 1 .. written' |-> df[i]] /\ written' \in 0 .. Size
        BY <2>2, WriteGrows
      <3>2. \A i \in 1 .. Size : df[i] \in [Cells(i) -> Chip!Byte]
        BY ImageFits DEF Fits
      <3>3. \A i \in 1 .. written' : i \in 1 .. Size
        BY <3>1, SizeAssumption, SMT
      <3> QED BY <3>1, <3>2, <3>3 DEF Fits
    <2>3. CASE ~OpenForWriting /\ ~WriteBlock
      <3>1. file' = file
        BY <2>3 DEF FMain, fall, vars, Start, InitFails, InitGoesOn, Quit,
                    Close, SaveFails, Killed, Finished
      <3> QED BY <3>1
    <2> QED BY <2>1, <2>2, <2>3
  <1>5. TypeOK'
    BY <1>1, TypeStep
  <1>6. Chip!WriteAllowed' = Chip!WriteAllowed
    BY <1>2 DEF Chip!WriteAllowed
  <1> QED BY <1>1, <1>2, <1>3, <1>4, <1>5, <1>6 DEF Fits

(***************************************************************************)
(* Over the chip as df_read and df_write emulate it, with its tracking     *)
(* byte, guard sequences and command cycles, a session is still a session: *)
(* the buffer that is loaded, saved and protected is the chip's cells, and *)
(* a process always begins with a locked chip (df_init, df_deinit).        *)
(***************************************************************************)
THEOREM FlashIsSession == ASSUME Sectors PROVE FSpec => Spec /\ [](df = Image)
  <1>1. FInit => FInv /\ Init
    BY FlashInit DEF FInit
  <1>2. FInv /\ [FNext]_fall => [Next]_vars /\ FInv'
    <2> SUFFICES ASSUME FInv, [FNext]_fall PROVE [Next]_vars /\ FInv'
      OBVIOUS
    <2> QED BY AccessIsSession, LoadIsSession, MainIsSession DEF FNext
  <1>3. FInv => df = Image
    BY DEF FInv
  <1> QED BY <1>1, <1>2, <1>3, PTL DEF FSpec, Spec, fall

=============================================================================
