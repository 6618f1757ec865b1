----------------------------- MODULE RamProofs -----------------------------
(***************************************************************************)
(* Proofs about RAM and its image, for every size, every set of bytes and  *)
(* every contents of the image.                                            *)
(***************************************************************************)
EXTENDS RamHistory, SequenceTheorems, TLAPS

rall == <<vars, rvars>>

\* With an image, each ram_init leaves the same copy of it.
ImageOK == pc = "run" /\ path => first = Copied(ram_image, first) /\ fresh = first

\* What the CPU has not stored to is as ram_init left it.
KeptOK == \A a \in Cells \ stored : ram[a] = fresh[a]

Inv == TypeOK /\ ImageOK /\ KeptOK

-----------------------------------------------------------------------------

LEMMA NullIsNoMemory == \A m \in Memory : m # NULL
  <1>1. 1 \in Cells
    BY SizeAssumption, SMT DEF Cells
  <1>2. DOMAIN NULL = {}
    BY DEF NULL
  <1>3. \A m \in Memory : DOMAIN m = Cells
    BY DEF Memory
  <1> QED BY <1>1, <1>2, <1>3

LEMMA CopiedTyped ==
  ASSUME NEW m \in Memory, NEW old
  PROVE  Copied(m, old) \in Memory
  BY ByteAssumption DEF Copied, Memory

LEMMA LoadedTyped ==
  ASSUME NEW image \in Images, NEW filler \in Memory
  PROVE  Loaded(image, filler) \in Memory
  <1>1. image \in Seq(Byte)
    BY ImageAssumption
  <1>2. Len(image) \in Nat
    BY <1>1, LenProperties
  <1>3. \A i \in Cells : i <= Len(image) => image[i] \in Byte
    <2> SUFFICES ASSUME NEW i \in Cells, i <= Len(image) PROVE image[i] \in Byte
      OBVIOUS
    <2>1. i \in 1 .. Len(image)
      BY <1>2, SizeAssumption, SMT DEF Cells
    <2> QED BY <1>1, <2>1, ElementOfSeq
  <1>4. \A i \in Cells : (IF i <= Len(image) THEN image[i] ELSE filler[i]) \in Byte
    BY <1>3 DEF Memory
  <1> QED BY <1>4 DEF Loaded, Memory

\* What a fill leaves does not depend on what was there.
LEMMA CopiedForgets == \A m, old, older : Copied(m, old) = Copied(m, older)
  BY DEF Copied

-----------------------------------------------------------------------------

LEMMA InvInit == RInit => Inv
  BY DEF RInit, Init, Inv, TypeOK, ImageOK, KeptOK

\* ram_init, the first time.
LEMMA FirstKeeps == ASSUME Inv, RFirst PROVE Inv'
  <1>1. /\ FirstInit /\ first' = ram' /\ fresh' = ram' /\ stored' = {}
        /\ UNCHANGED <<path, given>>
    BY DEF RFirst, FirstInit
  <1>2. TypeOK' /\ ImageOK'
    <2>1. CASE path /\ given = << >>
      BY <1>1, <2>1 DEF FirstInit, ImageMissing, Inv, TypeOK, ImageOK
    <2>2. CASE path /\ given # << >>
      <3>1. pc' = "run" /\ Fill(ram_image')
        BY <1>1, <2>2 DEF FirstInit
      <3>2. ram_image' \in Memory
        BY <1>1, <2>2, LoadedTyped DEF FirstInit, Inv, TypeOK
      <3>3. ram' = Copied(ram_image', ram)
        BY <3>1, <3>2, NullIsNoMemory DEF Fill
      <3>4. ram' \in Memory
        BY <3>2, <3>3, CopiedTyped
      <3>5. first' = Copied(ram_image', first')
        BY <1>1, <3>3, CopiedForgets
      <3>6. TypeOK'
        BY <1>1, <2>2, <3>1, <3>2, <3>4 DEF Inv, TypeOK
      <3> QED BY <1>1, <3>5, <3>6 DEF ImageOK
    <2>3. CASE ~path
      <3>1. pc' = "run" /\ ram_image' = NULL /\ ram' \in Memory
        BY <1>1, <2>3 DEF FirstInit, Fill
      <3> QED BY <1>1, <2>3, <3>1 DEF Inv, TypeOK, ImageOK
    <2>4. path \in BOOLEAN
      BY DEF Inv, TypeOK
    <2> QED BY <2>1, <2>2, <2>3, <2>4
  <1> QED BY <1>1, <1>2 DEF Inv, KeptOK

\* ram_init, at a power-off.
LEMMA OffKeeps == ASSUME Inv, ROff PROVE Inv'
  <1>1. /\ pc = "run" /\ Fill(ram_image) /\ fresh' = ram' /\ stored' = {}
        /\ UNCHANGED <<pc, path, given, ram_image, first>>
    BY DEF ROff, PowerOff
  <1>2. TypeOK' /\ ImageOK'
    <2>1. CASE path
      <3>1. ram_image \in Memory
        BY <1>1, <2>1 DEF Inv, TypeOK
      <3>2. ram' = Copied(ram_image, ram)
        BY <1>1, <3>1, NullIsNoMemory DEF Fill
      <3>3. ram' = first
        BY <1>1, <2>1, <3>2, CopiedForgets DEF Inv, ImageOK
      <3>4. ram' \in Memory
        BY <3>1, <3>2, CopiedTyped
      <3> QED BY <1>1, <3>3, <3>4 DEF Inv, TypeOK, ImageOK
    <2>2. CASE ~path
      <3>1. ram' \in Memory
        BY <1>1, <2>2 DEF Fill, Inv, TypeOK
      <3> QED BY <1>1, <2>2, <3>1 DEF Inv, TypeOK, ImageOK
    <2>3. path \in BOOLEAN
      BY DEF Inv, TypeOK
    <2> QED BY <2>1, <2>2, <2>3
  <1> QED BY <1>1, <1>2 DEF Inv, KeptOK

LEMMA WriteKeeps == ASSUME Inv, RWrite PROVE Inv'
  <1>1. PICK a \in Cells, val \in Byte :
          ram_write(a, val) /\ stored' = stored \cup {a} /\ UNCHANGED <<first, fresh>>
    BY DEF RWrite
  <1>2. ram' = [ram EXCEPT ![a] = val] /\ UNCHANGED <<pc, path, given, ram_image>>
    BY <1>1 DEF ram_write
  <1>3. ram' \in Memory
    BY <1>2 DEF Inv, TypeOK, Memory
  <1>4. TypeOK' /\ ImageOK'
    BY <1>1, <1>2, <1>3 DEF Inv, TypeOK, ImageOK
  <1>5. KeptOK'
    BY <1>1, <1>2 DEF Inv, TypeOK, Memory, KeptOK
  <1> QED BY <1>4, <1>5 DEF Inv

LEMMA InvStep == Inv /\ [RNext]_rall => Inv'
  <1> SUFFICES ASSUME Inv, [RNext]_rall PROVE Inv'
    OBVIOUS
  <1>1. CASE ROther
    BY <1>1 DEF ROther, Reset, RamOfReset, Failed, vars, rvars, Inv, TypeOK, ImageOK, KeptOK
  <1>2. CASE UNCHANGED rall
    BY <1>2 DEF rall, vars, rvars, Inv, TypeOK, ImageOK, KeptOK
  <1> QED BY <1>1, <1>2, FirstKeeps, OffKeeps, WriteKeeps DEF RNext

(* The machine runs with the image it was given or not at all.             *)
THEOREM TypeCorrect == RSpec => []TypeOK
  <1>1. Inv => TypeOK
    BY DEF Inv
  <1> QED BY <1>1, InvInit, InvStep, PTL DEF RSpec, rall

(* Each power-off puts the same contents back.                             *)
THEOREM Same == RSpec => []SameEveryTime
  <1>1. Inv => SameEveryTime
    BY DEF Inv, ImageOK, SameEveryTime
  <1> QED BY <1>1, InvInit, InvStep, PTL DEF RSpec, rall

(* Between two power-offs only the CPU's own stores change a cell.         *)
THEOREM Kept == RSpec => []KeptAcrossReset
  <1>1. Inv => KeptAcrossReset
    BY DEF Inv, KeptOK, KeptAcrossReset, ram_read
  <1> QED BY <1>1, InvInit, InvStep, PTL DEF RSpec, rall

=============================================================================
