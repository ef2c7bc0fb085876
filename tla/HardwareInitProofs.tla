------------------------- MODULE HardwareInitProofs -------------------------
(***************************************************************************)
(* What InitializeHardware, GetAGCData and the SPI driver keep true, for   *)
(* any number of words, registers and channels: lemmas for LifecycleProofs.*)
(***************************************************************************)
EXTENDS HardwareInit, WellFoundedInduction, TLAPS

\* Who is busy with what: words are put only while the driver is idle.
SpiShape ==
    /\ spiPc \in {"idle", "write"} => spiOp = "none"
    /\ spiPc = "read" => spiOp \in {"none", "write"}
    /\ spiPc = "fetch" => spiOp \in {"none", "read"}
    /\ initPc = "program" => spiPc # "idle"
    /\ initPc \notin {"program", "initialized"} => spiPc = "idle"
    /\ initPc # "initialized" => agcChan = 0
    /\ spiPc # "idle" /\ initPc = "initialized" => agcChan < NumAgc

Begun == initPc \in {"program", "configUnmap", "fpga", "map", "interrupts", "initialized"}

\* The write memory holds the file, but for the word that selects the channel.
WordsShape ==
    WellFormed /\ Begun =>
        /\ \A i \in Places \ {MonReg} : spiWrite[i] = Lines(conf)[i + 1]
        /\ \/ spiWrite[MonReg] = Lines(conf)[MonReg + 1]
           \/ spiWrite[MonReg].reg = MonReg /\ initPc = "initialized"
        /\ spiPc # "idle" /\ initPc = "initialized" =>
               spiWrite[MonReg] = [reg |-> MonReg, val |-> agcChan]

\* From the end of the first write on, the chip holds the file.
ConfigOnChip ==
    \A i \in 1 .. NumWords :
        Lines(conf)[i].reg # MonReg => chip[Lines(conf)[i].reg] = Lines(conf)[i].val

ChipShape ==
    WellFormed /\ Begun =>
        (initPc = "program" /\ (spiPc = "write" \/ spiOp = "write")) \/ ConfigOnChip

\* How far the channel that is read has come.
AgcShape ==
    WellFormed /\ initPc = "initialized" =>
        /\ spiPc = "fetch" \/ (spiPc = "read" /\ spiOp = "none") => chip[MonReg] = agcChan
        /\ spiPc = "fetch" /\ spiOp = "none" => spiRead[MonReg] = agcChan
        /\ \A c \in 0 .. agcChan - 1 : agcData[c] = c

Mapping(k) == {MapOrder[i] : i \in 1 .. k}

\* The members mapped are the first ones, and after the last step all.
MapsShape ==
    /\ initPc \in {"configMap", "parse", "program", "configUnmap", "fpga"} => held = {}
    /\ initPc = "map" => \E k \in 0 .. 5 : held = Mapping(k)
    /\ initPc \in {"interrupts", "initialized"} => held = Members

BoardInv ==
    BoardTypeOK /\ SpiShape /\ WordsShape /\ ChipShape /\ AgcShape /\ MapsShape

\* At the start nothing is mapped, put or read.
LEMMA BoardInvInit == BoardInit => BoardInv /\ held \subseteq mapped
<1> SUFFICES ASSUME BoardInit PROVE BoardInv /\ held \subseteq mapped
  OBVIOUS
<1> USE SpiAssumption DEF BoardInit, SpiInit
<1>1. BoardTypeOK
  BY DEF BoardTypeOK, Places, Registers, Word
<1>2. SpiShape /\ WordsShape /\ ChipShape /\ AgcShape /\ MapsShape
  BY DEF SpiShape, WordsShape, ChipShape, AgcShape, MapsShape, Begun
<1> QED
  BY <1>1, <1>2 DEF BoardInv

(***************************************************************************)
(* The driver's write. A register holds the word of the last place that    *)
(* names it, or what it held.                                              *)
(***************************************************************************)
LEMMA WrittenLast ==
  ASSUME BoardTypeOK, NEW p \in Places,
         \A q \in Places : spiWrite[q].reg = spiWrite[p].reg => q <= p
  PROVE  Written[spiWrite[p].reg] = spiWrite[p].val
<1> DEFINE r == spiWrite[p].reg
           named == {i \in Places : spiWrite[i].reg = r}
           last == CHOOSE i \in named : \A j \in named : j <= i
<1>1. r \in Registers
  BY DEF BoardTypeOK, Word
<1>2. p \in named /\ \A j \in named : j <= p
  OBVIOUS
<1>3. last \in Places /\ last <= p /\ p <= last
  BY <1>2
<1>4. last = p
  <2> HIDE DEF last
  <2> QED
    BY <1>3, SpiAssumption DEF Places
<1>5. named # {}
  BY <1>2
<1>6. Written[r] = spiWrite[last].val
  BY <1>1, <1>5 DEF Written
<1> QED
  BY <1>4, <1>6

LEMMA WrittenNone ==
  ASSUME NEW r \in Registers, \A q \in Places : spiWrite[q].reg # r
  PROVE  Written[r] = chip[r]
BY DEF Written

\* A set of naturals has a least element, and one of places a last.
LEMMA LeastNatural ==
  ASSUME NEW S \in SUBSET Nat, S # {}
  PROVE  \E x \in S : \A y \in S : x <= y
<1> DEFINE R == OpToRel(<, Nat)
<1>1. IsWellFoundedOn(R, Nat)
  BY NatLessThanWellFounded
<1>2. R = {ss \in Nat \X Nat : ss[1] < ss[2]}
  BY DEF OpToRel
<1> HIDE DEF R
<1>3. PICK x \in S : \A y \in S : <<y, x>> \notin R
  BY <1>1, WFMin
<1>4. ASSUME NEW y \in S PROVE x <= y
  <2>1. <<y, x>> \notin R
    BY <1>3
  <2> QED
    BY <1>2, <2>1
<1> QED
  BY <1>4

LEMMA LastPlace ==
  ASSUME NEW S \in SUBSET Places, S # {}
  PROVE  \E p \in S : \A q \in S : q <= p
<1> USE SpiAssumption DEF Places
<1> DEFINE Rest == {n \in Nat : \E p \in S : n = NumWords - 1 - p}
<1>1. Rest # {}
  <2>1. PICK p \in S : TRUE
    OBVIOUS
  <2>2. NumWords - 1 - p \in Nat
    OBVIOUS
  <2> QED
    BY <2>2
<1>2. PICK n \in Rest : \A k \in Rest : n <= k
  BY <1>1, LeastNatural
<1>3. PICK p \in S : n = NumWords - 1 - p
  BY <1>2
<1>4. ASSUME NEW q \in S PROVE q <= p
  <2>1. NumWords - 1 - q \in Rest
    OBVIOUS
  <2>2. n <= NumWords - 1 - q
    BY <1>2, <2>1
  <2> HIDE DEF Rest
  <2> QED
    BY <1>3, <2>2
<1> QED
  BY <1>4

LEMMA WordOfFile ==
  ASSUME BoardTypeOK, WellFormed, NEW i \in 1 .. NumWords
  PROVE  Lines(conf)[i] \in Word
<1>1. Lines(conf) \in Seq(Word)
  BY SpiAssumption DEF BoardTypeOK, WellFormed
<1> QED
  BY <1>1, SpiAssumption DEF WellFormed

(***************************************************************************)
(* The driver's steps. Its write puts the file on the chip, and the        *)
(* channel; a well-formed file names no other word's register.             *)
(***************************************************************************)
LEMMA DriverKeeps == BoardInv /\ Driver /\ UNCHANGED maps => BoardInv'
<1> SUFFICES ASSUME BoardInv, Driver, UNCHANGED maps PROVE BoardInv'
  OBVIOUS
<1> USE SpiAssumption
<1> DEFINE L == Lines(conf)
<1>1. UNCHANGED <<conf, spiPc, spiWrite, agcChan, agcData, initPc, mapped, held>>
      /\ WellFormed' = WellFormed /\ Begun' = Begun /\ spiOp' = "none"
  BY DEF Driver, DriverWrite, DriverRead, maps, agcVars, WellFormed, Begun
<1>2. CASE DriverWrite
  <2>1. spiOp = "write" /\ chip' = Written /\ spiRead' = spiRead
    BY <1>2 DEF DriverWrite
  <2>2. Written \in [Registers -> Nat]
    <3>1. ASSUME NEW r \in Registers PROVE Written[r] \in Nat
      <4> DEFINE named == {i \in Places : spiWrite[i].reg = r}
      <4>1. CASE named = {}
        BY <4>1, WrittenNone DEF BoardInv, BoardTypeOK
      <4>2. CASE named # {}
        <5>1. PICK p \in named : \A j \in named : j <= p
          BY <4>2, LastPlace
        <5>2. Written[spiWrite[p].reg] = spiWrite[p].val
          BY <5>1, WrittenLast DEF BoardInv
        <5> QED
          BY <5>1, <5>2 DEF BoardInv, BoardTypeOK, Word
      <4> QED
        BY <4>1, <4>2
    <3> QED
      BY <3>1 DEF Written
  <2>3. BoardTypeOK'
    BY <1>1, <2>1, <2>2 DEF BoardInv, BoardTypeOK
  <2>4. SpiShape'
    BY <1>1, <2>1 DEF BoardInv, BoardTypeOK, SpiShape
  <2>5. WordsShape'
    BY <1>1 DEF BoardInv, WordsShape
  <2>6. ChipShape'
    <3> SUFFICES ASSUME WellFormed, Begun, NEW i \in 1 .. NumWords, L[i].reg # MonReg
                 PROVE  Written[L[i].reg] = L[i].val
      BY <1>1, <2>1 DEF ChipShape, ConfigOnChip
    <3>1. L[i] \in Word /\ i - 1 \in Places
      BY WordOfFile DEF BoardInv, Places
    <3>2. ASSUME NEW q \in Places, q # MonReg PROVE spiWrite[q] = L[q + 1]
      BY <3>2 DEF BoardInv, WordsShape
    <3>3. CASE spiWrite[i - 1] = L[i]
      <4>1. ASSUME NEW q \in Places, spiWrite[q].reg = L[i].reg PROVE q = i - 1
        <5>1. spiWrite[q] = L[q + 1]
          BY <3>2, <4>1 DEF BoardInv, WordsShape
        <5>2. q + 1 \in 1 .. NumWords
          BY DEF Places
        <5> QED
          BY <4>1, <5>1, <5>2 DEF WellFormed, Places
      <4>2. \A q \in Places : spiWrite[q].reg = spiWrite[i - 1].reg => q <= i - 1
        BY <3>1, <3>3, <4>1 DEF Places
      <4> QED
        BY <3>1, <3>3, <4>2, WrittenLast DEF BoardInv
    <3>4. CASE spiWrite[i - 1] # L[i]
      <4>1. i - 1 = MonReg /\ spiWrite[MonReg].reg = MonReg /\ initPc = "initialized"
        BY <3>1, <3>2, <3>4 DEF BoardInv, WordsShape
      <4>2. ASSUME NEW q \in Places PROVE spiWrite[q].reg # L[i].reg
        <5>1. CASE q = MonReg
          BY <4>1, <5>1
        <5>2. CASE q # MonReg
          <6>1. q + 1 \in 1 .. NumWords /\ q + 1 # i
            BY <3>1, <4>1, <5>2 DEF Places
          <6> QED
            BY <3>2, <5>2, <6>1 DEF WellFormed
        <5> QED
          BY <5>1, <5>2
      <4>3. Written[L[i].reg] = chip[L[i].reg]
        BY <3>1, <4>2, WrittenNone DEF Word
      <4> QED
        BY <4>1, <4>3 DEF BoardInv, ChipShape, ConfigOnChip
    <3> QED
      BY <3>3, <3>4
  <2>7. AgcShape'
    <3> SUFFICES ASSUME WellFormed, initPc = "initialized"
                 PROVE  /\ spiPc = "read" /\ Written[MonReg] = agcChan
                        /\ \A c \in 0 .. agcChan - 1 : agcData[c] = c
      BY <1>1, <2>1 DEF AgcShape
    <3>1. spiPc = "read"
      BY <2>1 DEF BoardInv, BoardTypeOK, SpiShape
    <3>2. spiWrite[MonReg] = [reg |-> MonReg, val |-> agcChan]
      BY <3>1 DEF BoardInv, WordsShape, Begun
    <3>3. ASSUME NEW q \in Places, spiWrite[q].reg = spiWrite[MonReg].reg PROVE q <= MonReg
      <4>1. CASE q = MonReg
        BY <4>1 DEF Places
      <4>2. CASE q # MonReg
        <5>1. spiWrite[q] = L[q + 1] /\ q + 1 \in 1 .. NumWords
          BY <4>2 DEF BoardInv, WordsShape, Begun, Places
        <5> QED
          BY <3>2, <3>3, <5>1 DEF WellFormed, Places
      <4> QED
        BY <4>1, <4>2
    <3>4. Written[MonReg] = agcChan
      BY <3>2, <3>3, WrittenLast DEF BoardInv
    <3> QED
      BY <3>1, <3>4 DEF BoardInv, AgcShape
  <2>8. MapsShape'
    BY <1>1 DEF BoardInv, MapsShape
  <2> QED
    BY <2>3, <2>4, <2>5, <2>6, <2>7, <2>8 DEF BoardInv
<1>3. CASE DriverRead
  <2>1. spiOp = "read" /\ spiRead' = chip /\ chip' = chip
    BY <1>3 DEF DriverRead
  <2>2. BoardTypeOK' /\ SpiShape'
    BY <1>1, <2>1 DEF BoardInv, BoardTypeOK, SpiShape
  <2>3. WordsShape' /\ MapsShape'
    BY <1>1 DEF BoardInv, WordsShape, MapsShape
  <2>4. ChipShape'
    BY <1>1, <2>1 DEF BoardInv, ChipShape, ConfigOnChip
  <2>5. AgcShape'
    BY <1>1, <2>1 DEF BoardInv, BoardTypeOK, SpiShape, AgcShape
  <2> QED
    BY <2>2, <2>3, <2>4, <2>5 DEF BoardInv
<1> QED
  BY <1>2, <1>3 DEF Driver

(***************************************************************************)
(* GetAGCData's steps. The word put selects the channel; once it has been  *)
(* written and all registers read, the value fetched is the channel's.     *)
(***************************************************************************)
LEMMA AgcKeeps ==
    BoardInv /\ initPc = "initialized" /\ (GetAGCData \/ AgcReturn) /\ UNCHANGED maps
        => BoardInv'
<1> SUFFICES ASSUME BoardInv, initPc = "initialized", GetAGCData \/ AgcReturn, UNCHANGED maps
             PROVE  BoardInv'
  OBVIOUS
<1> USE SpiAssumption DEF SpiGoto
<1>1. UNCHANGED <<conf, chip, spiRead, initPc, mapped, held>>
      /\ WellFormed' = WellFormed /\ Begun' = Begun
  BY DEF GetAGCData, SelectChannel, PutWords, GiveWrite, GiveRead, ReadChannel, Fetch,
         AgcReturn, maps, spi, WellFormed, Begun
<1>2. MapsShape' /\ ChipShape'
  BY <1>1 DEF BoardInv, MapsShape, ChipShape, ConfigOnChip
<1>3. CASE SelectChannel
  <2>1. spiWrite' = [spiWrite EXCEPT ![MonReg] = [reg |-> MonReg, val |-> agcChan]]
        /\ spiPc = "idle" /\ spiPc' = "write" /\ agcChan < NumAgc
        /\ UNCHANGED <<spiOp, agcChan, agcData>>
    BY <1>3 DEF SelectChannel, PutWords, agcVars
  <2>2. BoardTypeOK'
    BY <1>1, <2>1 DEF BoardInv, BoardTypeOK, Word
  <2>3. SpiShape' /\ AgcShape'
    BY <1>1, <2>1 DEF BoardInv, SpiShape, AgcShape
  <2>4. WordsShape'
    BY <1>1, <2>1 DEF BoardInv, BoardTypeOK, WordsShape, Begun
  <2> QED
    BY <1>2, <2>2, <2>3, <2>4 DEF BoardInv
<1>4. CASE GiveWrite \/ GiveRead
  <2>1. UNCHANGED <<spiWrite, agcChan, agcData>> /\ spiOp = "none"
        /\ \/ spiPc = "write" /\ spiPc' = "read" /\ spiOp' = "write"
           \/ spiPc = "read" /\ spiPc' = "fetch" /\ spiOp' = "read"
    BY <1>4 DEF GiveWrite, GiveRead, agcVars
  <2>2. BoardTypeOK' /\ SpiShape'
    BY <1>1, <2>1 DEF BoardInv, BoardTypeOK, SpiShape
  <2>3. WordsShape'
    BY <1>1, <2>1 DEF BoardInv, WordsShape
  <2>4. AgcShape'
    BY <1>1, <2>1 DEF BoardInv, AgcShape
  <2> QED
    BY <1>2, <2>2, <2>3, <2>4 DEF BoardInv
<1>5. CASE ReadChannel
  <2>1. UNCHANGED <<spiWrite, spiOp>> /\ spiOp = "none" /\ spiPc = "fetch" /\ spiPc' = "idle"
        /\ agcChan' = agcChan + 1 /\ agcData' = [agcData EXCEPT ![agcChan] = spiRead[MonReg]]
    BY <1>5 DEF ReadChannel, Fetch
  <2>2. agcChan < NumAgc /\ agcChan \in 0 .. NumAgc
    BY <2>1 DEF BoardInv, BoardTypeOK, SpiShape
  <2>3. BoardTypeOK' /\ SpiShape'
    BY <1>1, <2>1, <2>2 DEF BoardInv, BoardTypeOK, SpiShape
  <2>4. WordsShape'
    BY <1>1, <2>1 DEF BoardInv, WordsShape
  <2>5. AgcShape'
    BY <1>1, <2>1, <2>2 DEF BoardInv, BoardTypeOK, AgcShape
  <2> QED
    BY <1>2, <2>3, <2>4, <2>5 DEF BoardInv
<1>6. CASE AgcReturn
  <2>1. agcChan = NumAgc /\ agcChan' = 0 /\ UNCHANGED <<spiWrite, spiOp, spiPc, agcData>>
    BY <1>6 DEF AgcReturn, spi
  <2>2. spiPc = "idle"
    BY <2>1 DEF BoardInv, SpiShape
  <2>3. BoardTypeOK' /\ SpiShape'
    BY <1>1, <2>1, <2>2 DEF BoardInv, BoardTypeOK, SpiShape
  <2>4. WordsShape' /\ AgcShape'
    BY <1>1, <2>1, <2>2 DEF BoardInv, WordsShape, AgcShape
  <2> QED
    BY <1>2, <2>3, <2>4 DEF BoardInv
<1> QED
  BY <1>3, <1>4, <1>5, <1>6 DEF GetAGCData

(***************************************************************************)
(* The mappings: the next member is the next of MapOrder.                  *)
(***************************************************************************)
LEMMA NextInOrder ==
  ASSUME NEW k \in 0 .. 5, held = Mapping(k)
  PROVE  NextMember = MapOrder[k + 1] /\ held \cup {NextMember} = Mapping(k + 1)
<1>1. \A i, j \in 1 .. 6 : MapOrder[i] = MapOrder[j] => i = j
  BY DEF MapOrder
<1>2. DOMAIN MapOrder = 1 .. 6
  BY DEF MapOrder
<1> HIDE DEF MapOrder
<1>3. \A i \in 1 .. 6 : MapOrder[i] \in held <=> i <= k
  BY <1>1 DEF Mapping
<1> DEFINE Least(i) == i \in 1 .. 6 /\ MapOrder[i] \notin held
                       /\ \A j \in 1 .. 6 : MapOrder[j] \notin held => i <= j
<1>4. \A i \in 1 .. 6 : Least(i) <=> i = k + 1
  BY <1>3
<1>5. NextMember = MapOrder[k + 1]
  <2>1. (CHOOSE i \in 1 .. 6 : Least(i)) = k + 1
    BY <1>4
  <2> QED
    BY <1>2, <2>1 DEF NextMember
<1>6. held \cup {MapOrder[k + 1]} = Mapping(k + 1)
  BY DEF Mapping
<1> QED
  BY <1>5, <1>6

\* The last member is m_ddrBaseOff.
LEMMA NextIsMember ==
    /\ \A k \in 0 .. 5 : MapOrder[k + 1] \in Members
                        /\ (MapOrder[k + 1] = "m_ddrBaseOff" <=> k = 5)
    /\ "m_ddrBaseOff" \in Members
    /\ Mapping(6) = Members
<1>1. DOMAIN MapOrder = 1 .. 6
  BY DEF MapOrder
<1>2. \A i \in 1 .. 6 : MapOrder[i] = "m_ddrBaseOff" <=> i = 6
  BY DEF MapOrder
<1> HIDE DEF MapOrder
<1>3. Mapping(6) = Members
  BY <1>1 DEF Mapping, Members
<1>4. MapOrder[6] \in Members
  BY <1>1 DEF Members
<1> QED
  BY <1>1, <1>2, <1>3, <1>4 DEF Members

(***************************************************************************)
(* InitializeHardware's steps. Programming is GiveWrite, GiveRead and      *)
(* CheckConfig on the words of the file; the other steps only map.         *)
(***************************************************************************)
LEMMA InitKeeps ==
    BoardInv /\ held \subseteq mapped /\ InitializeHardware
        => BoardInv' /\ held' \subseteq mapped'
<1> SUFFICES ASSUME BoardInv, held \subseteq mapped, InitializeHardware
             PROVE  BoardInv' /\ held' \subseteq mapped'
  OBVIOUS
<1> USE SpiAssumption DEF InitGoto
<1>1. CASE Parse
  <2>1. PICK stack \in StackWords : spiWrite' = ParseNTConfig(conf, stack)
    BY <1>1 DEF Parse, PutConfig, PutWords
  <2>2. conf # NoFile /\ spiPc' = "write" /\ initPc = "parse" /\ initPc' = "program"
        /\ UNCHANGED <<conf, spiOp, spiRead, chip, agcChan, agcData, mapped, held>>
    BY <1>1 DEF Parse, PutConfig, PutWords, SpiGoto, agcVars
  <2>3. BoardTypeOK'
    <3>1. Lines(conf) \in Seq(Word)
      BY <2>2 DEF BoardInv, BoardTypeOK
    <3>2. spiWrite' \in [Places -> Word]
      BY <2>1, <3>1 DEF ParseNTConfig, Places
    <3> QED
      BY <2>2, <3>2 DEF BoardInv, BoardTypeOK
  <2>4. SpiShape' /\ AgcShape' /\ MapsShape'
    BY <2>2 DEF BoardInv, SpiShape, AgcShape, MapsShape
  <2>5. WordsShape'
    <3>1. ASSUME WellFormed', NEW i \in Places PROVE spiWrite'[i] = Lines(conf)[i + 1]
      BY <2>1, <2>2, <3>1 DEF ParseNTConfig, WellFormed, Places
    <3> QED
      BY <2>2, <3>1 DEF WordsShape
  <2>6. ChipShape'
    BY <2>2 DEF ChipShape
  <2> QED
    BY <2>2, <2>3, <2>4, <2>5, <2>6 DEF BoardInv
<1>2. CASE Program
  <2>1. initPc = "program"
        /\ UNCHANGED <<conf, spiWrite, spiRead, chip, agcChan, agcData, mapped, held>>
        /\ spiOp = "none" /\ WellFormed' = WellFormed
        /\ \/ spiPc = "write" /\ spiPc' = "read" /\ spiOp' = "write" /\ initPc' = initPc
           \/ spiPc = "read" /\ spiPc' = "fetch" /\ spiOp' = "read" /\ initPc' = initPc
           \/ spiPc = "fetch" /\ spiPc' = "idle" /\ spiOp' = spiOp /\ initPc' = "configUnmap"
    BY <1>2 DEF Program, GiveWrite, GiveRead, CheckConfig, Fetch, SpiGoto, agcVars, WellFormed
  <2>2. BoardTypeOK' /\ SpiShape'
    BY <2>1 DEF BoardInv, BoardTypeOK, SpiShape
  <2>3. WordsShape' /\ AgcShape' /\ MapsShape'
    BY <2>1 DEF BoardInv, WordsShape, Begun, AgcShape, MapsShape
  <2>4. ChipShape'
    BY <2>1 DEF BoardInv, ChipShape, Begun, ConfigOnChip
  <2> QED
    BY <2>1, <2>2, <2>3, <2>4 DEF BoardInv
<1>3. ASSUME UNCHANGED <<conf, spi, agcVars>>, initPc' # "program",
             initPc \notin {"program", "initialized"}, Begun' => Begun,
             initPc' \in {"parse", "fpga", "map", "interrupts", "initialized", "failed",
                         "exit", "crashed"},
             held' \subseteq Members,
             mapped' \subseteq Members \cup {"mapped_base_1", "mapped_base_2", "mapped_base",
                                           "gpio", "pageStart"},
             MapsShape'
      PROVE  BoardInv'
  <2>1. WellFormed' = WellFormed
        /\ UNCHANGED <<conf, spiPc, spiOp, spiWrite, spiRead, chip, agcChan, agcData>>
    BY <1>3 DEF spi, agcVars, WellFormed
  <2>2. BoardTypeOK' /\ SpiShape'
    BY <1>3, <2>1 DEF BoardInv, BoardTypeOK, SpiShape
  <2>3. spiPc = "idle" /\ agcChan = 0
    BY <1>3 DEF BoardInv, SpiShape
  <2>4. WordsShape'
    BY <1>3, <2>1, <2>3 DEF BoardInv, WordsShape
  <2>5. ChipShape' /\ AgcShape'
    BY <1>3, <2>1, <2>3 DEF BoardInv, ChipShape, ConfigOnChip, AgcShape
  <2> QED
    BY <1>3, <2>2, <2>4, <2>5 DEF BoardInv
<1> USE DEF Begun
<1>4. CASE ConfigMap \/ ParseFails
  <2>1. initPc \in {"configMap", "parse"} /\ initPc' \in {"parse", "exit", "failed"}
        /\ UNCHANGED <<conf, spi, agcVars, held>>
    BY <1>4 DEF ConfigMap, ParseFails
  <2>2. mapped' = mapped \/ mapped' \subseteq {"mapped_base_1", "mapped_base_2", "mapped_base"}
    BY <1>4 DEF ConfigMap, ParseFails, ConfigMaps
  <2>3. held = {} /\ MapsShape'
    BY <2>1 DEF BoardInv, MapsShape
  <2> QED
    BY <1>3, <2>1, <2>2, <2>3 DEF BoardInv, BoardTypeOK
<1>5. CASE ConfigUnmap \/ ConfigureFPGASettings
  <2>1. initPc \in {"configUnmap", "fpga"} /\ initPc' \in {"fpga", "failed", "map"}
        /\ UNCHANGED <<conf, spi, agcVars, held>>
    BY <1>5 DEF ConfigUnmap, ConfigureFPGASettings
  <2>2. mapped' \subseteq mapped \cup {"gpio"}
    BY <1>5 DEF ConfigUnmap, ConfigureFPGASettings
  <2>3. held = {}
    BY <2>1 DEF BoardInv, MapsShape
  <2>4. held = Mapping(0)
    BY <2>3 DEF Mapping
  <2>5. MapsShape'
    BY <2>1, <2>3, <2>4 DEF MapsShape, Mapping
  <2> QED
    BY <1>3, <2>1, <2>2, <2>3, <2>5 DEF BoardInv, BoardTypeOK
<1>6. CASE MapMember
  <2>1. initPc = "map" /\ initPc' = (IF NextMember = "m_ddrBaseOff" THEN "interrupts" ELSE "map")
        /\ held' = held \cup {NextMember} /\ mapped' = mapped \cup {NextMember}
        /\ UNCHANGED <<conf, spi, agcVars>>
    BY <1>6 DEF MapMember, MemberGoto
  <2>2. PICK k \in 0 .. 5 : held = Mapping(k)
    BY <2>1 DEF BoardInv, MapsShape
  <2>3. held' = Mapping(k + 1) /\ NextMember \in Members
        /\ (NextMember = "m_ddrBaseOff" <=> k = 5)
    BY <2>1, <2>2, NextInOrder, NextIsMember
  <2>4. MapsShape'
    <3>1. CASE k = 5
      BY <2>1, <2>3, <3>1, NextIsMember DEF MapsShape
    <3>2. CASE k # 5
      BY <2>1, <2>3, <3>2 DEF MapsShape
    <3> QED
      BY <3>1, <3>2
  <2>5. BoardInv'
    <3>1. held' \subseteq Members
      BY <2>1, <2>3 DEF BoardInv, BoardTypeOK
    <3>2. mapped' \subseteq Members \cup {"mapped_base_1", "mapped_base_2", "mapped_base", "gpio",
                                       "pageStart"}
      BY <2>1, <2>3 DEF BoardInv, BoardTypeOK
    <3> QED
      BY <1>3, <2>1, <2>4, <3>1, <3>2
  <2> QED
    BY <2>1, <2>5
<1>7. CASE MapFails
  <2>1. initPc = "map" /\ initPc' \in {"failed", "crashed"} /\ held' = held
        /\ (mapped' = mapped \/ mapped' = mapped \cup {"m_ddrBaseOff"})
        /\ UNCHANGED <<conf, spi, agcVars>>
    BY <1>7 DEF MapFails
  <2>2. "m_ddrBaseOff" \in Members
    BY NextIsMember
  <2> QED
    BY <1>3, <2>1, <2>2 DEF BoardInv, BoardTypeOK, MapsShape
<1>8. CASE EnableAXI_Interrupts
  BY <1>3, <1>8 DEF EnableAXI_Interrupts, BoardInv, BoardTypeOK, MapsShape
<1> QED
  BY <1>1, <1>2, <1>4, <1>5, <1>6, <1>7, <1>8 DEF InitializeHardware

\* The destructor's unmapping touches nothing else.
LEMMA ReleaseKeeps == BoardInv /\ ReleaseMaps => BoardInv'
BY DEF ReleaseMaps, BoardInv, BoardTypeOK, SpiShape, WordsShape, ChipShape, ConfigOnChip,
       AgcShape, MapsShape, Begun, WellFormed, spi, agcVars

LEMMA BoardStutter == BoardInv /\ UNCHANGED board => BoardInv'
BY DEF board, maps, BoardInv, BoardTypeOK, SpiShape, WordsShape, ChipShape, ConfigOnChip,
       AgcShape, MapsShape, Begun, WellFormed, spi, agcVars
=============================================================================
