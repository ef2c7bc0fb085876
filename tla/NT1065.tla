------------------------------- MODULE NT1065 -------------------------------
(***************************************************************************)
(* The NT1065 front end as HardwareManager uses it: ParseNTConfig and the  *)
(* programming in ConfigureNT1065, and GetAGCData, all on the main thread, *)
(* against the SPI driver in the FPGA. Driver and chip are not in this     *)
(* repository: an instruction makes the driver busy, and at some time      *)
(* later it has copied the words of its write memory to the registers they *)
(* name, one after the other, or all registers to its read memory. A       *)
(* register's value stands for its byte; the one that selects the channel  *)
(* to be monitored is the channel.                                         *)
(***************************************************************************)
EXTENDS Naturals, Sequences

CONSTANTS NumWords,     \* 41, SpiWrBuffer
          NumRegs,      \* 49, SpiRdBuffer
          MonReg,       \* 5, the register that selects the channel, and a place in spiWrite
          NumAgc,       \* 4, the channels of GetAGCData
          Comment,      \* a line that begins with ;
          NoFile,       \* a configuration that cannot be opened
          ConfFiles,    \* bound: the configuration files considered
          StackWords    \* bound: what SpiWrBuffer may hold before it is filled

Places == 0 .. NumWords - 1
Registers == 0 .. NumRegs - 1
Word == [reg : Registers, val : Nat]

Lines(file) == SelectSeq(file, LAMBDA line : line # Comment)

ASSUME SpiAssumption ==
    /\ NumWords \in Nat /\ NumRegs \in Nat /\ NumAgc \in Nat
    /\ MonReg \in Places \cap Registers
    /\ \A file \in ConfFiles \ {NoFile} : Lines(file) \in Seq(Word)
    /\ StackWords \subseteq Word

VARIABLES conf,         \* the file m_conf_filename names
          spiPc,        \* the next step of a write and read back
          spiOp,        \* what the driver is busy with
          spiWrite,     \* its write memory
          spiRead,      \* its read memory
          chip,         \* the NT1065's registers
          agcChan,      \* channel, in GetAGCData
          agcData       \* its dataArray: the channel each value was measured on

spi == <<spiPc, spiOp, spiWrite, spiRead, chip>>
agcVars == <<agcChan, agcData>>

SpiInit ==
    /\ conf \in ConfFiles
    /\ spiPc = "idle" /\ spiOp = "none"
    /\ \E w \in StackWords : spiWrite = [i \in Places |-> w]
    /\ spiRead = [r \in Registers |-> 0] /\ chip = [r \in Registers |-> 0]
    /\ agcChan = 0 /\ agcData = [c \in 0 .. NumAgc - 1 |-> 0]

-----------------------------------------------------------------------------
(* The driver                                                              *)

\* The last of the words that name a register decides.
Written ==
    [r \in Registers |->
        LET named == {i \in Places : spiWrite[i].reg = r}
        IN  IF named = {} THEN chip[r]
            ELSE spiWrite[CHOOSE i \in named : \A j \in named : j <= i].val]

DriverWrite ==
    /\ spiOp = "write" /\ spiOp' = "none"
    /\ chip' = Written
    /\ UNCHANGED <<conf, spiPc, spiWrite, spiRead, agcVars>>

DriverRead ==
    /\ spiOp = "read" /\ spiOp' = "none"
    /\ spiRead' = chip
    /\ UNCHANGED <<conf, spiPc, spiWrite, chip, agcVars>>

Driver == DriverWrite \/ DriverRead

-----------------------------------------------------------------------------
(* What ConfigureNT1065 and GetAGCData have in common: words are put into  *)
(* the write memory, and written and read back, each after a wait for the  *)
(* driver not to be busy, as is the fetching of the values.                *)

SpiGoto(from, to) == spiPc = from /\ spiPc' = to

PutWords(words) ==
    /\ SpiGoto("idle", "write")
    /\ spiWrite' = words
    /\ UNCHANGED <<spiOp, spiRead, chip>>

GiveWrite ==
    /\ SpiGoto("write", "read")
    /\ spiOp = "none" /\ spiOp' = "write"
    /\ UNCHANGED <<conf, spiWrite, spiRead, chip, agcVars>>

\* Mutant: the instruction to read does not wait for the write.
GiveReadAtOnce ==
    /\ SpiGoto("read", "fetch")
    /\ spiOp' = "read"
    /\ UNCHANGED <<conf, spiWrite, spiRead, chip, agcVars>>

GiveRead ==
    /\ SpiGoto("read", "fetch")
    /\ spiOp = "none" /\ spiOp' = "read"
    /\ UNCHANGED <<conf, spiWrite, spiRead, chip, agcVars>>

Fetch ==
    /\ SpiGoto("fetch", "idle")
    /\ spiOp = "none"
    /\ UNCHANGED <<spiOp, spiWrite, spiRead, chip>>

-----------------------------------------------------------------------------
(* The configuration                                                       *)

\* Mutant: comments are not passed over but leave a gap.
ParseNTConfigGap(file, stack) ==
    [i \in Places |-> IF i < Len(file) /\ file[i + 1] # Comment THEN file[i + 1] ELSE stack]

\* The words of the file, as many as there is room for; the rest is what was on the stack.
ParseNTConfig(file, stack) ==
    [i \in Places |-> IF i < Len(Lines(file)) THEN Lines(file)[i + 1] ELSE stack]

PutConfig ==
    /\ conf # NoFile
    /\ \E stack \in StackWords : PutWords(ParseNTConfig(conf, stack))
    /\ UNCHANGED <<conf, agcVars>>

\* A difference from what was written is only warned of.
CheckConfig == Fetch /\ UNCHANGED <<conf, agcVars>>

-----------------------------------------------------------------------------
(* GetAGCData                                                              *)

\* Mutant: the word lacks the register's number.
SelectChannelBare ==
    /\ agcChan < NumAgc
    /\ PutWords([spiWrite EXCEPT ![MonReg] = [reg |-> 0, val |-> agcChan]])
    /\ UNCHANGED <<conf, agcVars>>

\* The sixth place of the write memory is used, whatever word the configuration has there.
SelectChannel ==
    /\ agcChan < NumAgc
    /\ PutWords([spiWrite EXCEPT ![MonReg] = [reg |-> MonReg, val |-> agcChan]])
    /\ UNCHANGED <<conf, agcVars>>

ReadChannel ==
    /\ Fetch
    /\ agcData' = [agcData EXCEPT ![agcChan] = spiRead[MonReg]]
    /\ agcChan' = agcChan + 1
    /\ UNCHANGED conf

GetAGCData == SelectChannel \/ GiveWrite \/ GiveRead \/ ReadChannel

AgcReturn ==
    /\ agcChan = NumAgc /\ agcChan' = 0
    /\ UNCHANGED <<conf, spi, agcData>>

-----------------------------------------------------------------------------
(***************************************************************************)
(* "Requires: well formed conf_filename": NumWords lines, each of another  *)
(* register, the one that selects the channel not after its own place.     *)
(***************************************************************************)
WellFormed ==
    /\ conf # NoFile
    /\ Len(Lines(conf)) >= NumWords
    /\ \A i, j \in 1 .. NumWords : i # j => Lines(conf)[i].reg # Lines(conf)[j].reg
    /\ \A i \in 1 .. NumWords : Lines(conf)[i].reg = MonReg => i <= MonReg + 1
=============================================================================
