---------------------------- MODULE HardwareInit ----------------------------
(***************************************************************************)
(* HardwareManager::InitializeHardware and the release of what it maps.    *)
(* open, mmap and munmap are the system's and may fail at every call. A    *)
(* region is named for the pointer that is to hold it; an address of       *)
(* memory that is mapped but whose pointer is lost stays in "mapped".      *)
(***************************************************************************)
EXTENDS NT1065, FiniteSets

VARIABLES initPc,
          mapped,       \* the regions mapped
          held          \* HardwareManager's pointers that are not NULL

maps == <<initPc, mapped, held>>
board == <<conf, spi, agcVars, maps>>

\* The members InitializeHardware maps, in this order: all but the last by mmapDDR.
SpiMembers == {"m_spiWrite", "m_spiBase", "m_spiRead"}
MapOrder == <<"m_intrBase", "m_cdmaBase", "m_spiWrite", "m_spiBase", "m_spiRead", "m_ddrBaseOff">>
Members == {MapOrder[i] : i \in DOMAIN MapOrder}

\* ConfigureNT1065's own mappings, in the order it releases them.
ConfigMaps == <<"mapped_base_1", "mapped_base_2", "mapped_base">>

BoardInit ==
    /\ SpiInit
    /\ initPc = "configMap" /\ mapped = {} /\ held = {}

InitGoto(from, to) == initPc = from /\ initPc' = to

-----------------------------------------------------------------------------
(* ConfigureNT1065                                                         *)

\* The program exits if one of the first two mappings fails, not if the third does.
ConfigMap ==
    /\ \/ /\ InitGoto("configMap", "parse")
          /\ mapped' = {ConfigMaps[i] : i \in 1 .. 3}
       \/ /\ InitGoto("configMap", "exit")
          /\ mapped' \in {{}, {"mapped_base_1"}}
       \/ /\ InitGoto("configMap", "failed")
          /\ mapped' \in {{}, {"mapped_base_1", "mapped_base"}}
    /\ UNCHANGED <<conf, spi, agcVars, held>>

ParseFails ==
    /\ InitGoto("parse", "failed")
    /\ conf = NoFile
    /\ UNCHANGED <<conf, spi, agcVars, mapped, held>>

Parse == InitGoto("parse", "program") /\ PutConfig /\ UNCHANGED <<mapped, held>>

Program ==
    /\ initPc = "program"
    /\ \/ (GiveWrite \/ GiveRead) /\ UNCHANGED initPc
       \/ CheckConfig /\ initPc' = "configUnmap"
    /\ UNCHANGED <<mapped, held>>

\* The first munmap that fails ends it.
ConfigUnmap ==
    /\ \E n \in 0 .. 3 :
          /\ InitGoto("configUnmap", IF n = 3 THEN "fpga" ELSE "failed")
          /\ mapped' = mapped \ {ConfigMaps[i] : i \in 1 .. n}
    /\ UNCHANGED <<conf, spi, agcVars, held>>

-----------------------------------------------------------------------------
\* ConfigureFPGASettings: the settings are written and the mapping released, or either
\* of the two mapping calls fails.
ConfigureFPGASettings ==
    /\ \/ InitGoto("fpga", "map") /\ UNCHANGED mapped
       \/ InitGoto("fpga", "failed") /\ mapped' \in {mapped, mapped \cup {"gpio"}}
    /\ UNCHANGED <<conf, spi, agcVars, held>>

\* The member InitializeHardware maps next, and what follows the success of that.
NextMember == MapOrder[CHOOSE i \in DOMAIN MapOrder :
                          /\ MapOrder[i] \notin held
                          /\ \A j \in DOMAIN MapOrder : MapOrder[j] \notin held => i <= j]

MemberGoto ==
    /\ initPc = "map" /\ initPc' = IF NextMember = "m_ddrBaseOff" THEN "interrupts" ELSE "map"
    /\ held' = held \cup {NextMember}

MapMember ==
    /\ MemberGoto
    /\ mapped' = mapped \cup {NextMember}
    /\ UNCHANGED <<conf, spi, agcVars>>

\* Mutant: NULL is not looked for.
MapFailsUnseen == MemberGoto /\ UNCHANGED <<conf, spi, agcVars, mapped>>

\* mmapDDR or mmapDMABuffer returns NULL. The latter may do so with the buffer mapped, and
\* the former, where it was given no pageStart, prints through it when mmap fails.
MapFails ==
    /\ \/ InitGoto("map", "failed") /\ UNCHANGED mapped
       \/ /\ InitGoto("map", "failed")
          /\ NextMember = "m_ddrBaseOff" /\ mapped' = mapped \cup {NextMember}
       \/ /\ InitGoto("map", "crashed")
          /\ NextMember \in SpiMembers /\ UNCHANGED mapped
    /\ UNCHANGED <<conf, spi, agcVars, held>>

\* Interrupts are enabled through a mapping of their own, which is released.
EnableAXI_Interrupts ==
    /\ \/ InitGoto("interrupts", "initialized") /\ UNCHANGED mapped
       \/ InitGoto("interrupts", "failed") /\ mapped' \in {mapped, mapped \cup {"pageStart"}}
    /\ UNCHANGED <<conf, spi, agcVars, held>>

InitializeHardware ==
    \/ ConfigMap \/ ParseFails \/ Parse \/ Program \/ ConfigUnmap \/ ConfigureFPGASettings
    \/ MapMember \/ MapFails \/ EnableAXI_Interrupts

\* ~HardwareManager: for m_cdmaBase and m_intrBase it is m_ddrBase that is unmapped, NULL.
ReleaseMaps ==
    /\ mapped' = mapped \ (held \ {"m_cdmaBase", "m_intrBase"})
    /\ UNCHANGED <<conf, spi, agcVars, initPc, held>>

-----------------------------------------------------------------------------
(* What is checked                                                         *)

BoardTypeOK ==
    /\ conf \in ConfFiles
    /\ spiPc \in {"idle", "write", "read", "fetch"} /\ spiOp \in {"none", "write", "read"}
    /\ spiWrite \in [Places -> Word]
    /\ spiRead \in [Registers -> Nat] /\ chip \in [Registers -> Nat]
    /\ agcChan \in 0 .. NumAgc /\ agcData \in [0 .. NumAgc - 1 -> Nat]
    /\ initPc \in {"configMap", "parse", "program", "configUnmap", "fpga", "map", "interrupts",
                   "initialized", "failed", "exit", "crashed"}
    /\ held \subseteq Members
    /\ mapped \subseteq Members \cup {"mapped_base_1", "mapped_base_2", "mapped_base", "gpio",
                                    "pageStart"}

(***************************************************************************)
(* The chip keeps the configuration for as long as the program runs, also  *)
(* though GetAGCData writes all words again, one of them replaced.         *)
(***************************************************************************)
Configured ==
    WellFormed /\ initPc = "initialized" =>
        \A i \in 1 .. NumWords :
            Lines(conf)[i].reg # MonReg => chip[Lines(conf)[i].reg] = Lines(conf)[i].val
=============================================================================
