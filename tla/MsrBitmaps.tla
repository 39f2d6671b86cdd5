------------------------------ MODULE MsrBitmaps ------------------------------
(****************************************************************************)
(* The MSR bitmap page (src/vmm/msr_bitmaps.c): four bitmaps of             *)
(* BITMAP_FOR_HIGH_MSRS bytes each, for reads of low MSRs, reads of high    *)
(* MSRs, writes of low MSRs and writes of high MSRs.  The page is the set   *)
(* of its bits that are 1, a bit being a pair <<byte, bit in the byte>>.    *)
(****************************************************************************)
EXTENDS Integers

CONSTANTS BITMAP_FOR_HIGH_MSRS, \* bytes of one bitmap, 1024 in the code
          MIN_HIGH_MSR,         \* first high MSR, 0xC0000000 in the code
          Msr,                  \* the MSRs passed to the two operations
          InitialBits           \* contents the page may have when the host starts

MIN_LOW_MSR == 0
MAX_LOW_MSR == 8 * BITMAP_FOR_HIGH_MSRS - 1
MAX_HIGH_MSR == MIN_HIGH_MSR + 8 * BITMAP_FOR_HIGH_MSRS - 1
BITMAP_FOR_WRMSR == 2 * BITMAP_FOR_HIGH_MSRS

PageBits == (0 .. 4 * BITMAP_FOR_HIGH_MSRS - 1) \X (0 .. 7)

\* 1024 bytes per bitmap; the high range lies above the low one and starts at
\* a multiple of 8.
ASSUME BitmapAssumption ==
    /\ BITMAP_FOR_HIGH_MSRS \in Nat \ {0}
    /\ MIN_HIGH_MSR \in Nat
    /\ MIN_HIGH_MSR > MAX_LOW_MSR
    /\ MIN_HIGH_MSR % 8 = 0
    /\ Msr \subseteq Nat
    /\ InitialBits \subseteq SUBSET PageBits

VARIABLES msr_bitmaps, \* the bits of cpu_data->msr_bitmaps that are 1
          panicked     \* a PANIC has stopped the machine

vars == <<msr_bitmaps, panicked>>
-------------------------------------------------------------------------------
LowMsr == MIN_LOW_MSR .. MAX_LOW_MSR
HighMsr == MIN_HIGH_MSR .. MAX_HIGH_MSR
Monitorable == LowMsr \cup HighMsr

\* Mutants, used by no definition: plausible slips in the index computation.
WriteBitNoHigh(msr) ==
    <<IF msr \in LowMsr THEN msr \div 8 + BITMAP_FOR_WRMSR
                        ELSE (msr - MIN_HIGH_MSR) \div 8 + BITMAP_FOR_WRMSR, msr % 8>>
ReadBitNotDivided(msr) ==
    <<IF msr \in LowMsr THEN msr ELSE msr - MIN_HIGH_MSR + BITMAP_FOR_HIGH_MSRS, msr % 8>>

\* The bit monitor_rdmsr sets: msr_bitmaps[msr_index] |= 1 << (msr & 0b0111).
ReadBit(msr) ==
    <<IF msr \in LowMsr THEN msr \div 8
                        ELSE (msr - MIN_HIGH_MSR) \div 8 + BITMAP_FOR_HIGH_MSRS,
      msr % 8>>

\* The bit monitor_wrmsr sets.
WriteBit(msr) ==
    <<IF msr \in LowMsr
        THEN msr \div 8 + BITMAP_FOR_WRMSR
        ELSE (msr - MIN_HIGH_MSR) \div 8 + BITMAP_FOR_WRMSR + BITMAP_FOR_HIGH_MSRS,
      msr % 8>>

\* cpu_data is a fixed address: nothing clears the page before its first use.
Init == /\ msr_bitmaps \in InitialBits
        /\ panicked = FALSE

monitor(msr, bit) ==
    /\ ~panicked
    /\ \/ /\ msr \in Monitorable
          /\ msr_bitmaps' = msr_bitmaps \cup {bit}
          /\ UNCHANGED panicked
       \/ /\ msr \notin Monitorable
          /\ panicked' = TRUE
          /\ UNCHANGED msr_bitmaps

monitor_rdmsr(msr) == monitor(msr, ReadBit(msr))
monitor_wrmsr(msr) == monitor(msr, WriteBit(msr))

Next == \E msr \in Msr : monitor_rdmsr(msr) \/ monitor_wrmsr(msr)

Spec == Init /\ [][Next]_vars
-------------------------------------------------------------------------------
(****************************************************************************)
(* The processor's side (SDM 24.6.9 and 25.1.3, named in msr_bitmaps.h):    *)
(* the page is four consecutive bitmaps, each indexed by the low bits of    *)
(* the MSR, and an MSR outside both ranges always exits.                    *)
(****************************************************************************)
PageBit(quarter, offset) ==
    <<quarter * BITMAP_FOR_HIGH_MSRS + offset \div 8, offset % 8>>

RdmsrExits(bits, msr) ==
    \/ msr \notin Monitorable
    \/ msr \in LowMsr /\ PageBit(0, msr) \in bits
    \/ msr \in HighMsr /\ PageBit(1, msr - MIN_HIGH_MSR) \in bits

WrmsrExits(bits, msr) ==
    \/ msr \notin Monitorable
    \/ msr \in LowMsr /\ PageBit(2, msr) \in bits
    \/ msr \in HighMsr /\ PageBit(3, msr - MIN_HIGH_MSR) \in bits
-------------------------------------------------------------------------------
TypeOK == /\ msr_bitmaps \subseteq PageBits
          /\ panicked \in BOOLEAN

ReadsMonitored == {msr \in Monitorable : RdmsrExits(msr_bitmaps, msr)}
WritesMonitored == {msr \in Monitorable : WrmsrExits(msr_bitmaps, msr)}

Monitor == INSTANCE MsrMonitor WITH reads <- ReadsMonitored,
                                    writes <- WritesMonitored,
                                    halted <- panicked

\* monitor_rdmsr and monitor_wrmsr make the processor intercept exactly the
\* MSR they are given, for exactly that kind of access, whatever bits were
\* already set: the byte and bit they compute never fall on another MSR's bit
\* (src/vmm/msr_bitmaps.c:19 and :32).  The page refines MsrMonitor, and each
\* operation is the abstract one for the same MSR.
MonitorsExactlyTheMsr ==
    /\ Monitor!Spec
    /\ [][\A msr \in Msr :
            /\ monitor_rdmsr(msr) => Monitor!MonitorReads(msr) \/ Monitor!Refuse(msr)
            /\ monitor_wrmsr(msr) => Monitor!MonitorWrites(msr) \/ Monitor!Refuse(msr)]_vars
===============================================================================
