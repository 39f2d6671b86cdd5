--------------------------- MODULE MsrBitmapsProofs ---------------------------
(****************************************************************************)
(* For every bitmap size and every base of the high range: the page stays a *)
(* page, and the two operations implement MsrMonitor.                       *)
(****************************************************************************)
EXTENDS MsrBitmaps, TLAPS

\* The bit monitor_rdmsr sets is inside the page (msr_bitmaps.c:19).
LEMMA ReadBitInPage ==
    ASSUME NEW msr \in Monitorable
    PROVE  ReadBit(msr) \in PageBits
<1> USE BitmapAssumption
<1>1. msr \in Int /\ msr % 8 \in 0 .. 7
  BY DEF Monitorable, LowMsr, HighMsr, MIN_LOW_MSR, MAX_LOW_MSR, MAX_HIGH_MSR
<1>2. CASE msr \in LowMsr
  <2>1. msr \div 8 \in 0 .. BITMAP_FOR_HIGH_MSRS - 1
    BY <1>2, <1>1 DEF LowMsr, MIN_LOW_MSR, MAX_LOW_MSR
  <2> QED BY <2>1, <1>1, <1>2 DEF ReadBit, PageBits
<1>3. CASE msr \notin LowMsr
  <2>1. (msr - MIN_HIGH_MSR) \div 8 \in 0 .. BITMAP_FOR_HIGH_MSRS - 1
    BY <1>3, <1>1 DEF Monitorable, HighMsr, MAX_HIGH_MSR
  <2> QED BY <2>1, <1>1, <1>3 DEF ReadBit, PageBits
<1> QED BY <1>2, <1>3

\* The bit monitor_wrmsr sets is inside the page (msr_bitmaps.c:32).
LEMMA WriteBitInPage ==
    ASSUME NEW msr \in Monitorable
    PROVE  WriteBit(msr) \in PageBits
<1> USE BitmapAssumption
<1>1. msr \in Int /\ msr % 8 \in 0 .. 7
  BY DEF Monitorable, LowMsr, HighMsr, MIN_LOW_MSR, MAX_LOW_MSR, MAX_HIGH_MSR
<1>2. CASE msr \in LowMsr
  <2>1. msr \div 8 \in 0 .. BITMAP_FOR_HIGH_MSRS - 1
    BY <1>2, <1>1 DEF LowMsr, MIN_LOW_MSR, MAX_LOW_MSR
  <2> QED BY <2>1, <1>1, <1>2 DEF WriteBit, PageBits, BITMAP_FOR_WRMSR
<1>3. CASE msr \notin LowMsr
  <2>1. (msr - MIN_HIGH_MSR) \div 8 \in 0 .. BITMAP_FOR_HIGH_MSRS - 1
    BY <1>3, <1>1 DEF Monitorable, HighMsr, MAX_HIGH_MSR
  <2> QED BY <2>1, <1>1, <1>3 DEF WriteBit, PageBits, BITMAP_FOR_WRMSR
<1> QED BY <1>2, <1>3

\* The page holds bits of the page and nothing else, whatever MSRs are passed.
THEOREM TypeCorrect == Spec => []TypeOK
<1>1. Init => TypeOK
  BY BitmapAssumption DEF Init, TypeOK
<1>2. TypeOK /\ [Next]_vars => TypeOK'
  BY ReadBitInPage, WriteBitInPage
  DEF TypeOK, Next, vars, monitor_rdmsr, monitor_wrmsr, monitor
<1> QED BY <1>1, <1>2, PTL DEF Spec

\* The bits the two operations set are the bits the processor consults.
LEMMA ReadBitIsConsulted ==
    ASSUME NEW msr \in Monitorable, NEW bits
    PROVE  RdmsrExits(bits, msr) <=> ReadBit(msr) \in bits
<1> USE BitmapAssumption
<1>1. CASE msr \in LowMsr
  <2>1. msr \notin HighMsr /\ ReadBit(msr) = PageBit(0, msr)
    BY <1>1 DEF LowMsr, HighMsr, MIN_LOW_MSR, MAX_LOW_MSR, MAX_HIGH_MSR, ReadBit, PageBit
  <2> QED BY <2>1, <1>1 DEF RdmsrExits
<1>2. CASE msr \notin LowMsr
  <2>1. /\ msr \in HighMsr
        /\ (msr - MIN_HIGH_MSR) % 8 = msr % 8
    BY <1>2 DEF Monitorable, HighMsr, MAX_HIGH_MSR
  <2>2. ReadBit(msr) = PageBit(1, msr - MIN_HIGH_MSR)
    BY <1>2, <2>1 DEF HighMsr, MAX_HIGH_MSR, ReadBit, PageBit
  <2> QED BY <2>1, <2>2, <1>2 DEF RdmsrExits
<1> QED BY <1>1, <1>2

LEMMA WriteBitIsConsulted ==
    ASSUME NEW msr \in Monitorable, NEW bits
    PROVE  WrmsrExits(bits, msr) <=> WriteBit(msr) \in bits
<1> USE BitmapAssumption
<1>1. CASE msr \in LowMsr
  <2>1. msr \notin HighMsr /\ WriteBit(msr) = PageBit(2, msr)
    BY <1>1 DEF LowMsr, HighMsr, MIN_LOW_MSR, MAX_LOW_MSR, MAX_HIGH_MSR,
                WriteBit, PageBit, BITMAP_FOR_WRMSR
  <2> QED BY <2>1, <1>1 DEF WrmsrExits
<1>2. CASE msr \notin LowMsr
  <2>1. /\ msr \in HighMsr
        /\ (msr - MIN_HIGH_MSR) % 8 = msr % 8
    BY <1>2 DEF Monitorable, HighMsr, MAX_HIGH_MSR
  <2>2. WriteBit(msr) = PageBit(3, msr - MIN_HIGH_MSR)
    BY <1>2, <2>1 DEF HighMsr, MAX_HIGH_MSR, WriteBit, PageBit, BITMAP_FOR_WRMSR
  <2> QED BY <2>1, <2>2, <1>2 DEF WrmsrExits
<1> QED BY <1>1, <1>2

\* No two MSRs, and no read and write of MSRs, share a bit: a byte holds eight
\* consecutive MSRs, and the four bitmaps do not overlap.
LEMMA BitsAreDistinct ==
    ASSUME NEW m \in Monitorable, NEW n \in Monitorable
    PROVE  /\ ReadBit(m) = ReadBit(n) => m = n
           /\ WriteBit(m) = WriteBit(n) => m = n
           /\ ReadBit(m) # WriteBit(n)
<1> DEFINE B == BITMAP_FOR_HIGH_MSRS
<1> DEFINE Shape(k) ==
      \/ /\ k \in LowMsr
         /\ k \div 8 \in 0 .. B - 1
      \/ /\ k \notin LowMsr
         /\ (k - MIN_HIGH_MSR) \div 8 \in 0 .. B - 1
         /\ (k - MIN_HIGH_MSR) % 8 = k % 8
<1> USE BitmapAssumption
<1>1. \A k \in Monitorable : k \in Int /\ Shape(k)
  BY DEF Monitorable, LowMsr, HighMsr, MIN_LOW_MSR, MAX_LOW_MSR, MAX_HIGH_MSR
<1>2. \A i, j \in Int : i \div 8 = j \div 8 /\ i % 8 = j % 8 => i = j
  OBVIOUS
<1>3. m \in Int /\ n \in Int /\ Shape(m) /\ Shape(n)
  BY <1>1
<1>4. ReadBit(m) = ReadBit(n) => m = n
  <2> SUFFICES ASSUME ReadBit(m) = ReadBit(n) PROVE m = n
    OBVIOUS
  <2>1. m % 8 = n % 8 /\ ReadBit(m)[1] = ReadBit(n)[1]
    BY DEF ReadBit
  <2>2. CASE m \in LowMsr /\ n \in LowMsr
    BY <2>1, <2>2, <1>2, <1>3 DEF ReadBit
  <2>3. CASE m \notin LowMsr /\ n \notin LowMsr
    <3>1. (m - MIN_HIGH_MSR) \div 8 = (n - MIN_HIGH_MSR) \div 8
      BY <2>1, <2>3, <1>3 DEF ReadBit
    <3>2. m - MIN_HIGH_MSR = n - MIN_HIGH_MSR
      BY <3>1, <2>1, <2>3, <1>2, <1>3
    <3> QED BY <3>2, <1>3
  <2>4. CASE (m \in LowMsr) # (n \in LowMsr)
    BY <2>1, <2>4, <1>3 DEF ReadBit
  <2> QED BY <2>2, <2>3, <2>4
<1>5. WriteBit(m) = WriteBit(n) => m = n
  <2> SUFFICES ASSUME WriteBit(m) = WriteBit(n) PROVE m = n
    OBVIOUS
  <2>1. m % 8 = n % 8 /\ WriteBit(m)[1] = WriteBit(n)[1]
    BY DEF WriteBit
  <2>2. CASE m \in LowMsr /\ n \in LowMsr
    BY <2>1, <2>2, <1>2, <1>3 DEF WriteBit, BITMAP_FOR_WRMSR
  <2>3. CASE m \notin LowMsr /\ n \notin LowMsr
    <3>1. (m - MIN_HIGH_MSR) \div 8 = (n - MIN_HIGH_MSR) \div 8
      BY <2>1, <2>3, <1>3 DEF WriteBit, BITMAP_FOR_WRMSR
    <3>2. m - MIN_HIGH_MSR = n - MIN_HIGH_MSR
      BY <3>1, <2>1, <2>3, <1>2, <1>3
    <3> QED BY <3>2, <1>3
  <2>4. CASE (m \in LowMsr) # (n \in LowMsr)
    BY <2>1, <2>4, <1>3 DEF WriteBit, BITMAP_FOR_WRMSR
  <2> QED BY <2>2, <2>3, <2>4
<1>6. ReadBit(m) # WriteBit(n)
  <2>1. ReadBit(m)[1] < 2 * B /\ WriteBit(n)[1] >= 2 * B
    BY <1>3 DEF ReadBit, WriteBit, BITMAP_FOR_WRMSR
  <2>2. ReadBit(m)[1] \in Int /\ WriteBit(n)[1] \in Int
    BY <1>3 DEF ReadBit, WriteBit, BITMAP_FOR_WRMSR
  <2> QED BY <2>1, <2>2
<1> QED BY <1>4, <1>5, <1>6

\* monitor_rdmsr and monitor_wrmsr implement the promise of MsrMonitor: the set
\* of MSRs whose accesses the processor intercepts grows by exactly the MSR
\* passed (msr_bitmaps.c:12 and :25).
THEOREM Refinement == Spec => MonitorsExactlyTheMsr
<1>1. Init => Monitor!Init
  BY DEF Init, Monitor!Init, ReadsMonitored, WritesMonitored
<1>2. ASSUME NEW msr \in Msr, monitor_rdmsr(msr)
      PROVE  Monitor!MonitorReads(msr) \/ Monitor!Refuse(msr)
  <2>1. CASE msr \in Monitorable
    <3>1. msr_bitmaps' = msr_bitmaps \cup {ReadBit(msr)} /\ ~panicked /\ ~panicked'
      BY <1>2, <2>1 DEF monitor_rdmsr, monitor
    <3>2. ReadsMonitored' = ReadsMonitored \cup {msr}
      BY <3>1, <2>1, ReadBitIsConsulted, BitsAreDistinct DEF ReadsMonitored
    <3>3. WritesMonitored' = WritesMonitored
      BY <3>1, <2>1, WriteBitIsConsulted, BitsAreDistinct DEF WritesMonitored
    <3> QED BY <1>2, <2>1, <3>1, <3>2, <3>3 DEF monitor_rdmsr, monitor, Monitor!MonitorReads
  <2>2. CASE msr \notin Monitorable
    BY <1>2, <2>2 DEF monitor_rdmsr, monitor, Monitor!Refuse, ReadsMonitored, WritesMonitored
  <2> QED BY <2>1, <2>2
<1>3. ASSUME NEW msr \in Msr, monitor_wrmsr(msr)
      PROVE  Monitor!MonitorWrites(msr) \/ Monitor!Refuse(msr)
  <2>1. CASE msr \in Monitorable
    <3>1. msr_bitmaps' = msr_bitmaps \cup {WriteBit(msr)} /\ ~panicked /\ ~panicked'
      BY <1>3, <2>1 DEF monitor_wrmsr, monitor
    <3>2. WritesMonitored' = WritesMonitored \cup {msr}
      BY <3>1, <2>1, WriteBitIsConsulted, BitsAreDistinct DEF WritesMonitored
    <3>3. ReadsMonitored' = ReadsMonitored
      BY <3>1, <2>1, ReadBitIsConsulted, BitsAreDistinct DEF ReadsMonitored
    <3> QED BY <1>3, <2>1, <3>1, <3>2, <3>3 DEF monitor_wrmsr, monitor, Monitor!MonitorWrites
  <2>2. CASE msr \notin Monitorable
    BY <1>3, <2>2 DEF monitor_wrmsr, monitor, Monitor!Refuse, ReadsMonitored, WritesMonitored
  <2> QED BY <2>1, <2>2
<1>4. [Next]_vars => [Monitor!Next]_(Monitor!vars)
  <2> SUFFICES ASSUME [Next]_vars PROVE [Monitor!Next]_(Monitor!vars)
    OBVIOUS
  <2>1. CASE UNCHANGED vars
    BY <2>1 DEF vars, Monitor!vars, ReadsMonitored, WritesMonitored
  <2> QED BY <1>2, <1>3, <2>1 DEF Next, Monitor!Next
<1>5. \A msr \in Msr :
        /\ monitor_rdmsr(msr) => Monitor!MonitorReads(msr) \/ Monitor!Refuse(msr)
        /\ monitor_wrmsr(msr) => Monitor!MonitorWrites(msr) \/ Monitor!Refuse(msr)
  BY <1>2, <1>3
<1> QED BY <1>1, <1>4, <1>5, PTL DEF Spec, MonitorsExactlyTheMsr, Monitor!Spec
===============================================================================
