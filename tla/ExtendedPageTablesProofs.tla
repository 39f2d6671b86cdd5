----------------------- MODULE ExtendedPageTablesProofs -----------------------
(****************************************************************************)
(* For every table size and every number of page directories: the tables    *)
(* translate as GuestMemory promises, provided the memory they are built in *)
(* holds zeros in the bits that no setter writes.                           *)
(****************************************************************************)
EXTENDS ExtendedPageTables, TLAPS

CleanReserved == \A entry \in InitialEntry : entry.must_be_zero = 0

\* The shape of the tables after initialization, which updates preserve: every
\* upper entry leads to its own table, every leaf to its own page.
UpperEntry(frame) ==
    [flags |-> default_flags, physical_address |-> frame, must_be_zero |-> 0]

Shape ==
    /\ eptp.pml4 = PML4_FRAME
    /\ pml4[0] = UpperEntry(PDPT_FRAME)
    /\ \A i \in 0 .. MEMORY_SIZE - 1 : pdpt[i] = UpperEntry(PDS_FRAME + i)
    /\ \A i \in 0 .. TABLE_SIZE * MEMORY_SIZE - 1 : pds[i] = UpperEntry(PTS_FRAME + i)
    /\ \A i \in Page : pts[i].physical_address = i

ReservedZero ==
    /\ \A i \in 0 .. TABLE_SIZE - 1 : pml4[i].must_be_zero = 0 /\ pdpt[i].must_be_zero = 0
    /\ \A i \in 0 .. TABLE_SIZE * MEMORY_SIZE - 1 : pds[i].must_be_zero = 0
    /\ \A i \in Page : pts[i].must_be_zero = 0

IInv == TypeOK /\ ReservedZero /\ (eptp # NoPointer => Shape)
-------------------------------------------------------------------------------
LEMMA DivMod ==
    ASSUME NEW n \in Nat, NEW d \in Nat \ {0}
    PROVE  /\ n \div d \in Nat
           /\ n % d \in 0 .. d - 1
           /\ n = d * (n \div d) + (n % d)
OBVIOUS

\* A quotient below a bound.
LEMMA DivBound ==
    ASSUME NEW n \in Nat, NEW d \in Nat \ {0}, NEW m \in Nat, n < m * d
    PROVE  n \div d < m
<1> DEFINE q == n \div d
<1>1. q \in Nat /\ d * q <= n
  BY DivMod
<1> HIDE DEF q
<1>2. SUFFICES ASSUME q >= m PROVE FALSE
  BY <1>1 DEF q
<1>3. d * q >= d * m
  BY <1>1, <1>2
<1> QED BY <1>1, <1>3

\* Cutting a page number in indices, one table at a time.
LEMMA DivDiv ==
    ASSUME NEW n \in Nat, NEW d \in Nat \ {0}, NEW e \in Nat \ {0}
    PROVE  n \div (d * e) = (n \div d) \div e
<1> DEFINE q == n \div d
           r == n % d
           p == q \div e
           s == q % e
<1>1. q \in Nat /\ r \in 0 .. d - 1 /\ n = d * q + r
  BY DivMod
<1>2. p \in Nat /\ s \in 0 .. e - 1 /\ q = e * p + s
  BY DivMod, <1>1
<1> HIDE DEF q, r, p, s
<1>3. n = (d * e) * p + (d * s + r)
  <2>1. d * q = d * (e * p) + d * s
    BY <1>1, <1>2
  <2>2. d * (e * p) = (d * e) * p
    BY <1>1, <1>2
  <2>3. d * s \in Int
    BY <1>2
  <2>4. (d * e) * p \in Int
    BY <1>2
  <2> QED BY <2>1, <2>2, <2>3, <2>4, <1>1
<1>4. d * s + r \in 0 .. d * e - 1
  <2>1. d * s <= d * (e - 1) /\ d * s >= 0
    BY <1>2
  <2>2. d * (e - 1) = d * e - d
    OBVIOUS
  <2> QED BY <2>1, <2>2, <1>1, <1>2
<1>5. d * e \in Nat \ {0}
  OBVIOUS
<1>6. ASSUME NEW k \in Nat \ {0}, NEW x \in Nat, NEW y \in 0 .. k - 1
      PROVE  (k * x + y) \div k = x
  OBVIOUS
<1>7. n \div (d * e) = p
  BY <1>2, <1>3, <1>4, <1>5, <1>6
<1> QED BY <1>7 DEF p, q

LEMMA Indices ==
    ASSUME NEW page \in Page
    PROVE  /\ page \div (TABLE_SIZE * TABLE_SIZE * TABLE_SIZE) = 0
           /\ (page \div (TABLE_SIZE * TABLE_SIZE)) % TABLE_SIZE \in 0 .. MEMORY_SIZE - 1
           /\ page \div TABLE_SIZE \in 0 .. TABLE_SIZE * MEMORY_SIZE - 1
           /\ ((page \div (TABLE_SIZE * TABLE_SIZE)) % TABLE_SIZE) * TABLE_SIZE
                + ((page \div TABLE_SIZE) % TABLE_SIZE) = page \div TABLE_SIZE
           /\ (page \div TABLE_SIZE) * TABLE_SIZE + (page % TABLE_SIZE) = page
<1> DEFINE T == TABLE_SIZE
           M == MEMORY_SIZE
           k == page \div T
           j == page \div (T * T)
<1>1. T \in Nat \ {0} /\ M \in 1 .. T
  BY TablesAssumption
<1>2. page \in Nat /\ page < M * T * T
  BY <1>1 DEF Page
<1> HIDE DEF T, M
<1>3. /\ T * T \in Nat \ {0}
      /\ M * T \in Nat
      /\ T * T * T \in Nat \ {0}
      /\ M * T * T = (M * T) * T
      /\ M * T * T = M * (T * T)
  BY <1>1
<1>4. k \in Nat /\ k < M * T /\ k * T + (page % T) = page
  <2>1. k \in Nat /\ page = T * k + (page % T)
    BY DivMod, <1>1, <1>2
  <2>2. k < M * T
    BY DivBound, <1>1, <1>2, <1>3
  <2> QED BY <2>1, <2>2, <1>1, <1>2
<1>5. j \in Nat /\ j < M
  <2>1. j \in Nat
    BY DivMod, <1>2, <1>3
  <2>2. j < M
    BY DivBound, <1>1, <1>2, <1>3
  <2> QED BY <2>1, <2>2
<1>6. page \div (T * T * T) = 0
  <2>1. M * (T * T) <= T * (T * T)
    BY <1>1, <1>3
  <2>2. page < 1 * (T * T * T)
    BY <2>1, <1>1, <1>2, <1>3
  <2>3. page \div (T * T * T) < 1
    BY <2>2, <1>2, <1>3, DivBound
  <2>4. page \div (T * T * T) \in Nat
    BY <1>2, <1>3, DivMod
  <2> QED BY <2>3, <2>4
<1>7. j = k \div T
  BY DivDiv, <1>1, <1>2
<1>8. j % T = j
  <2> HIDE DEF j
  <2>1. \A x, y \in Nat : x < y => x % y = x
    OBVIOUS
  <2> QED BY <2>1, <1>1, <1>5
<1>9. j * T + (k % T) = k
  <2> HIDE DEF k, j
  <2>1. k = T * (k \div T) + (k % T) /\ k % T \in Nat
    BY DivMod, <1>1, <1>4
  <2> QED BY <2>1, <1>1, <1>5, <1>7
<1>10. k \in 0 .. T * M - 1
  <2> HIDE DEF k
  <2> QED BY <1>1, <1>4
<1> HIDE DEF k, j
<1>11. j % T \in 0 .. M - 1 /\ (j % T) * T + (k % T) = k
  BY <1>1, <1>5, <1>8, <1>9
<1> QED BY <1>4, <1>6, <1>10, <1>11 DEF T, M, k, j

\* The walk of a page ends at that page's own leaf, through upper entries that
\* give every right.
LEMMA WalkEndsAtLeaf ==
    ASSUME NEW page \in Page, Shape
    PROVE  Path(page) = <<UpperEntry(PDPT_FRAME),
                          UpperEntry(PDS_FRAME + ((page \div (TABLE_SIZE * TABLE_SIZE)) % TABLE_SIZE)),
                          UpperEntry(PTS_FRAME + (page \div TABLE_SIZE)),
                          pts[page]>>
<1> DEFINE i2 == (page \div (TABLE_SIZE * TABLE_SIZE)) % TABLE_SIZE
           i3 == (page \div TABLE_SIZE) % TABLE_SIZE
           i4 == page % TABLE_SIZE
           k == page \div TABLE_SIZE
<1>1. /\ page \div (TABLE_SIZE * TABLE_SIZE * TABLE_SIZE) = 0
      /\ i2 \in 0 .. MEMORY_SIZE - 1
      /\ k \in 0 .. TABLE_SIZE * MEMORY_SIZE - 1
      /\ i2 * TABLE_SIZE + i3 = k
      /\ k * TABLE_SIZE + i4 = page
  BY Indices
<1> HIDE DEF i2, i3, i4, k
<1>2. TABLE_SIZE \in Nat \ {0} /\ MEMORY_SIZE \in Nat \ {0} /\ EPTS_FRAME \in Nat
  BY TablesAssumption
<1>3. EntryAt(eptp.pml4, 0) = UpperEntry(PDPT_FRAME)
  BY <1>2 DEF Shape, EntryAt, PML4_FRAME, PDPT_FRAME, PDS_FRAME, PTS_FRAME
<1>4. EntryAt(PDPT_FRAME, i2) = UpperEntry(PDS_FRAME + i2)
  BY <1>1, <1>2 DEF Shape, EntryAt, PML4_FRAME, PDPT_FRAME, PDS_FRAME, PTS_FRAME
<1>5. EntryAt(PDS_FRAME + i2, i3) = UpperEntry(PTS_FRAME + k)
  <2>1. EntryAt(PDS_FRAME + i2, i3) = pds[i2 * TABLE_SIZE + i3]
    BY <1>1, <1>2 DEF EntryAt, PML4_FRAME, PDPT_FRAME, PDS_FRAME, PTS_FRAME
  <2> QED BY <2>1, <1>1 DEF Shape
<1>6. EntryAt(PTS_FRAME + k, i4) = pts[page]
  <2>1. EntryAt(PTS_FRAME + k, i4) = pts[k * TABLE_SIZE + i4]
    BY <1>1, <1>2, TablesAssumption
    DEF EntryAt, PML4_FRAME, PDPT_FRAME, PDS_FRAME, PTS_FRAME
  <2> QED BY <2>1, <1>1
<1> QED BY <1>1, <1>3, <1>4, <1>5, <1>6 DEF Path, UpperEntry, i2, i3, i4, k

\* So the page answers an access as its own leaf says.
LEMMA TranslateIsLeaf ==
    ASSUME NEW page \in Page, Shape, TypeOK, ReservedZero
    PROVE  Translate(page) = Memory!Translation(page, pts[page].flags)
<1> DEFINE path == Path(page)
<1>1. path = <<path[1], path[2], path[3], pts[page]>> /\ Outcome(path) = Translate(page)
  <2>1. \A x : (CHOOSE outcome \in {Outcome(y) : y \in {x}} : TRUE) = Outcome(x)
    OBVIOUS
  <2> QED BY <2>1, WalkEndsAtLeaf DEF Translate
<1>2. /\ path[1] = UpperEntry(path[1].physical_address)
      /\ path[2] = UpperEntry(path[2].physical_address)
      /\ path[3] = UpperEntry(path[3].physical_address)
      /\ path[4] = pts[page]
  BY WalkEndsAtLeaf DEF UpperEntry
<1> HIDE DEF path
<1>3. \A k \in 1 .. 3 : /\ path[k].flags = default_flags
                         /\ Present(path[k]) /\ ~Misconfigured(path[k], k)
  <2>1. \A a, k : Present(UpperEntry(a)) /\ ~Misconfigured(UpperEntry(a), k)
    BY DEF Present, Misconfigured, UpperEntry, default_flags, EPT_MEMORY_TYPE_UNCACHEABLE
  <2>2. \A k \in 1 .. 3 : k = 1 \/ k = 2 \/ k = 3
    OBVIOUS
  <2> QED BY <2>1, <2>2, <1>2 DEF UpperEntry
<1>4. pts[page] \in EntryType /\ pts[page].physical_address = page /\ pts[page].must_be_zero = 0
  BY DEF TypeOK, Shape, ReservedZero, Page
<1>5. \A k \in 1 .. 4 : k \in 1 .. 3 \/ k = 4
  OBVIOUS
<1>6. (\E level \in 1 .. 4 : /\ \A k \in 1 .. level - 1 : Present(path[k])
                             /\ Misconfigured(path[level], level))
      <=> pts[page].flags.write /\ ~pts[page].flags.read
  <2>1. Misconfigured(pts[page], 4) <=> pts[page].flags.write /\ ~pts[page].flags.read
    BY <1>4 DEF Misconfigured, Present
  <2>2. \A k \in 1 .. 4 - 1 : Present(path[k])
    BY <1>3
  <2> QED BY <2>1, <2>2, <1>2, <1>3, <1>5
<1>7. (\E level \in 1 .. 4 : ~Present(path[level])) <=> ~Present(pts[page])
  BY <1>2, <1>3, <1>5
<1>8. /\ (\A k \in 1 .. 4 : path[k].flags.read) <=> pts[page].flags.read
      /\ (\A k \in 1 .. 4 : path[k].flags.write) <=> pts[page].flags.write
      /\ (\A k \in 1 .. 4 : path[k].flags.execute) <=> pts[page].flags.execute
  BY <1>2, <1>3, <1>5 DEF default_flags
<1>9. [path[4].flags EXCEPT !.read = \A k \in 1 .. 4 : path[k].flags.read,
                            !.write = \A k \in 1 .. 4 : path[k].flags.write,
                            !.execute = \A k \in 1 .. 4 : path[k].flags.execute]
      = pts[page].flags
  <2> DEFINE f == pts[page].flags
             r == \A k \in 1 .. 4 : path[k].flags.read
             w == \A k \in 1 .. 4 : path[k].flags.write
             x == \A k \in 1 .. 4 : path[k].flags.execute
  <2>1. f \in FlagsType
    BY <1>4 DEF EntryType
  <2>2. r = f.read /\ w = f.write /\ x = f.execute
    BY <2>1, <1>8 DEF FlagsType
  <2>3. path[4].flags = f
    BY <1>2
  <2> HIDE DEF f, r, w, x
  <2>4. [f EXCEPT !.read = f.read, !.write = f.write, !.execute = f.execute] = f
    BY <2>1 DEF FlagsType
  <2>5. [f EXCEPT !.read = r, !.write = w, !.execute = x] = f
    BY <2>2, <2>4, Zenon
  <2> QED BY <2>3, <2>5, Zenon DEF f, r, w, x
<1>10. CASE pts[page].flags.write /\ ~pts[page].flags.read
  BY <1>1, <1>6, <1>10 DEF Outcome, Memory!Translation
<1>11. CASE ~Present(pts[page])
  BY <1>1, <1>6, <1>7, <1>11 DEF Outcome, Memory!Translation, Present
<1>12. CASE Present(pts[page]) /\ ~(pts[page].flags.write /\ ~pts[page].flags.read)
  BY <1>1, <1>2, <1>4, <1>6, <1>7, <1>9, <1>12 DEF Outcome, Memory!Translation, Present
<1> QED BY <1>10, <1>11, <1>12
-------------------------------------------------------------------------------
LEMMA InitIInv == ASSUME CleanReserved PROVE Init => IInv
<1> SUFFICES ASSUME Init PROVE IInv
  OBVIOUS
<1>1. PICK entry \in InitialEntry :
        /\ pml4 = [i \in 0 .. TABLE_SIZE - 1 |-> entry]
        /\ pdpt = [i \in 0 .. TABLE_SIZE - 1 |-> entry]
        /\ pds = [i \in 0 .. TABLE_SIZE * MEMORY_SIZE - 1 |-> entry]
        /\ pts = [i \in Page |-> entry]
  BY DEF Init
<1>2. entry \in EntryType /\ entry.must_be_zero = 0
  BY TablesAssumption DEF CleanReserved
<1>3. TypeOK
  BY <1>1, <1>2 DEF Init, TypeOK, NoPointer, MemoryType
<1>4. ReservedZero
  BY <1>1, <1>2 DEF ReservedZero
<1> QED BY <1>3, <1>4 DEF Init, IInv

\* Writing an entry sets the two fields the setters write and keeps the rest.
LEMMA WriteEntryIs ==
    ASSUME NEW entry \in EntryType, NEW frame \in Nat, NEW flags \in FlagsType
    PROVE  /\ WriteEntry(entry, frame, flags) \in EntryType
           /\ WriteEntry(entry, frame, flags)
                = [flags |-> flags, physical_address |-> frame, must_be_zero |-> entry.must_be_zero]
<1> DEFINE e == [entry EXCEPT !.physical_address = frame]
<1>1. e \in EntryType /\ e.must_be_zero = entry.must_be_zero /\ e.physical_address = frame
  BY DEF EntryType
<1>2. WriteEntry(entry, frame, flags) = [e EXCEPT !.flags = flags]
  BY DEF WriteEntry
<1> HIDE DEF e
<1> QED BY <1>1, <1>2 DEF EntryType

LEMMA WriteUpper ==
    ASSUME NEW entry \in EntryType, entry.must_be_zero = 0, NEW frame \in Nat
    PROVE  /\ WriteEntry(entry, frame, default_flags) \in EntryType
           /\ WriteEntry(entry, frame, default_flags) = UpperEntry(frame)
<1>1. default_flags \in FlagsType
  BY DEF default_flags, FlagsType, MemoryType, EPT_MEMORY_TYPE_UNCACHEABLE
<1> QED BY <1>1, WriteEntryIs DEF UpperEntry

LEMMA InitializeIInv ==
    ASSUME IInv, initialize_extended_page_tables
    PROVE  IInv' /\ Shape' /\ \A i \in Page : pts'[i].flags = leaf_flags
<1> USE TablesAssumption
<1>0. /\ pml4' = [pml4 EXCEPT ![0] = WriteEntry(@, PDPT_FRAME, default_flags)]
      /\ pdpt' = [i \in DOMAIN pdpt |->
                   IF i < MEMORY_SIZE THEN WriteEntry(pdpt[i], PDS_FRAME + i, default_flags)
                                      ELSE pdpt[i]]
      /\ pds' = [i \in DOMAIN pds |-> WriteEntry(pds[i], PTS_FRAME + i, default_flags)]
      /\ pts' = [i \in DOMAIN pts |-> WriteEntry(pts[i], i, leaf_flags)]
  BY DEF initialize_extended_page_tables
<1>1. leaf_flags \in FlagsType
  BY DEF default_flags, leaf_flags, FlagsType, MemoryType,
         EPT_MEMORY_TYPE_UNCACHEABLE, EPT_MEMORY_TYPE_WRITEBACK
<1>2. PDPT_FRAME \in Nat /\ PDS_FRAME \in Nat /\ PTS_FRAME \in Nat /\ PML4_FRAME \in Nat
  BY DEF PDPT_FRAME, PDS_FRAME, PTS_FRAME, PML4_FRAME
<1>3. 0 \in 0 .. TABLE_SIZE - 1
  OBVIOUS
<1>4. pml4' \in [0 .. TABLE_SIZE - 1 -> EntryType] /\ pml4'[0] = UpperEntry(PDPT_FRAME)
      /\ \A i \in 0 .. TABLE_SIZE - 1 : pml4'[i].must_be_zero = 0
  <2>1. WriteEntry(pml4[0], PDPT_FRAME, default_flags) \in EntryType
        /\ WriteEntry(pml4[0], PDPT_FRAME, default_flags) = UpperEntry(PDPT_FRAME)
    <3>1. pml4[0] \in EntryType /\ pml4[0].must_be_zero = 0
      BY <1>3 DEF IInv, TypeOK, ReservedZero
    <3> QED BY <3>1, <1>2, WriteUpper
  <2>2. UpperEntry(PDPT_FRAME).must_be_zero = 0
    BY DEF UpperEntry
  <2> QED BY <1>0, <2>1, <2>2, <1>3 DEF IInv, TypeOK, ReservedZero
<1>5. /\ pdpt' \in [0 .. TABLE_SIZE - 1 -> EntryType]
      /\ \A i \in 0 .. TABLE_SIZE - 1 : pdpt'[i].must_be_zero = 0
      /\ \A i \in 0 .. MEMORY_SIZE - 1 : pdpt'[i] = UpperEntry(PDS_FRAME + i)
  <2>1. \A i \in 0 .. TABLE_SIZE - 1 :
          /\ WriteEntry(pdpt[i], PDS_FRAME + i, default_flags) \in EntryType
          /\ WriteEntry(pdpt[i], PDS_FRAME + i, default_flags) = UpperEntry(PDS_FRAME + i)
    <3>1. \A i \in 0 .. TABLE_SIZE - 1 :
            pdpt[i] \in EntryType /\ pdpt[i].must_be_zero = 0 /\ PDS_FRAME + i \in Nat
      BY <1>2 DEF IInv, TypeOK, ReservedZero
    <3> QED BY <3>1, WriteUpper
  <2>2. DOMAIN pdpt = 0 .. TABLE_SIZE - 1
    BY DEF IInv, TypeOK
  <2>3. \A i \in 0 .. TABLE_SIZE - 1 :
          pdpt'[i] = IF i < MEMORY_SIZE THEN UpperEntry(PDS_FRAME + i) ELSE pdpt[i]
    BY <1>0, <2>1, <2>2
  <2>4. pdpt' \in [0 .. TABLE_SIZE - 1 -> EntryType]
    BY <1>0, <2>1, <2>2 DEF IInv, TypeOK
  <2>5. \A f : UpperEntry(f).must_be_zero = 0
    BY DEF UpperEntry
  <2> QED BY <2>3, <2>4, <2>5 DEF IInv, ReservedZero
<1>6. /\ pds' \in [0 .. TABLE_SIZE * MEMORY_SIZE - 1 -> EntryType]
      /\ \A i \in 0 .. TABLE_SIZE * MEMORY_SIZE - 1 :
           /\ pds'[i] = UpperEntry(PTS_FRAME + i)
           /\ pds'[i].must_be_zero = 0
  <2>1. \A i \in 0 .. TABLE_SIZE * MEMORY_SIZE - 1 :
          /\ WriteEntry(pds[i], PTS_FRAME + i, default_flags) \in EntryType
          /\ WriteEntry(pds[i], PTS_FRAME + i, default_flags) = UpperEntry(PTS_FRAME + i)
    <3>1. \A i \in 0 .. TABLE_SIZE * MEMORY_SIZE - 1 :
            pds[i] \in EntryType /\ pds[i].must_be_zero = 0 /\ PTS_FRAME + i \in Nat
      BY <1>2 DEF IInv, TypeOK, ReservedZero
    <3> QED BY <3>1, WriteUpper
  <2>2. DOMAIN pds = 0 .. TABLE_SIZE * MEMORY_SIZE - 1
    BY DEF IInv, TypeOK
  <2>3. \A f : UpperEntry(f).must_be_zero = 0
    BY DEF UpperEntry
  <2> QED BY <1>0, <2>1, <2>2, <2>3
<1>7. /\ pts' \in [Page -> EntryType]
      /\ \A i \in Page : /\ pts'[i].physical_address = i
                         /\ pts'[i].must_be_zero = 0
                         /\ pts'[i].flags = leaf_flags
  <2>1. \A i \in Page :
          /\ WriteEntry(pts[i], i, leaf_flags) \in EntryType
          /\ WriteEntry(pts[i], i, leaf_flags)
               = [flags |-> leaf_flags, physical_address |-> i, must_be_zero |-> 0]
    <3>1. \A i \in Page : pts[i] \in EntryType /\ pts[i].must_be_zero = 0
      BY DEF IInv, TypeOK, ReservedZero
    <3>2. \A i \in Page : i \in Nat
      BY DEF Page
    <3> QED BY <3>1, <3>2, <1>1, WriteEntryIs
  <2>2. DOMAIN pts = Page
    BY DEF IInv, TypeOK
  <2> QED BY <1>0, <2>1, <2>2
<1>8. eptp' \in [memory_type : MemoryType, ept_walk_length : {0, 3}, pml4 : Nat]
      /\ eptp'.pml4 = PML4_FRAME /\ panicked' \in BOOLEAN
  BY <1>2 DEF initialize_extended_page_tables, IInv, TypeOK, MemoryType, EPT_MEMORY_TYPE_WRITEBACK
<1>9. TypeOK'
  BY <1>4, <1>5, <1>6, <1>7, <1>8 DEF TypeOK
<1>10. Shape'
  BY <1>4, <1>5, <1>6, <1>7, <1>8 DEF Shape
<1>11. ReservedZero'
  BY <1>4, <1>5, <1>6, <1>7 DEF ReservedZero
<1> QED BY <1>7, <1>9, <1>10, <1>11 DEF IInv

LEMMA UpdateIInv ==
    ASSUME IInv, NEW gpa \in Gpa, NEW flags \in Flags, update_gpa_access_rights(gpa, flags)
    PROVE  /\ IInv' /\ Shape'
           /\ gpa % PAGE_SIZE = 0 =>
                /\ gpa \div PAGE_SIZE \in Page
                /\ \A i \in Page : pts'[i].flags = IF i = gpa \div PAGE_SIZE THEN flags
                                                                          ELSE pts[i].flags
<1> USE DEF update_gpa_access_rights
<1>1. CASE gpa % PAGE_SIZE # 0
  BY <1>1 DEF IInv, TypeOK, Shape, ReservedZero
<1>2. CASE gpa % PAGE_SIZE = 0
  <2> DEFINE p == gpa \div PAGE_SIZE
  <2>1. p \in Page
    <3> DEFINE N == MEMORY_SIZE * TABLE_SIZE * TABLE_SIZE
    <3>1. N \in Nat
      BY TablesAssumption
    <3>2. gpa \in 0 .. PAGE_SIZE * N - 1
      BY TablesAssumption
    <3> HIDE DEF N
    <3>3. p \in 0 .. N - 1
      BY <3>1, <3>2 DEF PAGE_SIZE
    <3> QED BY <3>3 DEF Page, N
  <2> HIDE DEF p
  <2>2. pts' = [pts EXCEPT ![p].flags = flags] /\ panicked' = panicked
    BY <1>2 DEF p
  <2>3. flags \in FlagsType
    BY TablesAssumption
  <2>4. /\ pts' \in [Page -> EntryType]
        /\ \A i \in Page : /\ pts'[i].physical_address = pts[i].physical_address
                           /\ pts'[i].must_be_zero = pts[i].must_be_zero
                           /\ pts'[i].flags = IF i = p THEN flags ELSE pts[i].flags
    <3>1. pts[p] \in EntryType
      BY <2>1 DEF IInv, TypeOK
    <3>2. [pts[p] EXCEPT !.flags = flags] \in EntryType
      BY <3>1, <2>3 DEF EntryType
    <3>3. pts' = [pts EXCEPT ![p] = [pts[p] EXCEPT !.flags = flags]]
      BY <2>2
    <3>4. pts' \in [Page -> EntryType]
      BY <3>2, <3>3 DEF IInv, TypeOK
    <3>5. \A i \in Page : pts'[i] = IF i = p THEN [pts[p] EXCEPT !.flags = flags] ELSE pts[i]
      BY <3>3 DEF IInv, TypeOK
    <3>6. /\ [pts[p] EXCEPT !.flags = flags].flags = flags
          /\ [pts[p] EXCEPT !.flags = flags].physical_address = pts[p].physical_address
          /\ [pts[p] EXCEPT !.flags = flags].must_be_zero = pts[p].must_be_zero
      BY <3>1 DEF EntryType
    <3> QED BY <3>4, <3>5, <3>6
  <2>5. TypeOK'
    BY <2>2, <2>4 DEF IInv, TypeOK
  <2>6. ReservedZero'
    BY <2>4 DEF IInv, ReservedZero
  <2>7. Shape'
    BY <2>4 DEF IInv, Shape
  <2> QED BY <2>1, <2>4, <2>5, <2>6, <2>7 DEF IInv, p
<1> QED BY <1>1, <1>2

LEMMA StutterIInv == ASSUME IInv, UNCHANGED vars PROVE IInv'
BY DEF IInv, TypeOK, Shape, ReservedZero, vars

\* The tables keep their types and shape in every behaviour.
THEOREM Invariance == ASSUME CleanReserved PROVE Spec => []IInv
<1>1. Init => IInv
  BY InitIInv
<1>2. IInv /\ [Next]_vars => IInv'
  BY InitializeIInv, UpdateIInv, StutterIInv DEF Next
<1> QED BY <1>1, <1>2, PTL DEF Spec

\* Every value stays of its type: no update reaches outside the leaf tables
\* (ept.c:52), for gpas of the mapped memory.
THEOREM TypeCorrect == ASSUME CleanReserved PROVE Spec => []TypeOK
<1>1. IInv => TypeOK
  BY DEF IInv
<1> QED BY <1>1, Invariance, PTL

LEMMA PagesAnswer ==
    IInv /\ Shape => \A p \in Page : Translate(p) = Memory!Translation(p, pts[p].flags)
BY TranslateIsLeaf DEF IInv

LEMMA PagesAnswerNext ==
    IInv' /\ Shape' => \A p \in Page : Translate(p)' = Memory!Translation(p, pts'[p].flags)
<1>1. (IInv /\ Shape => \A p \in Page : Translate(p) = Memory!Translation(p, pts[p].flags))'
  BY PagesAnswer, PTL
<1> QED BY <1>1 DEF Memory!Translation

\* The walk reads nothing but the tables and the pointer.
LEMMA SameTables ==
    ASSUME UNCHANGED <<pml4, pdpt, pds, pts, eptp>>
    PROVE  \A p \in Page : Translate(p)' = Translate(p)
<1>1. \A p \in Page : Path(p)' = Path(p)
  BY DEF Path, EntryAt
<1> QED BY <1>1 DEF Translate

\* An update is its own abstract step: the page it names, or a refusal.
LEMMA UpdateRefines ==
    ASSUME IInv, NEW gpa \in Gpa, NEW flags \in Flags, update_gpa_access_rights(gpa, flags)
    PROVE  IF gpa % PAGE_SIZE = 0
             THEN gpa \div PAGE_SIZE \in Page /\ Memory!Update(gpa \div PAGE_SIZE, flags)
             ELSE Memory!Refuse
<1>1. eptp # NoPointer /\ eptp' = eptp /\ ~panicked
  BY DEF update_gpa_access_rights
<1>2. CASE gpa % PAGE_SIZE # 0
  <2>1. UNCHANGED <<pml4, pdpt, pds, pts, eptp>> /\ panicked'
    BY <1>2 DEF update_gpa_access_rights
  <2>2. \A p \in Page : Translate(p)' = Translate(p)
    BY <2>1, SameTables
  <2>3. Memory!Refuse
    BY <1>1, <2>1, <2>2 DEF Memory!Refuse
  <2> QED BY <1>2, <2>3
<1>3. CASE gpa % PAGE_SIZE = 0
  <2> DEFINE q == gpa \div PAGE_SIZE
  <2>1. /\ IInv' /\ Shape' /\ q \in Page
        /\ \A i \in Page : pts'[i].flags = IF i = q THEN flags ELSE pts[i].flags
    BY <1>3, UpdateIInv
  <2>2. panicked' = panicked
    BY <1>3 DEF update_gpa_access_rights
  <2> HIDE DEF q
  <2>3. \A p \in Page : Translate(p) = Memory!Translation(p, pts[p].flags)
    BY <1>1, PagesAnswer DEF IInv
  <2>4. \A p \in Page : Translate(p)' = Memory!Translation(p, pts'[p].flags)
    BY <2>1, PagesAnswerNext DEF IInv
  <2>5. \A p \in Page : Translate(p)' = IF p = q THEN Memory!Translation(p, flags)
                                                ELSE Translate(p)
    BY <2>1, <2>3, <2>4
  <2>6. Memory!Update(q, flags)
    BY <1>1, <2>1, <2>2, <2>5 DEF Memory!Update
  <2> QED BY <1>3, <2>1, <2>6 DEF q
<1> QED BY <1>2, <1>3

\* The processor's walk of the tables is the guest memory that was promised
\* (ept.c:10 and :52).
THEOREM Refinement == ASSUME CleanReserved PROVE Spec => TranslatesAsPromised
<1>1. Init => Memory!Init
  BY DEF Init, Memory!Init
<1>2. IInv /\ [Next]_vars => [Memory!Next]_(Memory!vars)
  <2> SUFFICES ASSUME IInv, [Next]_vars PROVE [Memory!Next]_(Memory!vars)
    OBVIOUS
  <2>1. CASE initialize_extended_page_tables
    <3>1. IInv' /\ Shape' /\ \A i \in Page : pts'[i].flags = leaf_flags
      BY <2>1, InitializeIInv
    <3>2. eptp = NoPointer /\ eptp' # NoPointer /\ panicked' = panicked
      BY <2>1 DEF initialize_extended_page_tables, NoPointer
    <3>3. \A p \in Page : Translate(p)' = Memory!Translation(p, leaf_flags)
      BY <3>1, PagesAnswerNext DEF IInv
    <3>4. Memory!SetUp
      BY <3>2, <3>3 DEF Memory!SetUp
    <3> QED BY <3>4 DEF Memory!Next
  <2>2. ASSUME NEW gpa \in Gpa, NEW flags \in Flags, update_gpa_access_rights(gpa, flags)
        PROVE  Memory!Next
    BY <2>2, UpdateRefines DEF Memory!Next
  <2>3. CASE UNCHANGED vars
    <3>1. \A p \in Page : Translate(p)' = Translate(p)
      BY <2>3, SameTables DEF vars
    <3> QED BY <2>3, <3>1 DEF vars, Memory!vars
  <2> QED BY <2>1, <2>2, <2>3 DEF Next, Memory!Next
<1>3. IInv => \A gpa \in Gpa, flags \in Flags :
                update_gpa_access_rights(gpa, flags) =>
                  IF gpa % PAGE_SIZE = 0 THEN Memory!Update(gpa \div PAGE_SIZE, flags)
                                         ELSE Memory!Refuse
  BY UpdateRefines
<1> QED BY <1>1, <1>2, <1>3, Invariance, PTL DEF Spec, TranslatesAsPromised, Memory!Spec
===============================================================================
