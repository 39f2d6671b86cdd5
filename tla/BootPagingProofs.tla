---------------------------- MODULE BootPagingProofs ---------------------------
(****************************************************************************)
(* The boot tables map every page of the memory to itself and are all that  *)
(* is written, for any sizes that SizeAssumption allows: a loop invariant   *)
(* of _create_tables, and the walk over what its three calls leave.         *)
(****************************************************************************)
EXTENDS ModeSwitch, TLAPS

\* Products the prover needs spelled out.
LEMMA Products ==
    /\ base.pdpt = base.pml4 + TABLE_SIZE
    /\ base.pd = base.pdpt + TABLE_SIZE
    /\ (IA32e_PAGING_BASE + 2 + MEMORY_SIZE) * TABLE_SIZE = base.pd + MEMORY_SIZE * TABLE_SIZE
    /\ MEMORY_SIZE * TABLE_SIZE \in Nat \ {0}
    /\ base.pml4 \in Nat
    /\ (IA32e_PAGING_BASE + 2 + MEMORY_SIZE) * TABLE_SIZE <= HIGHER_MEMORY_STACK_TOP * TABLE_SIZE
<1>1. /\ TABLE_SIZE \in Nat /\ TABLE_SIZE > 0 /\ IA32e_PAGING_BASE \in Nat
      /\ MEMORY_SIZE \in Nat /\ MEMORY_SIZE > 0 /\ HIGHER_MEMORY_STACK_TOP \in Nat
      /\ IA32e_PAGING_BASE + 2 + MEMORY_SIZE <= HIGHER_MEMORY_STACK_TOP
  BY SizeAssumption
<1>2. \A a, b, c \in Nat : (a + b) * c = a * c + b * c /\ (b > 0 /\ c > 0 => b * c > 0)
                           /\ (a <= b => a * c <= b * c) /\ a * c \in Nat
  OBVIOUS
<1>3. (IA32e_PAGING_BASE + 1) * TABLE_SIZE = IA32e_PAGING_BASE * TABLE_SIZE + TABLE_SIZE
  BY <1>1
<1>4. (IA32e_PAGING_BASE + 2) * TABLE_SIZE = IA32e_PAGING_BASE * TABLE_SIZE + 2 * TABLE_SIZE
  BY <1>1
<1>5. (IA32e_PAGING_BASE + 2 + MEMORY_SIZE) * TABLE_SIZE
        = (IA32e_PAGING_BASE + 2) * TABLE_SIZE + MEMORY_SIZE * TABLE_SIZE
  BY <1>1, <1>2
<1>6. MEMORY_SIZE * TABLE_SIZE \in Nat \ {0} /\ IA32e_PAGING_BASE * TABLE_SIZE \in Nat
  BY <1>1, <1>2
<1>7. (IA32e_PAGING_BASE + 2 + MEMORY_SIZE) * TABLE_SIZE <= HIGHER_MEMORY_STACK_TOP * TABLE_SIZE
  BY <1>1, <1>2
<1> QED BY <1>1, <1>3, <1>4, <1>5, <1>6, <1>7 DEF base

\* The tables whose call is over.
Over(table) == level \in (CASE table = "pml4" -> {"pdpt", "pd", "ret"}
                            [] table = "pdpt" -> {"pd", "ret"}
                            [] table = "pd" -> {"ret"})

LastSlot(table) == base[table] + entries[table] - 1
Target(table, i) == target[table] + i * stride[table]

\* Each table has its own slots, in the order the tables are written.
LEMMA Layout ==
    /\ \A table \in Table :
         /\ base[table] \in Nat /\ entries[table] \in Nat \ {0}
         /\ base[table] .. LastSlot(table) \subseteq TableSlot
         /\ flags[table] \in Flags /\ stride[table] \in Nat /\ target[table] \in Nat
    /\ LastSlot("pml4") < base["pdpt"] /\ LastSlot("pdpt") < base["pd"]
    /\ TableSlot \subseteq Slot
    /\ Slot \subseteq Nat
<1>1. /\ TABLE_SIZE \in Nat /\ TABLE_SIZE > 0 /\ MEMORY_SIZE \in Nat
      /\ MEMORY_SIZE > 0 /\ MEMORY_SIZE <= TABLE_SIZE /\ IA32e_PAGING_BASE \in Nat
      /\ HIGHER_MEMORY_STACK_TOP \in Nat
  BY SizeAssumption
<1> DEFINE mt == MEMORY_SIZE * TABLE_SIZE
           first == IA32e_PAGING_BASE * TABLE_SIZE
           end == (IA32e_PAGING_BASE + 2 + MEMORY_SIZE) * TABLE_SIZE
           top == HIGHER_MEMORY_STACK_TOP * TABLE_SIZE
<1>2. /\ base.pml4 = first /\ base.pdpt = first + TABLE_SIZE
      /\ base.pd = first + TABLE_SIZE + TABLE_SIZE
      /\ end = first + TABLE_SIZE + TABLE_SIZE + mt
      /\ mt \in Nat \ {0} /\ first \in Nat /\ end <= top
  BY Products DEF base
<1>3. entries.pml4 = 1 /\ entries.pdpt = MEMORY_SIZE /\ entries.pd = mt
  BY DEF entries
<1>4. TableSlot = first .. end - 1 /\ Slot = first .. top - 1 /\ top \in Int
  BY <1>1 DEF TableSlot, Slot
<1> HIDE DEF mt, first, end, top
<1>5. \A table \in Table : flags[table] \in Flags
  BY DEF Table, flags, Flags
<1>6. \A table \in Table : stride[table] \in Nat /\ target[table] \in Nat
  BY <1>1 DEF Table, stride, target
<1>7. \A table \in Table : /\ base[table] \in Nat /\ entries[table] \in Nat \ {0}
                           /\ base[table] .. LastSlot(table) \subseteq TableSlot
  BY <1>1, <1>2, <1>3, <1>4 DEF Table, LastSlot
<1>8. LastSlot("pml4") < base["pdpt"] /\ LastSlot("pdpt") < base["pd"]
  BY <1>1, <1>2, <1>3 DEF LastSlot
<1>9. Slot \subseteq Nat
  BY <1>2, <1>4
<1>10. TableSlot \subseteq Slot
  <2>1. \A slot \in TableSlot : slot \in Slot
    <3>1. /\ first \in Int /\ end \in Int /\ top \in Int /\ end <= top
      BY <1>1, <1>2, <1>4
    <3> QED BY <3>1, <1>4
  <2> QED BY <2>1
<1> QED BY <1>5, <1>6, <1>7, <1>8, <1>9, <1>10
-------------------------------------------------------------------------------
\* After k turns of a call: its first k entries.
Built(table, k) ==
    \A i \in 0 .. k - 1 : memory[base[table] + i] = [address |-> Target(table, i),
                                                     flags |-> flags[table]]

\* Where a call has got to shows in all three registers.
Turns == entries[level] - regs.ecx
LoopInv ==
    level \in Table =>
      /\ regs.ecx <= entries[level]
      /\ regs.ebx = base[level] + Turns
      /\ regs.ecx > 0 => regs.edi = Target(level, Turns)
      /\ Built(level, Turns)

IInv == PagingTypeOK /\ LoopInv
        /\ \A table \in Table : Over(table) => Built(table, entries[table])

\* No entry's address reaches the end of what edi can count.
LEMMA TargetsFit ==
    ASSUME NEW table \in Table, NEW i \in 0 .. entries[table] - 1
    PROVE  /\ Target(table, i) \in Nat /\ Target(table, i) < ADDRESS_SPACE
           /\ Target(table, i + 1) = Target(table, i) + stride[table]
<1>1. /\ TABLE_SIZE \in Nat /\ TABLE_SIZE > 0 /\ MEMORY_SIZE \in Nat /\ MEMORY_SIZE > 0
      /\ IA32e_PAGING_BASE \in Nat /\ ADDRESS_SPACE \in Nat
      /\ IA32e_PAGING_BASE + 2 + MEMORY_SIZE <= ADDRESS_SPACE
      /\ MEMORY_SIZE * TABLE_SIZE * TABLE_SIZE <= ADDRESS_SPACE
  BY SizeAssumption
<1>2. i \in Nat /\ stride[table] \in Nat /\ target[table] \in Nat
  BY Layout
<1>3. Target(table, i + 1) = Target(table, i) + stride[table]
  <2>1. \A n, m \in Nat : (n + 1) * m = n * m + m /\ n * m \in Nat
    OBVIOUS
  <2>2. (i + 1) * stride[table] = i * stride[table] + stride[table] /\ i * stride[table] \in Nat
    BY <1>2, <2>1
  <2> QED BY <1>2, <2>2 DEF Target
<1>4. CASE table = "pml4"
  BY <1>1, <1>3, <1>4 DEF Target, target, stride, entries
<1>5. CASE table = "pdpt"
  BY <1>1, <1>3, <1>5 DEF Target, target, stride, entries
<1>6. CASE table = "pd"
  <2>1. i \in Nat /\ i + 1 <= MEMORY_SIZE * TABLE_SIZE /\ MEMORY_SIZE * TABLE_SIZE \in Nat
    BY <1>2, <1>6, Products DEF entries
  <2>2. \A a, b, c \in Nat : a + 1 <= b /\ c > 0 => a * c < b * c /\ a * c \in Nat
    <3> SUFFICES ASSUME NEW a \in Nat, NEW b \in Nat, NEW c \in Nat, a + 1 <= b, c > 0
                 PROVE  a * c < b * c /\ a * c \in Nat
      OBVIOUS
    <3>1. (a + 1) * c = a * c + c /\ a * c \in Nat
      OBVIOUS
    <3>2. (a + 1) * c <= b * c
      OBVIOUS
    <3> QED BY <3>1, <3>2
  <2>3. i * TABLE_SIZE < (MEMORY_SIZE * TABLE_SIZE) * TABLE_SIZE /\ i * TABLE_SIZE \in Nat
    BY <1>1, <2>1, <2>2
  <2>4. Target(table, i) = i * TABLE_SIZE
    BY <1>6, <2>3 DEF Target, target, stride
  <2> QED BY <1>1, <1>3, <2>3, <2>4
<1> QED BY <1>4, <1>5, <1>6 DEF Table

\* The invariant only looks at the tables' variables.
LEMMA SameInv == IInv /\ UNCHANGED <<level, regs, memory>> => IInv'
BY DEF IInv, LoopInv, Turns, Built, Over, PagingTypeOK

LEMMA EntryInv ==
    ASSUME IInv, setup_entry
    PROVE  IInv' /\ \A slot \in Slot \ TableSlot : memory'[slot] = memory[slot]
<1> DEFINE k == Turns
           entry == [address |-> regs.edi, flags |-> flags[level]]
<1>1. /\ level \in Table /\ level' = level
      /\ regs.ecx \in Nat /\ regs.ecx > 0 /\ regs.ecx <= entries[level]
      /\ entries[level] \in Nat /\ base[level] \in Nat
      /\ regs.ebx = base[level] + k /\ regs.edi = Target(level, k)
      /\ memory \in [Slot -> Entry]
  BY Layout DEF IInv, LoopInv, PagingTypeOK, setup_entry
<1>2. k \in 0 .. entries[level] - 1
  BY <1>1 DEF Turns
<1>3. /\ Target(level, k) \in Nat /\ Target(level, k) < ADDRESS_SPACE
      /\ Target(level, k + 1) = Target(level, k) + stride[level]
  BY <1>1, <1>2, TargetsFit
<1>4. regs.ebx \in TableSlot /\ regs.ebx \in Slot
  BY <1>1, <1>2, Layout DEF LastSlot
<1>5. entry \in Entry
  BY <1>1, <1>3, Layout DEF Entry
<1>6. memory' = [memory EXCEPT ![regs.ebx] = entry]
  BY DEF setup_entry
<1>7. /\ memory' \in [Slot -> Entry]
      /\ memory'[regs.ebx] = entry
      /\ \A slot \in Slot : slot # regs.ebx => memory'[slot] = memory[slot]
  BY <1>1, <1>4, <1>5, <1>6
<1>8. regs' = [edi |-> (regs.edi + stride[level]) % ADDRESS_SPACE,
               ebx |-> regs.ebx + 1, ecx |-> regs.ecx - 1]
  BY DEF setup_entry
<1>9. Turns' = k + 1
  BY <1>1, <1>8 DEF Turns
<1>10. regs'.ebx = base[level] + (k + 1) /\ regs'.ecx \in Nat /\ regs'.ecx <= entries[level]
       /\ regs'.ebx \in Nat
  BY <1>1, <1>2, <1>8
<1>11. /\ regs'.edi \in Nat
       /\ regs'.ecx > 0 => regs'.edi = Target(level, k + 1)
  <2>1. ADDRESS_SPACE \in Nat /\ ADDRESS_SPACE > 0
    BY SizeAssumption
  <2>2. regs'.edi = (Target(level, k) + stride[level]) % ADDRESS_SPACE
    BY <1>1, <1>8
  <2>3. stride[level] \in Nat
    BY <1>1, Layout
  <2>4. ASSUME regs'.ecx > 0 PROVE regs'.edi = Target(level, k + 1)
    <3>1. k + 1 \in 0 .. entries[level] - 1
      BY <1>1, <1>2, <1>8, <2>4 DEF Turns
    <3>2. Target(level, k + 1) \in Nat /\ Target(level, k + 1) < ADDRESS_SPACE
      BY <1>1, <3>1, TargetsFit
    <3> HIDE DEF k
    <3> QED BY <1>3, <2>1, <2>2, <3>2
  <2> QED BY <1>3, <2>1, <2>2, <2>3, <2>4
<1>12. \A i \in 0 .. k : memory'[base[level] + i] = [address |-> Target(level, i),
                                                     flags |-> flags[level]]
  <2> SUFFICES ASSUME NEW i \in 0 .. k
               PROVE  memory'[base[level] + i] = [address |-> Target(level, i),
                                                  flags |-> flags[level]]
    OBVIOUS
  <2>1. CASE i = k
    BY <1>1, <1>7, <2>1
  <2>2. CASE i # k
    <3>1. i \in 0 .. k - 1 /\ base[level] + i \in Slot /\ base[level] + i # regs.ebx
      BY <1>1, <1>2, <2>2, Layout DEF LastSlot
    <3>2. memory[base[level] + i] = [address |-> Target(level, i), flags |-> flags[level]]
      BY <1>1, <3>1 DEF IInv, LoopInv, Built
    <3> QED BY <1>7, <3>1, <3>2
  <2> QED BY <2>1, <2>2
<1>13. LoopInv'
  BY <1>1, <1>2, <1>9, <1>10, <1>11, <1>12 DEF LoopInv, Built, Target
<1>14. ASSUME NEW table \in Table, Over(table) PROVE Built(table, entries[table])'
  <2>1. LastSlot(table) < base[level]
    BY <1>1, <1>14, Layout DEF Over, Table, LastSlot
  <2>2. \A i \in 0 .. entries[table] - 1 :
          base[table] + i \in Slot /\ base[table] + i # regs.ebx
    BY <1>1, <1>2, <2>1, Layout DEF LastSlot
  <2>3. Built(table, entries[table])
    BY <1>14 DEF IInv
  <2> QED BY <1>7, <2>2, <2>3 DEF Built
<1>15. \A table \in Table : Over(table)' => Built(table, entries[table])'
  BY <1>1, <1>14 DEF Over
<1>16. PagingTypeOK'
  BY <1>1, <1>7, <1>8, <1>10, <1>11 DEF PagingTypeOK
<1>17. \A slot \in Slot \ TableSlot : memory'[slot] = memory[slot]
  BY <1>4, <1>7
<1> QED BY <1>13, <1>15, <1>16, <1>17 DEF IInv

LEMMA CallInv ==
    ASSUME IInv, NEW table \in Table, NEW pushed, _create_tables(table, pushed),
           \A other \in Table : Over(other)' => Over(other) \/ Built(other, entries[other])
    PROVE  IInv'
<1>1. /\ level' = table /\ memory' = memory
      /\ regs' = [edi |-> target[table], ebx |-> base[table], ecx |-> entries[table]]
  BY DEF _create_tables
<1>2. /\ base[table] \in Nat /\ entries[table] \in Nat \ {0}
      /\ target[table] \in Nat /\ stride[table] \in Nat
  BY Layout
<1>3. PagingTypeOK'
  BY <1>1, <1>2 DEF IInv, PagingTypeOK
<1>4. Turns' = 0
  BY <1>1, <1>2 DEF Turns
<1>5. LoopInv'
  BY <1>1, <1>2, <1>4 DEF LoopInv, Built, Target
<1>6. \A other \in Table : Over(other)' => Built(other, entries[other])'
  BY <1>1 DEF IInv, Built
<1> QED BY <1>3, <1>5, <1>6 DEF IInv

LEMMA PopaInv == ASSUME IInv, popa PROVE IInv'
<1>1. level \in Table /\ regs.ecx = 0
  BY DEF popa
<1>2. Built(level, entries[level])
  BY <1>1, Layout DEF IInv, LoopInv, Turns
<1>3. CASE level = "pd"
  <2>1. level' = "ret" /\ regs' = regs /\ memory' = memory
    BY <1>3 DEF popa
  <2>2. \A table \in Table : Over(table)' => Built(table, entries[table])
    BY <1>2, <1>3, <2>1 DEF IInv, Over, Table
  <2> QED BY <2>1, <2>2 DEF IInv, PagingTypeOK, LoopInv, Table, Built
<1>4. CASE level # "pd"
  <2>1. _create_tables(Following[level], saved) /\ Following[level] \in Table
    BY <1>1, <1>4 DEF popa, Following, Table
  <2>2. level' = Following[level]
    BY <2>1 DEF _create_tables
  <2>3. \A other \in Table : Over(other)' => Over(other) \/ other = level
    BY <1>1, <1>4, <2>2 DEF Over, Table, Following
  <2> QED BY <1>2, <2>1, <2>3, CallInv
<1> QED BY <1>3, <1>4

LEMMA SetupInv == ASSUME IInv, setup_pml4_map PROVE IInv'
<1>1. level = "idle" /\ _create_tables("pml4", esi') /\ "pml4" \in Table
  BY DEF setup_pml4_map, Table
<1>2. \A other \in Table : ~Over(other)'
  BY <1>1 DEF _create_tables, Over, Table
<1> QED BY <1>1, <1>2, CallInv

LEMMA PagingStarts == PagingInit => IInv
BY SizeAssumption DEF PagingInit, IInv, PagingTypeOK, LoopInv, Over, Table

LEMMA PagingStep == IInv /\ [PagingNext]_pagingVars => IInv'
BY EntryInv, PopaInv, SetupInv, SameInv DEF PagingNext, caller, pagingVars

THEOREM PagingInvariance == PagingSpec => []IInv
BY PagingStarts, PagingStep, PTL DEF PagingSpec
-------------------------------------------------------------------------------
\* A large page's number, taken apart as the processor does.
LEMMA PageIndices ==
    ASSUME NEW page \in LargePage
    PROVE  /\ page \div (TABLE_SIZE * TABLE_SIZE) = 0
           /\ page \div TABLE_SIZE \in 0 .. MEMORY_SIZE - 1
           /\ (page \div TABLE_SIZE) % TABLE_SIZE = page \div TABLE_SIZE
           /\ (page \div TABLE_SIZE) * TABLE_SIZE + (page % TABLE_SIZE) = page
           /\ page % TABLE_SIZE \in Nat
<1> DEFINE q == page \div TABLE_SIZE
           r == page % TABLE_SIZE
<1>1. /\ TABLE_SIZE \in Nat /\ TABLE_SIZE > 0 /\ MEMORY_SIZE \in Nat /\ MEMORY_SIZE > 0
      /\ MEMORY_SIZE <= TABLE_SIZE
  BY SizeAssumption
<1>2. page \in Nat /\ page < MEMORY_SIZE * TABLE_SIZE
  BY <1>1, Products DEF LargePage
<1>3. q \in Nat /\ r \in Nat /\ r < TABLE_SIZE /\ page = q * TABLE_SIZE + r
  BY <1>1, <1>2
<1>4. q < MEMORY_SIZE
  <2>1. SUFFICES ASSUME q >= MEMORY_SIZE PROVE FALSE
    BY <1>1, <1>3
  <2>2. \A a, b, c \in Nat : a <= b => a * c <= b * c /\ a * c \in Nat /\ b * c \in Nat
    OBVIOUS
  <2> HIDE DEF q, r
  <2>3. MEMORY_SIZE * TABLE_SIZE <= q * TABLE_SIZE /\ q * TABLE_SIZE \in Nat
    BY <1>1, <1>3, <2>1, <2>2
  <2> QED BY <1>2, <1>3, <2>3, Products
<1>5. page \div (TABLE_SIZE * TABLE_SIZE) = 0
  <2>1. MEMORY_SIZE * TABLE_SIZE <= TABLE_SIZE * TABLE_SIZE
    BY <1>1
  <2>2. TABLE_SIZE * TABLE_SIZE \in Nat /\ TABLE_SIZE * TABLE_SIZE > 0
    BY <1>1
  <2>3. \A n, m \in Nat : m > 0 /\ n < m => n \div m = 0
    OBVIOUS
  <2>4. page < TABLE_SIZE * TABLE_SIZE
    BY <1>2, <2>1, <2>2, Products
  <2> QED BY <1>2, <2>2, <2>3, <2>4
<1> HIDE DEF q, r
<1>6. q % TABLE_SIZE = q
  BY <1>1, <1>3, <1>4
<1> QED BY <1>1, <1>3, <1>4, <1>5, <1>6 DEF q, r

LEMMA WalkIsIdentity == IInv => IdentityMapped
<1> SUFFICES ASSUME IInv, level = "ret", NEW page \in LargePage
             PROVE  MappedToItself(page)
  BY DEF IdentityMapped
<1> DEFINE q == page \div TABLE_SIZE
           r == page % TABLE_SIZE
           e1 == memory[IA32e_PAGING_BASE * TABLE_SIZE + (page \div (TABLE_SIZE * TABLE_SIZE))]
           e2 == memory[e1.address * TABLE_SIZE + (q % TABLE_SIZE)]
           e3 == memory[e2.address * TABLE_SIZE + r]
<1>1. /\ TABLE_SIZE \in Nat /\ TABLE_SIZE > 0 /\ MEMORY_SIZE \in Nat
      /\ IA32e_PAGING_BASE \in Nat
  BY SizeAssumption
<1>2. Built("pml4", 1) /\ Built("pdpt", MEMORY_SIZE) /\ Built("pd", MEMORY_SIZE * TABLE_SIZE)
  BY DEF IInv, Over, Table, entries
<1>3. /\ page \div (TABLE_SIZE * TABLE_SIZE) = 0 /\ q \in 0 .. MEMORY_SIZE - 1
      /\ q % TABLE_SIZE = q /\ q * TABLE_SIZE + r = page /\ r \in Nat
      /\ page \in 0 .. MEMORY_SIZE * TABLE_SIZE - 1
  BY PageIndices DEF LargePage
<1> HIDE DEF q, r
<1>4. e1 = [address |-> IA32e_PAGING_BASE + 1, flags |-> {"PAGE_WRITE", "PAGE_PRESENT"}]
  <2>1. memory[base["pml4"] + 0] = [address |-> Target("pml4", 0), flags |-> flags["pml4"]]
    BY <1>2 DEF Built
  <2>2. Target("pml4", 0) = IA32e_PAGING_BASE + 1
    BY <1>1 DEF Target, target, stride
  <2>3. base["pml4"] + 0 = IA32e_PAGING_BASE * TABLE_SIZE + (page \div (TABLE_SIZE * TABLE_SIZE))
    BY <1>3 DEF base
  <2> QED BY <2>1, <2>2, <2>3 DEF flags
<1>5. e2 = [address |-> IA32e_PAGING_BASE + 2 + q, flags |-> {"PAGE_WRITE", "PAGE_PRESENT"}]
  <2>1. memory[base["pdpt"] + q] = [address |-> Target("pdpt", q), flags |-> flags["pdpt"]]
    BY <1>2, <1>3 DEF Built
  <2>2. Target("pdpt", q) = IA32e_PAGING_BASE + 2 + q
    BY <1>1, <1>3 DEF Target, target, stride
  <2>3. e1.address * TABLE_SIZE + (q % TABLE_SIZE) = base["pdpt"] + q
    BY <1>3, <1>4 DEF base
  <2> QED BY <2>1, <2>2, <2>3 DEF flags
<1> HIDE DEF e1
<1>6. e3 = [address |-> page * TABLE_SIZE, flags |-> {"PAGE_SIZE", "PAGE_WRITE", "PAGE_PRESENT"}]
  <2>1. memory[base["pd"] + page] = [address |-> Target("pd", page), flags |-> flags["pd"]]
    BY <1>2, <1>3 DEF Built
  <2>2. Target("pd", page) = page * TABLE_SIZE
    BY <1>1, <1>3, Products DEF Target, target, stride
  <2>3. e2.address * TABLE_SIZE + r = base["pd"] + page
    <3>1. \A b, n, m \in Nat : (b + 2 + n) * m = (b + 2) * m + n * m
                               /\ n * m \in Nat /\ (b + 2) * m \in Nat
      OBVIOUS
    <3>2. /\ (IA32e_PAGING_BASE + 2 + q) * TABLE_SIZE
               = (IA32e_PAGING_BASE + 2) * TABLE_SIZE + q * TABLE_SIZE
          /\ q * TABLE_SIZE \in Nat /\ (IA32e_PAGING_BASE + 2) * TABLE_SIZE \in Nat
      BY <1>1, <1>3, <3>1
    <3>3. e2.address = IA32e_PAGING_BASE + 2 + q
      BY <1>5
    <3> HIDE DEF e2
    <3> QED BY <1>3, <3>2, <3>3 DEF base
  <2> QED BY <2>1, <2>2, <2>3 DEF flags
<1> HIDE DEF e2, e3
<1>7. Walk(page) = <<e1, e2, e3>>
  BY DEF Walk, e1, e2, e3, q, r
<1> QED BY <1>4, <1>5, <1>6, <1>7 DEF MappedToItself

LEMMA StepsStayInTables ==
    IInv /\ [PagingNext]_pagingVars => \A slot \in Slot \ TableSlot : memory'[slot] = memory[slot]
BY EntryInv DEF PagingNext, pagingVars, caller, popa, setup_pml4_map, _create_tables
-------------------------------------------------------------------------------
\* The mode switches use the tables as BootPaging says: they build them once,
\* before paging, and otherwise touch esi only (src/boot/entrypoint.asm:41).
LEMMA SwitchesArePaging == [Next]_vars => [PagingNext]_pagingVars
<1> USE DEF pagingVars, PagingNext, caller
<1>1. CASE protected_to_long
  BY <1>1 DEF protected_to_long
<1>2. CASE build_tables
  BY <1>2 DEF build_tables
<1>3. CASE protected_to_long_lower_memory
  BY <1>3 DEF protected_to_long_lower_memory
<1>4. ASSUME ~protected_to_long, ~build_tables, ~protected_to_long_lower_memory, Next
      PROVE  UNCHANGED pagingVars
  BY <1>4 DEF Next, Switch, _start, enable_long_mode, long_mode, call_initialize_host,
     real_mode_callback, return_to_c, call_real_mode_function, long_to_protected,
     compatibility_mode, protected_to_real, protected_real_mode, real_mode, bios_call,
     real_to_protected, protected_mode, initialize_bios, load_mbr, Callback, Call, Return
<1> QED BY <1>1, <1>2, <1>3, <1>4 DEF vars

LEMMA SpecIsPaging == Spec => PagingSpec
<1>1. Init => PagingInit
  BY DEF Init
<1> QED BY <1>1, SwitchesArePaging, PTL DEF Spec, PagingSpec

\* Whatever memory held, once the tables are built and for ever after, every
\* page of the memory is mapped to itself (src/boot/paging.asm:27).
THEOREM Identity == Spec => []IdentityMapped
BY SpecIsPaging, PagingInvariance, WalkIsIdentity, PTL

\* No step writes outside the tables, so not into the stack above them either
\* (src/boot/macros.asm:24).
THEOREM StaysInTables == Spec => OnlyTablesWritten
<1>1. IInv /\ [PagingNext]_pagingVars
        => [\A slot \in Slot \ TableSlot : memory'[slot] = memory[slot]]_pagingVars
  BY StepsStayInTables
<1> QED BY <1>1, SpecIsPaging, PagingInvariance, PTL DEF PagingSpec, OnlyTablesWritten
================================================================================
