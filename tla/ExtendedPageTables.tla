-------------------------- MODULE ExtendedPageTables --------------------------
(****************************************************************************)
(* The extended page tables (src/vmm/ept.c, src/include/vmm/ept.h): four    *)
(* arrays laid out one after the other, TABLE_SIZE entries to a page, with  *)
(* MEMORY_SIZE page directories.  Addresses are page frame numbers, which   *)
(* is what the physical_address field of an entry holds.                    *)
(****************************************************************************)
EXTENDS Integers

CONSTANTS TABLE_SIZE,    \* entries of a table, 512 in the code
          MEMORY_SIZE,   \* GiB mapped, so page directories used, 4 in the code
          EPTS_FRAME,    \* the frame of epts->pml4
          InitialEntry,  \* entries the memory may hold when the host starts
          Gpa,           \* guest-physical addresses passed to the update
          Flags          \* ept_flags_t values passed to the update

PAGE_SIZE == 4096
EPT_MEMORY_TYPE_UNCACHEABLE == 0
PAT_UNCACHED_MINUS == 7         \* a mutant: a type of the PAT, not of the EPT
EPT_MEMORY_TYPE_WRITEBACK == 6
MemoryType == {0, 1, 4, 5, 6}   \* those the processor knows (SDM 11.3)

\* ept_flags_t, the fields the processor looks at; user_execute, the shadow
\* stack and the sub-page bits are off in every EPT pointer this host makes.
FlagsType == [read : BOOLEAN, write : BOOLEAN, execute : BOOLEAN, memory_type : MemoryType]

\* ept_entry_t; must_be_zero stands for the fields neither setter writes: bit
\* 7 and bits 48 to 51.
EntryType == [flags : FlagsType, physical_address : Nat, must_be_zero : {0, 1}]

ASSUME TablesAssumption ==
    /\ TABLE_SIZE \in Nat \ {0}
    /\ MEMORY_SIZE \in 1 .. TABLE_SIZE
    /\ EPTS_FRAME \in Nat
    /\ InitialEntry \subseteq EntryType
    /\ Flags \subseteq FlagsType
    /\ Gpa \subseteq 0 .. PAGE_SIZE * (MEMORY_SIZE * TABLE_SIZE * TABLE_SIZE) - 1

Page == 0 .. MEMORY_SIZE * TABLE_SIZE * TABLE_SIZE - 1

\* Frames of the members of extended_paging_tables_t.
PML4_FRAME == EPTS_FRAME
PDPT_FRAME == EPTS_FRAME + 1
PDS_FRAME == EPTS_FRAME + 2
PTS_FRAME == PDS_FRAME + MEMORY_SIZE

VARIABLES pml4, pdpt, pds, pts, \* the tables in memory
          eptp,                 \* the EPT pointer of the VMCS
          panicked

vars == <<pml4, pdpt, pds, pts, eptp, panicked>>

NoPointer == [memory_type |-> 0, ept_walk_length |-> 0, pml4 |-> 0]
-------------------------------------------------------------------------------
default_flags == [read |-> TRUE, write |-> TRUE, execute |-> TRUE,
                  memory_type |-> EPT_MEMORY_TYPE_UNCACHEABLE]
leaf_flags == [default_flags EXCEPT !.memory_type = EPT_MEMORY_TYPE_WRITEBACK]

\* set_entry_address then set_entry_flags.
WriteEntry(entry, frame, flags) ==
    [entry EXCEPT !.physical_address = frame, !.flags = flags]

\* A mutant, used by no definition: the page's number within its table.
update_by_offset(gpa, flags) ==
    /\ ~panicked
    /\ eptp # NoPointer
    /\ pts' = [pts EXCEPT ![(gpa \div PAGE_SIZE) % TABLE_SIZE].flags = flags]
    /\ UNCHANGED <<pml4, pdpt, pds, eptp, panicked>>

Init ==
    /\ \E entry \in InitialEntry :
         /\ pml4 = [i \in 0 .. TABLE_SIZE - 1 |-> entry]
         /\ pdpt = [i \in 0 .. TABLE_SIZE - 1 |-> entry]
         /\ pds = [i \in 0 .. TABLE_SIZE * MEMORY_SIZE - 1 |-> entry]
         /\ pts = [i \in Page |-> entry]
    /\ eptp = NoPointer
    /\ panicked = FALSE

\* One call, before the guest exists; its two ASSERTs compare sizes and cannot
\* fail.  The upper tables are uncacheable: default_flags gets its memory type
\* after their loops.
initialize_extended_page_tables ==
    /\ eptp = NoPointer
    /\ eptp' = [memory_type |-> EPT_MEMORY_TYPE_WRITEBACK, ept_walk_length |-> 3,
                pml4 |-> PML4_FRAME]
    /\ pml4' = [pml4 EXCEPT ![0] = WriteEntry(@, PDPT_FRAME, default_flags)]
    /\ pdpt' = [i \in DOMAIN pdpt |->
                 IF i < MEMORY_SIZE THEN WriteEntry(pdpt[i], PDS_FRAME + i, default_flags)
                                    ELSE pdpt[i]]
    /\ pds' = [i \in DOMAIN pds |-> WriteEntry(pds[i], PTS_FRAME + i, default_flags)]
    /\ pts' = [i \in DOMAIN pts |-> WriteEntry(pts[i], i, leaf_flags)]
    /\ UNCHANGED panicked

update_gpa_access_rights(gpa, flags) ==
    /\ ~panicked
    /\ eptp # NoPointer
    /\ \/ /\ gpa % PAGE_SIZE = 0
          /\ pts' = [pts EXCEPT ![gpa \div PAGE_SIZE].flags = flags]
          /\ UNCHANGED panicked
       \/ /\ gpa % PAGE_SIZE # 0
          /\ panicked' = TRUE
          /\ UNCHANGED pts
    /\ UNCHANGED <<pml4, pdpt, pds, eptp>>

Next == \/ initialize_extended_page_tables
        \/ \E gpa \in Gpa, flags \in Flags : update_gpa_access_rights(gpa, flags)

Spec == Init /\ [][Next]_vars
-------------------------------------------------------------------------------
(****************************************************************************)
(* The processor's walk (SDM 28.3.2 and 28.3.3): the page number is cut in  *)
(* four indices, each table is found at the frame its parent names, and the *)
(* first entry that is absent or malformed ends the walk.                   *)
(****************************************************************************)
EntryAt(frame, i) ==
    CASE frame = PML4_FRAME -> pml4[i]
      [] frame = PDPT_FRAME -> pdpt[i]
      [] frame \in PDS_FRAME .. PTS_FRAME - 1 -> pds[(frame - PDS_FRAME) * TABLE_SIZE + i]
      [] OTHER -> pts[(frame - PTS_FRAME) * TABLE_SIZE + i]

Path(page) ==
    LET e1 == EntryAt(eptp.pml4, page \div (TABLE_SIZE * TABLE_SIZE * TABLE_SIZE))
        e2 == EntryAt(e1.physical_address, (page \div (TABLE_SIZE * TABLE_SIZE)) % TABLE_SIZE)
        e3 == EntryAt(e2.physical_address, (page \div TABLE_SIZE) % TABLE_SIZE)
        e4 == EntryAt(e3.physical_address, page % TABLE_SIZE)
    IN  <<e1, e2, e3, e4>>

Present(entry) == entry.flags.read \/ entry.flags.write \/ entry.flags.execute

Misconfigured(entry, level) ==
    /\ Present(entry)
    /\ \/ entry.flags.write /\ ~entry.flags.read
       \/ entry.must_be_zero # 0
       \/ level < 4 /\ entry.flags.memory_type # 0

Outcome(path) ==
    LET Walked(level) == \A k \in 1 .. level - 1 : Present(path[k])
    IN  IF \E level \in 1 .. 4 : Walked(level) /\ Misconfigured(path[level], level)
          THEN [outcome |-> "misconfigured"]
        ELSE IF \E level \in 1 .. 4 : ~Present(path[level])
          THEN [outcome |-> "absent"]
        ELSE [outcome |-> "mapped", frame |-> path[4].physical_address,
              rights |-> [path[4].flags EXCEPT
                            !.read = \A k \in 1 .. 4 : path[k].flags.read,
                            !.write = \A k \in 1 .. 4 : path[k].flags.write,
                            !.execute = \A k \in 1 .. 4 : path[k].flags.execute]]

\* Outcome(Path(page)), with the path computed once.
Translate(page) == CHOOSE outcome \in {Outcome(path) : path \in {Path(page)}} : TRUE
-------------------------------------------------------------------------------
TypeOK ==
    /\ pml4 \in [0 .. TABLE_SIZE - 1 -> EntryType]
    /\ pdpt \in [0 .. TABLE_SIZE - 1 -> EntryType]
    /\ pds \in [0 .. TABLE_SIZE * MEMORY_SIZE - 1 -> EntryType]
    /\ pts \in [Page -> EntryType]
    /\ eptp \in [memory_type : MemoryType, ept_walk_length : {0, 3}, pml4 : Nat]
    /\ panicked \in BOOLEAN

Memory == INSTANCE GuestMemory WITH
            Rights <- Flags, AllRights <- leaf_flags, halted <- panicked,
            ready <- eptp # NoPointer,
            view <- IF eptp = NoPointer THEN <<>> ELSE [p \in Page |-> Translate(p)]

\* The loops of initialize_extended_page_tables build an identity map of all
\* the guest's memory, and update_gpa_access_rights then changes how one page
\* answers and no other (src/vmm/ept.c:26 and :52): what the processor finds by
\* walking the tables is what GuestMemory promises, and the page an update shows
\* on is the one it names.
TranslatesAsPromised ==
    /\ Memory!Spec
    /\ [][\A gpa \in Gpa, flags \in Flags :
            update_gpa_access_rights(gpa, flags) =>
              IF gpa % PAGE_SIZE = 0 THEN Memory!Update(gpa \div PAGE_SIZE, flags)
                                     ELSE Memory!Refuse]_vars

\* The comment of src/include/vmm/ept.h:27 on the field: "must be zero".  Once
\* the tables are initialized it is, in every entry a walk can meet.
MustBeZeroIsZero ==
    eptp # NoPointer =>
        \A page \in Page : \A k \in 1 .. 4 : Path(page)[k].must_be_zero = 0
===============================================================================
