------------------------------ MODULE GuestMemory -----------------------------
(****************************************************************************)
(* What the extended page tables promise: once set up, guest page p is host *)
(* page p, readable, writable and executable, and cached write-back; an     *)
(* update of one page's rights decides how that page, and only that page,   *)
(* answers an access.                                                       *)
(****************************************************************************)
CONSTANTS Page,     \* guest-physical pages
          Rights,   \* records [read, write, execute, memory_type]
          AllRights \* the rights every page starts with

VARIABLES ready,    \* the guest's memory has been set up
          view,     \* how the processor translates each page, from then on
          halted    \* the host has panicked

vars == <<ready, view, halted>>

\* The processor refuses a page that is writable and not readable; a page with
\* no right at all is absent.
Translation(page, rights) ==
    IF rights.write /\ ~rights.read THEN [outcome |-> "misconfigured"]
    ELSE IF ~(rights.read \/ rights.write \/ rights.execute) THEN [outcome |-> "absent"]
    ELSE [outcome |-> "mapped", frame |-> page, rights |-> rights]

Init == ready = FALSE /\ view = <<>> /\ halted = FALSE

SetUp == /\ ~ready
         /\ ready' = TRUE
         /\ view' = [p \in Page |-> Translation(p, AllRights)]
         /\ UNCHANGED halted

Update(page, rights) ==
    /\ ~halted
    /\ ready
    /\ view' = [view EXCEPT ![page] = Translation(page, rights)]
    /\ UNCHANGED <<ready, halted>>

Refuse == /\ ~halted
          /\ ready
          /\ halted' = TRUE
          /\ UNCHANGED <<ready, view>>

Next == \/ SetUp
        \/ \E page \in Page, rights \in Rights : Update(page, rights)
        \/ Refuse

Spec == Init /\ [][Next]_vars
===============================================================================
