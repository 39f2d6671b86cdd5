------------------------------ MODULE MCModeSwitch -----------------------------
(****************************************************************************)
(* Tables of 8 entries for 4 "GiB" of 8 large pages, which just fill the    *)
(* 256 pages that edi can count.  Code and stacks are at addresses of the   *)
(* sizes the real ones have.                                                *)
(****************************************************************************)
EXTENDS ModeSwitch, FiniteSetsExt

Labels == FoldSet(LAMBDA label, list : Append(list, label), <<>>, Label)

MCAddress == [label \in Label |->
                LET i == CHOOSE n \in 1 .. Len(Labels) : Labels[n] = label
                IN  (IF label \in Image THEN 2 ^ 20 ELSE REAL_MODE_BASE_ADDRESS) + 37 * i]

\* Clean memory, and memory that looks like entries.
MCLeftover == {[address |-> 0, flags |-> {}],
               [address |-> 7, flags |-> {"PAGE_PRESENT", "PAGE_SIZE"}]}
================================================================================
