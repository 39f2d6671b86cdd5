------------------------- MODULE MCExtendedPageTables -------------------------
EXTENDS ExtendedPageTables

F(r, w, x) == [read |-> r, write |-> w, execute |-> x, memory_type |-> 6]
\* The rights initialize_read_hook gives, no access, read only, all.
MCFlags == {F(TRUE, TRUE, TRUE), F(FALSE, TRUE, FALSE), F(FALSE, FALSE, FALSE), F(TRUE, FALSE, FALSE)}
\* The first page, a page of another table, a page of the other directory, and
\* an address that is not a page's.
MCGpa == {0, 3 * 4096, 6 * 4096, 6 * 4096 + 8}

Clean == [flags |-> [F(FALSE, FALSE, FALSE) EXCEPT !.memory_type = 0],
          physical_address |-> 0, must_be_zero |-> 0]
\* Memory left by what ran before, the fields no setter writes excepted.
Leftover == [flags |-> F(TRUE, TRUE, TRUE), physical_address |-> 3, must_be_zero |-> 0]
CleanReserved == {Clean, Leftover}
\* ... and those fields too: nothing zeroes cpu_data.
AnyMemory == {Clean, [Leftover EXCEPT !.must_be_zero = 1]}
===============================================================================
