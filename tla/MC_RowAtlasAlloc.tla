-------------------------- MODULE MC_RowAtlasAlloc --------------------------
(* Model values for checking RowAtlasAlloc with TLC.                       *)
EXTENDS RowAtlasAlloc

\* Three names, so that two entries can tie on size and be ordered by name.
MCNames == {1, 2, 3}

\* Entries no wider than the initial atlas once padded.
MCSizesNarrow == {[x |-> 2, y |-> 2], [x |-> 4, y |-> 2], [x |-> 6, y |-> 6]}

\* One entry that is wider than the initial atlas once padded.
MCSizesWide == {[x |-> 2, y |-> 2], [x |-> 7, y |-> 2]}

MCInitSize == [x |-> 8, y |-> 8]

\* Powers of two, unequal so that one axis reaches its maximum first.
MCMaxSize == [x |-> 32, y |-> 16]

\* A maximum that is not a power of two on either axis.
MCMaxSizeOdd == [x |-> 12, y |-> 12]
=============================================================================
