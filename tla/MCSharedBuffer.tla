--------------------------- MODULE MCSharedBuffer ---------------------------
(***************************************************************************)
(* Small instances of SharedBuffer.                                        *)
(***************************************************************************)
EXTENDS SharedBuffer

CONSTANTS h1, h2

\* One lender of a buffer of one or two pages (released, of a second), mapped at
\* two places, and one borrower.
LenderQuota ==
    [h \in Holder |->
        IF h = h1 THEN [pages |-> 2, buffers |-> 1, mappings |-> 2, loans |-> 1]
        ELSE [pages |-> 0, buffers |-> 0, mappings |-> 1, loans |-> 0]]
=============================================================================
