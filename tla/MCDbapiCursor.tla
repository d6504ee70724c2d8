---------------------------- MODULE MCDbapiCursor ----------------------------
(* DbapiCursor for TLC: two cursors, batches with one or two results. *)
EXTENDS DbapiCursor

CONSTANTS c1, c2

\* Two result sets; a row count after a result set and before one; a statement that
\* reports no count.
MCBatches == {<<2, 1>>, <<1, NoRows>>, <<NoRows, 0>>, <<NoCount>>}

\* The cursors are interchangeable; only safety is checked.
CursorSymmetry == Permutations(Cursors)
==============================================================================
