----------------------------- MODULE MCMemPair -----------------------------
(* A stack of three bytes, registers of two; a number, one that needs both   *)
(* bytes, and two pointers, one of which is never stored.                    *)
EXTENDS MemPair

MCStored  == {{"big"}, {"ptr"}}
MCOffsets == {{0}, {1}, {2}, {0, 1, 2}}
MCWidths  == {Unknown, {1, 2}}

=============================================================================
