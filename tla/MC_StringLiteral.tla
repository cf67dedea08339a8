------------------------- MODULE MC_StringLiteral -------------------------
(* Model values for the bytes of StringLiteral. *)
EXTENDS StringLiteral

CONSTANTS a, q, bs, l2, l3, ct, sp, e, nul

MCBytes == {a, q, bs, l2, l3, ct}

=============================================================================
