---------------------------- MODULE MC_IdentQuoter ----------------------------
EXTENDS IdentQuoterRef, TLC

\* One character of each class: a lower-case letter, an upper-case letter,
\* a digit, '_', '"' and a space.
CONSTANTS a, A, zero, us, dq, sp

MCChars == {a, A, zero, us, dq, sp}

=============================================================================
