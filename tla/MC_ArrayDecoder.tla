---------------------------- MODULE MC_ArrayDecoder ----------------------------
EXTENDS ArrayDecoderRef, TLC

\* One ordinary character besides the five of the syntax.
CONSTANT a

MCChars     == {LBrace, RBrace, Comma, DQuote, BSlash, a}
MCItemChars == {a, Comma, RBrace, DQuote, BSlash}

=============================================================================
