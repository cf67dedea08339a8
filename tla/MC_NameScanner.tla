---------------------------- MODULE MC_NameScanner ----------------------------
EXTENDS NameScannerRef, TLC

\* One letter for names and one privilege code besides the three of the
\* syntax.
CONSTANTS a, r

MCChars     == {a, r, Eq, Slash, DQuote}
MCNameChars == {a, Eq, Slash, DQuote}
MCAlnum     == {a, r}
MCCodeTexts == {<<>>, <<r>>}

=============================================================================
