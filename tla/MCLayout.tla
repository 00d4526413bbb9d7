-------------------------------- MODULE MCLayout -------------------------------
\* A terminal from two rows up to more than any overview asks for.
EXTENDS Layout
MCHeights == 2..56
=============================================================================
