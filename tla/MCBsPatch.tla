----------------------------- MODULE MCBsPatch -----------------------------
EXTENDS BsPatch

MCOld == <<1>>

\* A long has three bits: positive fields, a negative one, the zero with its sign
\* bit set, and a field that does not fit and folds to 1.
MCFields == [neg: {FALSE}, mag: {0, 1, 2, 9}] \cup [neg: {TRUE}, mag: {0, 1}]
=============================================================================
