------------------------------ MODULE MCStdio ------------------------------
\* Two FILE blocks, two host handles and one temporary name.
EXTENDS Stdio
CONSTANTS f1, f2, h1, h2, t1

\* "r" and "r+" (which on the console is only written).
MCModes == {{"r"}, {"r", "w"}}
=============================================================================
