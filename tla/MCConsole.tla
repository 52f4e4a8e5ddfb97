------------------------------- MODULE MCConsole -------------------------------
EXTENDS Console

\* Two fonts: five columns in five rows, and two columns in two rows.
SmallFonts == [f \in {0, 1} |-> f + 1]

Message == << "char", "newline" >>
Greeting == << "char", "newline" >>
=============================================================================
