-------------------------------- MODULE MCParts --------------------------------
EXTENDS Parts

\* From nothing to one byte more than the largest request.
AllSizes == 0 .. MAX_BYTES + 1

\* From NULL to one byte past the last block.
AllPointers == -1 .. BLOCK_COUNT * BLOCK_SIZE

\* Two fonts: five columns in five rows, and two columns in two rows.
SmallFonts == [f \in {0, 1} |-> f + 1]

Message == << "char", "newline" >>
Greeting == << "char", "newline" >>
=============================================================================
