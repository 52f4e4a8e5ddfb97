----------------------------- MODULE MCPipeline -----------------------------
EXTENDS Pipeline

BothInForeground == {<< FOREGROUND, FOREGROUND >>}

\* "p1 | p2" and "p1 | p2 &".
WithAmpersand == {<< FOREGROUND, FOREGROUND >>, << FOREGROUND, BACKGROUND >>}

NoPid == {NO_PROCESS}
=============================================================================
