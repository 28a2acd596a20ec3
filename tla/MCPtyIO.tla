------------------------------ MODULE MCPtyIO ------------------------------
\* PtyIO on small instances: items of every kind, cut anywhere, with an agent
\* that captures; bells around a title; a paste into a child that prints.
EXTENDS PtyIO

Bounds(printable, bytes, typed, captures) ==
    [printable |-> printable, output |-> bytes, input |-> typed, captures |-> captures]

Cuts == Bounds({"text", "bell", "long title", "query", "query, bel"}, 4, 1, 2)
Bells == Bounds({"bell", "long title", "query, bel"}, 6, 0, 0)
Paste == Bounds({"text", "query, bel"}, 5, 2, 0)

SmallScenes == {Cuts, Bells, Paste}
=============================================================================
