--------------------------- MODULE MCWaylandHost ---------------------------
\* WaylandHost on small instances: surfaces that come and go while the first
\* terminal is closed, with frames that GTK does not import; the pointer and
\* the keyboard; sizes.
EXTENDS WaylandHost

Bounds(clients, buffers, close, drag, move, press) ==
    [clients |-> clients, buffers |-> buffers,
     close |-> close, drag |-> drag, move |-> move, press |-> press]

TwoClients == Bounds({"c1", "c2"}, {"dmabuf"}, 1, 0, 0, 0)
Surfaces == Bounds({"c1"}, {"dmabuf"}, 1, 0, 1, 0)
Input == Bounds({"c1"}, {"shm"}, 0, 0, 2, 1)
Dividers == Bounds({"c1"}, {"shm"}, 0, 2, 0, 0)

SmallScenes == {TwoClients, Surfaces, Input, Dividers}
=============================================================================
