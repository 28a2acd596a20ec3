---------------------------- MODULE MCBusServer ----------------------------
\* BusServer on small instances: every command by itself; some commands next
\* to an agent or another program; a few commands while two cockpits come
\* and go.
EXTENDS BusServer, TLC

Scene(cockpits, program1, program2) ==
    [cockpits |-> cockpits, programs |-> "c1" :> program1 @@ "c2" :> program2]

OneCockpit == {CHOOSE c \in Cockpits : TRUE}

EveryCommand == {Scene(OneCockpit, p, "nobody") : p \in DOMAIN Cli}
Together == {Scene(OneCockpit, "pane_new", "mcp"),
             Scene(OneCockpit, "satellite_attach_window", "peer")}
Restarts == {Scene(Cockpits, p, "nobody") : p \in {"status", "pane_new", "session_list"}}

SmallScenes == EveryCommand \cup Together \cup Restarts
=============================================================================
