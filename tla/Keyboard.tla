------------------------------ MODULE Keyboard ------------------------------
(***************************************************************************)
(* A window's keys (install_window_shortcuts in app.rs): the prefix, its   *)
(* timers, the commands behind it, and the keys that go on to the focused  *)
(* terminal; and the configuration that names the prefix (lmux-config's    *)
(* watcher thread, install_config_watch), changed while keys are pressed.  *)
(***************************************************************************)
EXTENDS PaneView

CONSTANTS
    Prefixes,           \* key chords; the prefix is one of them
    DefaultPrefix

ASSUME KeyAssumption == DefaultPrefix \in Prefixes

VARIABLES
    armed, timers,      \* the prefix, and its pending timeouts
    focus,              \* "terminal", "satellite"
    prefix,             \* ShortcutPrefixCell
    file,               \* config.toml: a prefix, "no chord", "empty", "invalid"
    watch,              \* install_config_watch: "off", "loaded", "on"
    events,             \* file events not yet taken by the watcher thread
    worker,             \* "waiting", "draining", "loading"
    loaded,             \* what the worker read
    reloads,            \* configurations on their way to the GTK thread
    unseen              \* the file changed before it was watched

prefixVars == <<armed, timers, focus>>
fileVars == <<file, events, unseen>>
workerVars == <<worker, loaded, reloads>>
keyVars == <<prefixVars, prefix, fileVars, watch, workerVars>>
vars == <<viewVars, keyVars>>

\* load: an empty file means the defaults, a bad one is an error
Load(f) == IF f = "empty" THEN DefaultPrefix ELSE f

Init ==
    /\ ViewInit
    /\ armed = FALSE /\ timers = 0 /\ focus = "terminal"
    /\ file = DefaultPrefix /\ prefix = file        \* load_keymap_prefix
    /\ watch = "off" /\ events = 0 /\ unseen = FALSE
    /\ worker = "waiting" /\ loaded = DefaultPrefix /\ reloads = <<>>

-----------------------------------------------------------------------------
(* The prefix *)

ViewStays == UNCHANGED <<gridVars, top, selection, dragVars, frozen_frame, searchVars, pasting, exit_code,
                         clipboard, sent>>
ConfigStays == UNCHANGED <<prefix, fileVars, watch, workerVars>>

\* is_configured_prefix: a prefix that names no chord is the default
IsPrefix(k) == k = IF prefix \in Prefixes THEN prefix ELSE DefaultPrefix

Arm == armed' = TRUE /\ timers' = timers + 1

Disarm == armed' = FALSE /\ UNCHANGED timers

\* the timeout of an earlier arming disarms the prefix as well
PrefixTimeout ==
    /\ timers > 0
    /\ timers' = timers - 1
    /\ armed' = FALSE
    /\ UNCHANGED <<viewVars, focus>> /\ ConfigStays

\* a chord of Prefixes: it arms, ends as a command does or reaches the child
Chord(k) ==
    /\ Input
    /\ IF focus = "satellite" THEN Disarm /\ ViewStays
       ELSE IF armed THEN Disarm /\ ViewStays
       ELSE IF IsPrefix(k) THEN Arm /\ ViewStays
       ELSE KeyWrite /\ UNCHANGED <<armed, timers>>
    /\ UNCHANGED focus /\ ConfigStays

\* any other key but a modifier alone, which does nothing; the commands are
\* operations of the workspace
PlainKey ==
    /\ Input
    /\ IF focus = "satellite" \/ armed THEN Disarm /\ ViewStays
       ELSE Keys /\ UNCHANGED <<armed, timers>>
    /\ UNCHANGED focus /\ ConfigStays

FocusMoves ==
    /\ Input
    /\ focus' = IF focus = "terminal" THEN "satellite" ELSE "terminal"
    /\ ViewStays /\ UNCHANGED <<armed, timers>> /\ ConfigStays

-----------------------------------------------------------------------------
(* The configuration *)

KeysStay == UNCHANGED <<viewVars, prefixVars>>

\* an editor, or lmux itself, truncates the file and then writes it: two events
Write(f) ==
    /\ file' = f
    /\ events' = IF watch = "on" THEN events + 1 ELSE 0
    /\ unseen' = (unseen \/ watch = "loaded")
    /\ ViewStays /\ UNCHANGED <<prefixVars, prefix, watch, workerVars>>

Save ==
    /\ Input
    /\ Write("empty")

SaveEnds ==
    /\ file = "empty"
    /\ UNCHANGED inputs
    /\ \E f \in Prefixes \cup {"no chord", "invalid"} : Write(f)

\* install_config_watch: the initial load, and then the watcher
InstallLoads ==
    /\ watch = "off"
    /\ watch' = "loaded"
    /\ prefix' = IF file = "invalid" THEN prefix ELSE Load(file)
    /\ KeysStay /\ UNCHANGED <<fileVars, workerVars>>

InstallWatches ==
    /\ watch = "loaded"
    /\ watch' = "on"
    /\ KeysStay /\ UNCHANGED <<prefix, fileVars, workerVars>>

ConfigThread == KeysStay /\ UNCHANGED <<prefix, file, watch, unseen>>

\* the first event opens the window of DEBOUNCE_WINDOW
WorkerTakes ==
    /\ worker = "waiting" /\ events > 0
    /\ events' = events - 1
    /\ worker' = "draining"
    /\ ConfigThread /\ UNCHANGED <<loaded, reloads>>

WorkerDrains ==
    /\ worker = "draining" /\ events > 0
    /\ events' = events - 1
    /\ ConfigThread /\ UNCHANGED workerVars

WindowEnds ==
    /\ worker = "draining"
    /\ worker' = "loading"
    /\ loaded' = file
    /\ ConfigThread /\ UNCHANGED <<events, reloads>>

\* Mutation of Waiting: what came while the file was read is thought read
WaitingDrained == 0

\* the events that wait for the next window
Waiting == events

WorkerCalls ==
    /\ worker = "loading"
    /\ worker' = "waiting"
    /\ events' = Waiting
    /\ reloads' = IF loaded = "invalid" THEN reloads ELSE Append(reloads, Load(loaded))
    /\ ConfigThread /\ UNCHANGED loaded

ApplyConfig ==
    /\ reloads # <<>>
    /\ prefix' = Head(reloads)
    /\ reloads' = Tail(reloads)
    /\ KeysStay /\ UNCHANGED <<fileVars, watch, worker, loaded>>

-----------------------------------------------------------------------------
Install == InstallLoads \/ InstallWatches
Worker == WorkerTakes \/ WorkerDrains \/ WindowEnds \/ WorkerCalls

\* activate installs the watch before the main loop has its first event
Next ==
    \/ watch = "on" /\ ViewNext /\ UNCHANGED keyVars
    \/ watch = "on" /\ \E k \in Prefixes : Chord(k)
    \/ watch = "on" /\ (PlainKey \/ FocusMoves \/ PrefixTimeout)
    \/ Save \/ SaveEnds \/ Install \/ Worker \/ ApplyConfig

\* start-up goes on, a started save ends, the threads run
Spec ==
    /\ Init /\ [][Next]_vars
    /\ WF_vars(SaveEnds) /\ WF_vars(Install) /\ WF_vars(Worker) /\ WF_vars(ApplyConfig)

-----------------------------------------------------------------------------
(* The last configuration saved that can be read comes into use, whatever the  *)
(* order of saves, file events, reads and reloads, unless it was saved between *)
(* the first load and the start of the watcher, which nothing notices.         *)
ConfigApplied == <>[](watch = "on" /\ ~unseen /\ file # "invalid" => prefix = Load(file))
=============================================================================
