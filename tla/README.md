# A verification model of lmux

lmux is a tiling terminal cockpit: one GTK process holds a tree of terminal
panes, groups them into workspaces rooted at *anchor* panes, embeds or steers
GUI windows (*satellites*) next to them, and is controlled by keys, pointer,
sidebar, a Unix-socket bus (CLI, MCP agents) and a nested Wayland host.

## 1. Inventory

| Component | Source (`crates/`) | State | Operations | Hard behaviour |
|---|---|---|---|---|
| Workspace core | `lmux/src/state.rs` | pane map, split tree, focus, anchors, ownership map, tab stacks, shown tab, tab roots, active anchor, next id | split, tab, close, exit, tag, untag, activate, new workspace, bus pane, focus, rearrange, toplevel mapped/unmapped | five maps that must agree; closes that cascade; a focus that is a bare id; host events and child exits between any two operations |
| Layout tree | `lmux/src/layout.rs` | a binary tree of pane ids | `leaves`, `replace_leaf`, `remove_leaf`, `reparent` | refusal at the last leaf; collapsing of splits |
| Session switch, restore, shutdown | `lmux/src/state.rs`, `app.rs` | phase, current session, everything above | `switch_session`, `restore_*`, `drain_panes_for_shutdown`, `run_shutdown` | failure after the old session is gone; ids that are used again; operations after the drain |
| Anchor lifecycle | `lmux-anchor`, `state.rs` | registry of anchors (Live, Paused, Hidden, Dead), hidden set, process groups | pause, resume, hide, reattach, rename, regroup | side effect before the registry may refuse |
| Satellite windows, bridge | `lmux/src/compositor_bridge.rs`, `state/support.rs` | windows per anchor, sequence number, unbounded queue, latest sequence | register, broadcast, drain, apply | two threads; coalescing; abandoning a switch half-way; failed window operations |
| Grants | `lmux/src/agent_control.rs` | map of grant records | request, decide, authorise | records that shadow one another; one-shot and timed grants |
| Bus dispatcher | `lmux/src/bus.rs` | deferred requests | 30 request kinds; attach and launch-attach await | authorisation and use separated by awaits; deadlines |
| Bus server and client | `lmux-bus` | socket, pid file, connections | bind, reclaim, serve, shutdown | stale sockets and concurrent starts |
| Session store | `lmux-session`, `lmux-state` | a file per session, an index, temporary files | create, save, rename, delete, load, list, rebuild | crashes between two writes; a stale current session; concurrent lists |
| Terminal pane | `lmux/src/pane.rs`, `lmux-pty` | PTY, transcript ring, child, exit code; viewport, selection, frozen picture, search | output, input, resize, poll, terminate, kill; drag, scroll, paste, copy, find | exit races; bounded transcript and channel; a blocking write on the thread that empties the channel; rows that move during a drag |
| Key map | `lmux/src/keymap.rs`, `app.rs` | prefix armed or not | key press, timeout | a stale timer disarming a newer prefix |
| Sidebar, switcher | `lmux/src/sidebar*`, `switcher.rs` | rows, drag state | views and buttons over AppState | none of its own, except reordering |
| Satellite widget, Wayland host | `lmux/src/satellite.rs`, `lmux-wayland-host` | surfaces, sizes, popups, command queue | map, commit, resize, close | two threads, ordering of configures, frames and closes |
| Launcher, compositor backends | `lmux/src/launcher*`, `lmux-compositor` | spawn registry, loaded script | spawn, match, hide, show | a window that appears late or never |
| Configuration, notifications | `lmux-config`, `lmux-notify` | watcher, ids to replace | reload, notify | debounce |
| CLI, MCP | `lmux-cli`, `lmux-mcp` | one request in progress | 30 commands, 9 tools | an exit code that has to tell what happened in another process |
| Terminal emulator binding | `lmux-libghostty` | the grid of a C library, an unfinished query | feed, render, scroll, select, answer queries | sequences cut by reads |
| macOS helper, e2e harness | `lmux-macos-helper`, `lmux-e2e` | none worth a model | calls of the system, tests | none |

How they interact: everything that changes the workspace runs on the GTK main
thread, one operation at a time. Bus requests reach it over a channel
(`bus.rs: run_dispatcher`), child exits through a one-second poll and an idle
callback (`pane.rs`, `app.rs: make_terminal_exit_cb`), Wayland windows through a
channel of host events, buttons and keys directly. What leaves the main thread
are visibility commands (bridge), host commands, and files.

What makes each correct: *workspace* - the maps agree, a workspace on screen, no
close takes a neighbour along; *tree* - the in-order traversal; *session switch* -
one whole session, old or new; *lifecycle* - registry, hidden set and process
state agree; *bridge* - the windows shown at rest are those of the active anchor;
*grants* - access only under a live grant, one-shot grants used once; *attach* -
the window goes to the anchor it was authorised for; *server* - one live socket
per user; *store* - after a crash every session is intact and listed once.

## 2. Plan

Done:

1. `Workspace`, `WorkspaceProofs`: the core, with its theorems.
2. `AnchorLifecycle`, `AnchorLifecycleProofs`: pause, resume, hide, reattach
   against the registry and the processes.
3. `WindowGroups` (abstract: wishes are carried out, never an older one after a
   newer), `CompositorBridge`, which implements it, and `CompositorBridgeProofs`,
   the refinement included.
4. `SessionStore`, `SessionStoreProofs`: files and index, with crashes between the
   writes.
5. `Grants`, `AttachFlow`, `AgentRequestProofs`: what the user decides
   and what it is used for; dispatcher tasks between their awaits.
6. `LayoutTree` and, built on it, `SessionSwitch`: the recursive tree itself, shown
   to obey the order `Workspace` keeps of it, and one whole session after another.
7. `WaylandHost`, `WaylandHostProofs`: host thread, cockpit and satellite widgets.
8. `PtyIO`: the bytes of a terminal. `PaneView`: what the pane shows of them.
   `Keyboard` (extends `PaneView`): the keys in front of both, and the
   configuration that names the prefix.
9. `BusCommands` (tables), `BusSocket` (the files), `BusServer` (extends both):
   cockpits, their bus and its clients.

`SessionSwitch` uses the recursive `LayoutTree`, `PtyIO` folds over the bytes: they have
no theorems and stay with TLC.

## 3. Modules and the code

### Workspace

State: `panes` = `AppState.panes`; `satellites` are the panes whose
`is_satellite` holds; `exited` those whose `has_exited` holds; `exit_queue` the
idle callbacks queued by the exit poll; `leaves` and `order` the split tree seen
as its leaves and their in-order traversal; `focused`, `next_id`, `anchors`,
`pane_workspace`, `active_anchor`, `surface_to_pane` have the names of the fields;
`terminal_tabs`, `active_tab`, `tab_roots` are `terminal_tabs_by_anchor`,
`active_terminal_tab_by_anchor`, `pane_terminal_tab_roots`. A missing map entry is
`None` (0) or the empty set.

Each action is a whole operation of `AppState` and bears its name: `SplitFocused`,
`CreateNewAnchor`, `NewTabButton` and `CreateTerminalTabForFocused` (both
`create_terminal_tab_for_anchor`), `PaneNew` (`create_pane_from_bus`),
`CloseFocused`, `ChildExits`, `CloseExitedPane`, `AddAnchor`, `RemoveAnchor`,
`SetActiveAnchor`, `CycleActiveAnchor`, `ActivateTerminalTab`, `SetFocused`,
`CycleFocus`, `ReparentPane`, `OnToplevelCreated`, `OnToplevelClosed`. `Reap` is what
closing and untagging share: `close_orphan_terminal_panes`, the promotion of
another anchor and `ensure_anchor_invariant`. When every remaining leaf is an
orphan one of them stays, and which one depends on the order of a `HashMap`: a
nondeterministic choice.

Abstracted: directions and ratios of splits, widgets, CSS, titles, uuids, agent
metadata, transcripts. `Visible` is `prune_to_workspace`: what the mounted page
shows. Guards that come from elsewhere: key shortcuts are dropped while a satellite
has the focus (`app.rs`), and pointer events reach panes on screen only.

### AnchorLifecycle

A workspace is its anchor pane here. `registry` is the `AnchorRegistry`
(`lmux-anchor`); `Untagged` means no entry, and `Dead` is left out because nothing
in the repository enters it. `hidden` is `hidden_anchors`, `shown` the panes whose
widget has its visible flag set, `active` is `active_anchor`. `proc` is the child of
the pane: `zombie` is a child that exited before the one-second poll called
`try_wait`, `reaped` one after it. `kill_timers` are the panes `terminate` was called
for, whose `schedule_force_kill` is to come, `exit_queue` the idle callbacks queued
by the poll.

`Pause`, `Resume`, `Hide`, `Reattach`, `Activate`, `Create`, `Untag`, `Close`,
`CloseExited` are `pause_anchor`, `resume_anchor`, `hide_anchor`, `reattach_anchor`,
`set_active_anchor`, `create_new_anchor`, `remove_anchor`, `close_focused` and
`close_exited_pane`. The first four have side effects before the registry may refuse:
the refusal is a branch of the action in which only the registry stays.
`ProcessExits`, `Poll`, `ForceKill` are the process itself, the poll and the timer. A
process may exit on SIGTERM or ignore it; a stopped one keeps it pending. SIGKILL
ends a stopped process too. The signals are `killpg` and `kill`, which succeed on a
zombie and fail once it was reaped.

### WindowGroups, CompositorBridge

`WindowGroups` is what the cockpit may expect: wishes only accumulate, and a window
changes only because of the wish begun last or of a later one.
`CompositorBridge` implements it with `wishes <- issued`, `round <- taken`.

On the GTK side `owner` is `satellite_windows_by_anchor` seen from the windows,
`issued` the commands `broadcast_satellite_visibility` built, in the order of
`satellite_visibility_seq`; a command in the channel is its sequence number. The two
steps of `try_send` (the atomic, then the channel) are `Announce` and `Send`, and the
GTK thread does nothing else in between (`GtkIdle`). `SetActiveAnchor`, `AddAnchor`,
`RemoveAnchor`, `RegisterSatelliteWindow` are the operations that broadcast;
`RemoveLastAnchor` broadcasts twice (no active anchor, then the retagged pane).

The thread of `compositor_bridge.rs` receives and drains (`Receive`, `Coalesced`),
and applies the command window by window: `Begin` checks `is_stale` and calls the
compositor, `Finish` is its return, `Leave` the end of the loop or the early return
on a newer command. `batched` is set for the macOS helper, which is given a whole
group. A
call may fail, and one that reported a failure may have worked.

`visible` is the desktop. The environment is assumed not to show or hide windows on
its own (a user who minimises a window is outside the property), and the
saturation of the sequence number at `u64::MAX` is not modelled.

### SessionStore

`sessions` and `broken` are the directory: the session files that parse, with
what they hold (`id`, abstract) and `last_opened_at_unix_seconds`, and those that do
not. `index` and `index_broken` are `index.toml`; the list is seen as the set of times
each name has, since a rename can leave a name twice in it and `touch` and `rename`
change the entry found first, which is the latest (`Latest`). `current` is
`AppState.current_session`, `live` the session whose panes are on screen.

`Create`, `Rename`, `Delete` and `Switch` are `session.new`, `.rename`, `.delete` and
`.open`: the checks and the load at the start of the operation. What follows is one
action per file operation: `Write` (`write_session`), `Remove` (`remove_file`), `Read`
(`read_index` and the change of the list), `Commit` (`write_index`). `pc` and `job` say
where in which operation the cockpit is. All of them run on the GTK thread, one at a
time. `Fail` is an error return between any two, `Crash` the end of the process;
`ListReads` and `ListMovesAside` are a `session.list` in a blocking worker or another
process that meets a malformed index. `astray` is a history variable: the names whose
index entry may be wrong since damage or an interrupted operation; the code has
nothing like it.

Not in the model: a session named `index`, a valid name whose file is the index
itself; the temporary files a failed write leaves, which nobody reads; a failing
`rename_aside`, which is logged and leaves the damaged file for the next time;
`migrate_v01_last_session`, which only tests call.

### Grants

A record is a `GrantRecord`; records are numbered instead of bearing uuids, and a
forgotten one is `gone`. An anchor stands for its whole workspace, as it does in
`grant_matches` whenever the target has an owner. What is asked for (`What`) is a
scope of pane access, the metadata of the exact window to attach, or the command
line and hints of a launch. `homes` are the workspaces an agent has panes in
(`pane_agents` with `pane_workspace`), `rows` the popover: what
`grant_views_for_anchor` said when it was opened.

`AuthorizePaneAccess` is the set of outcomes of `authorize_pane_access`, because
two `HashMap` iterations decide: which pane of the agent is found first
(`first_agent_anchor`), and which record that matches (`existing_grant_decision`).
`Access` is any request that is authorised and then carried out, `RenamePinned` the
rename of a user-pinned title, which registers a request after it was authorised,
`RegisterGrantRequest` is `grant.request`. `DecideGrant` is a click on a button of
`grant_row`. `Expire` makes the comparison of `AllowUntil` with the clock a step.
`verdict` and `uses` are history: what the user said last, and the uses since then.

### AttachFlow

`task` are the requests in progress in `handle_deferred` (and the picker's own
futures); `pc` is the await they are at: `before` (the first list), `spawn` (it is
back), `search` (the lists of the loop), `validate` (the compositor's
`attach_window`), `attach` (that is back). What happens between two awaits is one
action: `AttachWindow`, `LaunchAttach`, `PickWindow` start a request, `ListBefore`
and `Spawn` are the two halves of the first list, `Found` and `TimesOut` a later list
with its comparison, `Validate` the second look at the window (KWin and X11; the
macOS backend takes the candidate as it is), `Attach` and `AttachNowhere` are
`attach_native_window_to_active_anchor`. Whether a request is authorised is `Grants`;
a refused one changes nothing here. Windows appear, opened by a child or by anybody,
and vanish; a window that is new may fit a launch's hints or not. `active_anchor`
changes at any moment; a session switch changes it too and leaves the records of
windows. `anchor` and `known` are history.

### LayoutTree, SessionSwitch

`LayoutTree` has the tree of `layout.rs`, a leaf or a split, and its functions as they
recurse: `Leaves`, `ReplaceLeaf`, `RemoveLeaf`, `Reparent`, `Prune`
(`prune_to_workspace`). `ObeysOrder` says that of any tree the effects of these
functions on the traversal are those `Workspace` gives to `order`.

In `SessionSwitch` `live` is the part of `AppState` that is saved or rebuilt, as one
record, because a switch replaces all of it: helper operators (`WithoutPanes`,
`Tagged`, `OrphansClosed`, `Anchored`) are functions from one such record to the
next, as the code's private methods are. `files` and `last` are what the session
files and `last-session.json` hold. `SwitchSession`, `Start` (`activate`,
`load_snapshot`, `build_restored`), `RunShutdown`, `Quit` and `Crash` are the life of a
session; `SplitFocused`, `NewTab`, `CreateNewAnchor`, `CloseFocused`, `ReparentPane`,
`OnToplevelCreated`, `OnToplevelClosed` are there to give snapshots of every kind.
Any pane may fail to spawn (`Built` takes the set of those that do spawn). `sane` and
the `good` of a file are history: they say whether the tree has been broken, and in
one of three ways named at `LiveWhole`.

### WaylandHost

The host thread owns `surfaces` (its toplevels and popups: tracked, announced to the
cockpit, alive in the client), the GTK thread everything else; `event_queue` and
`command_queue` are the two channels. `NewToplevel`, `NewPopup`, `Commit`,
`RepositionRequest`, `Destroy` are the handlers of `state.rs`, called by a client;
`Disconnect` is its end, `Reap` what each turn of the host's loop does about surfaces
whose client has gone, `RunCommand` the execution of one `HostCommand`.
`HandleHostEvent` is `AppState::handle_host_event` for one event, with the widget's
`attach_popup`, `detach_popup` and frame functions. `Allocate` is GTK's layout,
`Tick` the tick callback of `install_resize_handler`, `Enter`, `Leave`, `Press` the
controllers of a picture.

A satellite pane is named by its surface. `panes` is the pane map and `leaves` the
layout, as sets; one pane, `Terminal`, stands for the terminals. What `Workspace` says of
the focus is a choice here: a new toplevel splits a leaf, takes the whole tree (the
focused pane is no more), or is dropped (the focused pane is in the map and not in the
layout). The fourth way out of `on_toplevel_created`, no command channel, cannot happen:
the channel is installed before the first event is dispatched (`app.rs`). Every rebuild
of the widget tree (`Rebuild`) takes the pictures out and puts those of the leaves back,
and GTK may take focus and pointer from each; a picture hears of it or not. `past` is
history: the toplevels that were dropped, the panes kept as the last leaf although their
window went (`remove_leaf` refuses), and the surfaces with a dmabuf GTK did not import
(`Repaints`, the early returns of `push_dmabuf_frame` and of the popup's). No action
closes a satellite from the cockpit: `request_close` would be reached by a shortcut,
and the shortcuts do not work while a satellite has the focus (`ShortcutsReach` in
`Workspace`); a session switch is not in this module.

### PtyIO

`printing` is what the child has yet to write of an item of output, `output` and
`input` the kernel's buffers, `hand` the chunk the reader thread holds, `channel` the
bounded channel to the GTK thread, `writing` what is left of the `write_all` the GTK
thread is in. Output is a sequence of byte classes, cut anywhere. `ReceiveChunk` is
the whole task of a chunk: the bell scanner (`ScanAll`), the query responder with the
unfinished sequence it keeps unless it is longer than 64 bytes (`Respond`, `Pending`), the
transcript (`AppendBytes`), the reply the responder writes, and the callback for a chunk
with bells unless one fired within `BELL_DEBOUNCE` (`Fires`; `DebounceEnds` is the time
passing). `SendInput` starts a write, `WriteAll` is one byte of it;
while it lasts the GTK thread does nothing else. `PollExit` is the one-second timer.
`Capture` is an agent that follows the transcript; what it has (`agent`) is history,
as are `unrung`, `unanswered` and `notice`.

### PaneView, Keyboard

`lines`, `evicted`, `rows`, `top` are the screen of the emulator, `selection`,
`drag_anchor`, `drag_pointer`, `frozen_frame`, `search` the fields of the pane's
`Inner`. Actions are the controllers of `pane.rs`: `Keys` (what a key does once it
reaches the pane), `Wheel`, `DragBegin`, `DragUpdate`, `DragTick`, `DragEnd`, `Menu`,
`RequestPaste` and `PasteArrives` (the clipboard is read asynchronously), `FindKey`,
`TypeQuery`, `AdvanceSearch`, `CloseSearch`; besides them `Feed`, `Resize`, `Exit` and
the `SendInput` of an agent. A row is a word, and columns are left out.

`Keyboard` puts the window's key controller in front: `Arm`, `Disarm`,
`PrefixTimeout`, `Chord`, `PlainKey`, with as many timers as were started, since none
is cancelled. `Save` and `SaveEnds` are the two file operations by which
`config.toml` is replaced, `InstallLoads` and `InstallWatches` the start of the
watcher, `WorkerTakes`, `WorkerDrains`, `WindowEnds`, `WorkerCalls` its thread,
`ApplyConfig` the reload on the GTK thread.

### BusCommands, BusSocket, BusServer

`BusCommands` holds what both sides of the bus have written down: for every
subcommand of `lmux-cli` the kind it sends and the replies it takes (`Cli`, from one
table per source file, `Tables`), for every tool of `lmux-mcp` its kind (`Tools`), for
every kind whether it is served, by which thread, and what it is answered with
(`Results`, a list of pairs; `ok` for the kinds that are not in it), and what may have
become of a request that is answered so (`Effects`): an error may come with a part done
and not taken back (`Halfway`), even with everything done (`Late`), and a success with
nothing done, where the handler does not look (`Unchecked`).

`BusSocket` is `bus.sock` and `bus.sock.pid` over the lives of several cockpits, one
system call at a time: `Check`, `ReadPid`, `RemoveFiles` are `reclaim_stale`, `Bind`,
`Chmod`, `WritePid` the rest of `Server::bind`, `CloseFiles` is `shutdown` and then
`Drop`, which remove both files once each. `ReusePid` gives a dead cockpit's pid to
another program. `overlapped` is history: two cockpits have been starting or stopping
at once.

`BusServer` adds the clients (`Connect`, `SendRequest`, `ReadReply` and their
failures; `ReadMessage` is the loop of `lmux-mcp`; a *peer* is a program that speaks
the protocol itself and need not wait for replies), the connection tasks (`Accept`,
`Greet`, `Refuse`, `TooLarge`, `NoEnvelope`, `Handle`), and the GTK thread
(`Dispatch`, `Answer`, `AskWindowSystem`, `WindowSystemAnswers`). Every cockpit has a
channel of its own to its GTK thread (`deferred`); an answer goes back through a oneshot
(`Returns`) to the connection's task, which writes it (`WriteReply`). What a request does
to the cockpit is the business of the other modules; here it is done, done in part or not
at all (`served`, history), which is one thing, and answered, which is another.

## 4. Runs

| Run | Bounds | Question |
|---|---|---|
| `terminals` | 4 pane ids, no host, fair idle callbacks | do the five maps agree, is something always on screen, are neighbours safe, does every exited pane go |
| `host` | 4 pane ids, 2 surfaces | does each embedded window keep a pane of its own |
| `lifecycle_states` | 3 pane ids, fair timers | do the registry, `hidden_anchors`, the widgets and the processes agree as far as the code keeps them together; does every closed pane's process end |
| `bridge_windows` | 2 windows, 3 anchors, 4 commands, both ways of calling, fair threads | do the windows follow the active anchor; is `WindowGroups` implemented; does the bridge come to rest |
| `store_files` | 2 names, 2 clock readings, 3 sessions created, all faults | what survives when an operation is cut short between any two file operations |
| `grant_records` | 1 agent, 2 anchors, 1 thing to ask for, 3 records | is every record used as the user decided |
| `attach_requests` | 2 requests, 2 windows, 2 anchors, fair requests | one owner per window; launches take new windows only; every request is answered |
| `session_switch` | 2 names, 1 surface, 4 pane ids, 3 operations, 3 switches, shutdowns or starts | is the tree on screen whole; does what was saved come back; does the tree obey the order |
| `wayland_surfaces` | 2 surfaces, 2 messages per channel, four scenes (below), fair threads | does the cockpit show what there is and nothing else; where do keys and clicks go; is the last size told |
| `pty` | a kernel buffer of 2 and one of 1, a channel of 6, a transcript of 1 line, three scenes (below), fair threads | do cuts matter for bells, queries and the user's notice; are gaps in the transcript told; do writes end; is the exit noticed |
| `view` | 4 rows, 2 heights, 2 rows of scrollback, 4 inputs, 2 prefixes | what is copied, shown and found; does the last configuration come into use |
| `bus` | 2 cockpits, 2 clients, every command, 2 tools, 6 kinds of foreign frames, 2 messages each | whose socket is it; do answers fit what was asked; is everybody answered |

In the runs of `Workspace` the bound is the number of pane ids handed out (`MaxPane`). Four are enough for two
workspaces with two tabs each, a split tab, an orphan cascade that takes several
panes and a promotion afterwards; a fifth changes no case distinction of the code.
Two surfaces are the fewest that can be confused. Deadlock is not checked: with all
ids spent and a single pane left nothing need happen. The same holds for every other
run: the users, clients and children of a bounded instance come to an end.

Fairness in `Workspace`: a pane in `exit_queue` is taken from it, weakly, since the GTK
main loop runs every idle callback that was queued. Users, agents, children and the
Wayland host owe nothing. (The callback gives up if the state is borrowed at that
moment; an idle callback runs from the main loop, where no operation is in progress.)
With a host `ExitedPaneGoes` fails: a satellite that is tagged keeps panes alive whose
tree has been replaced.

In `AnchorLifecycle` the operations concern one anchor, the promoted one and the
active one, so three ids are one of each. In
`CompositorBridge` (`MaxAnchor`, `MaxSwitch`) two windows can be on opposite sides of
a switch or both on one, three anchors let a window belong to an anchor that is
neither left nor entered, and four commands let a window be attached, a switch be
begun, abandoned for a newer one, and two be coalesced.

In `Grants` three records allow one that is found, one that shadows it and one that is
asked for meanwhile; agents and things asked for only meet in `Matching`, which
compares them, so one of each will do, and a second anchor is the agent's home. In
`AttachFlow` two requests can overlap at every step, with one window each or the same
one, and two windows let one be there before a launch and one come after it.

In `SessionStore` two names are the two of a rename, one of which a session created
meanwhile can take; two clock readings make one earlier and one later, in either
order, since the clock may be set; a third session can replace one that was lost.

In `SessionSwitch` three operations (`MaxOps`) suffice for two workspaces, one with a
split and one with a second tab, or for a drag over a satellite; three swaps
(`MaxSwaps`) for a switch away and back with a restart between. `TreeObeysOrder` is
checked of every tree that appears.

In `WaylandHost` two surfaces are a toplevel with its popup or dialog, or two
satellites between which focus moves; two messages per channel (`MaxQueue`) let an
event or command be overtaken by what happens on the other thread. What
clients attach and the user does is bounded by scenes (`Scenes`, in `MCWaylandHost`):
two clients, dmabufs and a terminal that is closed; one client, dmabufs, a terminal
closed and one picture entered; one client, shared memory, two pictures entered or left
and a press, which may be on a surface the host has forgotten; shared memory and two
allocations, below and above the least size. A client that has gone may come back, so
one is enough where two need not be alive at once; a dmabuf may be shown or dropped,
while one in shared memory is always shown.

In `PtyIO` the scenes (`MCPtyIO`) are four bytes of any items with one byte typed and two
captures, which is the longest item, or two that share a chunk; six bytes of bells and
titles, for the debounce and a title cut between two bells; a paste of two bytes into a
child that prints five, which is enough for the GTK thread to be in a write while
everything is full. `TranscriptMaxLines` 1 makes the ring drop on every line. The last line of
`PtyAssumption` is the condition under which `WriteEnds` can hold at all: channel and
kernel buffers hold what the child prints, echoes and is answered during one write.
The constants of the code (64 chunks of 4096 bytes and the kernel's buffers) satisfy it for
what a user types, not for every paste (section 5).

In `PaneView` four rows with a viewport of two or three have matches above, in and
below the view, and two rows of scrollback make the first row go soon; four inputs
(`MaxInputs`) are press, move, scroll, release, or open, type, next, next.

In the run `bus` there are three kinds of scene (`MCBusServer`): every command of
`lmux-cli` by itself against a cockpit that may crash or quit at any point; a command
beside an agent or a foreign program; three commands while two cockpits come and go.

Fairness elsewhere: in `AnchorLifecycle` `Poll` and `ForceKill` weakly, both timers of the GTK main loop; the
process itself owes nothing. In `AttachFlow` a request in progress goes on (`Proceeds`, weakly): the
deadline of `launch_attach` passes, and workers answer or fail (KWin is called over
D-Bus and X11 with `xdotool` without a limit; that they answer is an assumption). In `CompositorBridge` `Announce` and `Send` weakly, because `try_send` runs to
completion on the GTK thread and the channel is unbounded; `Receive`, `Begin`,
`Finish`, `Leave` weakly: the bridge thread runs, and the compositor answers. Only the
macOS backend bounds its calls to the helper by a timeout; KWin bounds nothing but the
capture of a preview, X11 nothing at all, and a call that hangs hangs the bridge:
`Settles` says nothing of that case. In `WaylandHost` the host's loop (`Reap`, `RunCommand`),
the GTK main loop (`HandleHostEvent`) and the frame clock (`Tick`) run; clients and
user owe nothing. In `PtyIO` both threads run, the poll comes round, and the child
reads what is typed and finishes what it prints: a child that never reads blocks the
GTK thread, and `WriteEnds` says nothing of it. In `Keyboard` the watcher thread, the
reload and a save under way go on; saves and keys come when they like. In `BusServer`
cockpits go on with what they are doing (`CockpitMoves`), clients read and write
(`ClientStep`), and connection tasks and dispatcher run (`ServerStep`), each weakly and
by cockpit or client; the window system need never answer, which is what `AllAnswered`
is about.

## 5. Findings

What the code does and something written about it says otherwise, or what a reader of
the code would not expect. None has a run of its own; each is plain from the code once
it is modelled, and the properties above are stated so that they hold beside it.

Workspace and anchors:

* Activating an anchor that shows another tab focuses the anchor's own hidden pane
  (`set_active_anchor`): the next close shortcut takes the whole workspace, while
  `openspec/specs/anchors/spec.md` has the panes of the workspace visible and the focus
  on the anchor.
* Pause, hide, reattach, resume leave an active `Live` anchor whose widget is
  invisible (`reattach_anchor` takes it out of `hidden_anchors` and returns the
  registry's error before `set_visible`); a second reattach does nothing.
* Untagging an anchor closes its pane with the whole workspace (`remove_anchor` ends in
  `close_orphan_terminal_panes`; the specification keeps the pane); untagging the last
  one tags another at once (`ensure_anchor_invariant`; the specification says the
  active anchor becomes `None`); tagging closes unowned terminals (`add_anchor`; the
  specification adopts them).
* Closing the root of a split tab strands the other panes of the tab, alive, in no tab
  and never shown (`remove_terminal_tab_metadata`); closing a pane focuses the first
  leaf, not the next one (`close_focused`); a satellite can be tagged
  (`tag_anchor_core` does not ask `is_satellite`).
* A Wayland window that maps while the focus dangles, because its inactive workspace
  was untagged, replaces the whole tree (`on_toplevel_created`).
* Pausing a hidden anchor stops its process although the registry refuses; hiding a
  paused one hides it and leaves the registry at `Paused`; the windows of a removed
  anchor stay recorded under it and are hidden again by every later switch.

Sessions:

* Renaming the open session leaves `current_session` at the old name, and the next
  switch writes the tree over whatever session has that name by then
  (`openspec/specs/sessions/spec.md`: the tree is saved to its session).
* A list that meets a malformed index moves it aside, returns the rebuilt one and
  writes nothing, so the next list is empty but for sessions touched later; renaming a
  session whose file is malformed fails after it has written an empty session under
  the new name; the target of a switch is loaded before the outgoing session is saved
  (the specification has the save first).
* A restart or a switch puts every pane that is no anchor under the first anchor, while
  the restored tab stacks of other anchors still list it (`restore_persisted_metadata`).
  A file with several leaves and no anchor comes back as one pane.
* A switch during the grace of a shutdown sets the phase to `Running`, saves the
  drained tree, and the application still quits; after a switch that could spawn
  nothing `current_session` is the old one, which the next switch overwrites.
* `surface_to_pane` and `satellite_windows_by_anchor` survive a switch, and pane ids
  start again: a late `ToplevelClosed` closes an unrelated terminal, and the anchors of
  the new session take over the windows of the old ones.

Agents and bus:

* A window is attached to the anchor active when the compositor has answered, not to
  the one the grant was asked for and decided on
  (`docs/agent-terminal-control.md`: the target anchor is shown before ownership
  changes); a launch is authorised by its command line and hints, not by the exact
  window.
* A grant that was used once, denied, revoked or has expired answers for every later
  request of the kind, and since it has no row any more nothing but another
  `grant.request` lets the user decide again, after which the order of a `HashMap` says
  which of the two counts (`existing_grant_decision`); a one-shot grant is used up
  although the access it let through fails afterwards; every attempt to rename a pinned
  pane adds a request (`rename_pane`).
* Two cockpits that start or stop at once: `reclaim_stale` takes a socket without a pid
  file, or with an empty one, for stale, and removes the socket of a cockpit that is
  between `bind` and `write_pid_file`; `shutdown` and then `Drop` remove the files
  twice, the second time possibly those of a successor. `OwnSocket` holds as long as
  no two of them overlap.
* `anchor.tag`, `anchor.tag_self` and `anchor.new` are answered `ok` whatever came of
  them: `add_anchor` returns nothing and only warns when the pane belongs to another
  anchor, the handler of `anchor.new` discards the failure of `create_new_anchor`, and
  `lmux-cli` prints that it is done and exits 0 (`Unchecked` in `BusCommands`), while
  `openspec/specs/anchors/spec.md` has the tagging refused.
  Conversely an error may come after everything or a part was done: `pane.new` with a
  command whose input cannot be written has its pane, and a file written and renamed is
  reported as failed when its directory cannot be synced (`Halfway`, `Late`). `AnswersFit`
  is stated of what is left: `CommandsTell` names the exceptions.
* A pid that another program was given keeps a new cockpit without a bus; a denied peer
  is answered with the nil id, so that a client reports an id mismatch instead; a
  client that leaves does not cancel its request; clients have no timeouts.

Terminal:

* `send_input` of an agent leaves `frozen_frame`, so the view stays frozen until the
  user presses a key, pastes or clicks; rows evicted during a selection shift it and
  the active match; matches are not refreshed by output.
* The timer of a finished drag survives into a drag begun within 50 ms; a key pressed
  during a drag leaves `drag_anchor`; a paste from the menu does not ask whether the
  child has exited.
* The GTK thread writes with a blocking `write_all` and is the only one that empties
  the bounded channel: a paste into a child that prints more than the channel and the
  kernel's buffers hold before it reads blocks the cockpit for good.
* `capture_since` reports a gap when `since` is just below `dropped_before`, where
  nothing is missing, and never to a follower that starts at 0; output still in the
  channel is lost when the pane is closed.
* A timeout of the prefix is not cancelled: it disarms a prefix armed again meanwhile.
  A configuration saved between the first load and the start of the watcher is
  unnoticed until the next save, and a file that is not there at start is never watched;
  panes opened later do not get the configured font.

Wayland:

* A popup of a popup and a dialog of a dialog are never shown: `handle_host_event` looks
  their parent up among the toplevels only. A dialog goes with its parent's pane and is
  invisible from then on.
* A frame GTK cannot import is dropped, "and let[s] the compositor fall back to shm on the
  client's next commit" (`satellite.rs`): nothing tells host or client, who go on with
  dmabufs, and the satellite stays blank. (`dmabuf_imported`
  in the host accepts every buffer and says that the frame is dropped.)
* A satellite that was the last leaf when its window went keeps its pane, white and
  without a record, since its end has been handled and shortcuts do not reach it
  (`on_toplevel_closed`; `NoGhosts` excepts it). A toplevel that maps while the focused
  pane is off the tree is dropped, and its window never shown (`ShowsAll` excepts it).
* `pointer_motion` returns early for a surface the host has forgotten and leaves the
  pointer on the one before, which then gets the click made on the other's picture;
  `keyboard_focus` takes the focus away in the same case.
* The comment at `request_close` says it is used by `Ctrl+B x` on a satellite, and the
  key controller of `app.rs` passes every key of a focused satellite to its client.
* `pointer_focus` is a copy kept by `focus_changed`; a key released after the pointer
  has left its satellite is not delivered.

## 6. Proofs

`WorkspaceProofs` proves, for every `MaxPane` and every set `Surfaces`:

* `TypeCorrect`: `Spec => []TypeOK`;
* `TraversalCorrect`: `Spec => []TreeOrder`;
* `SurfacesCorrect`: `Spec => []SurfacesShown`;

and, when there is no host (`Surfaces = {}`):

* `OwnershipCorrect`: `Spec => []WellOwned`; `LayoutCorrect`: `Spec => []LayoutIsPanes`;
* `TabsCorrect`: `Spec => []TabStacks`; `PageCorrect`: `Spec => []NeverBlank`;
* `ViewCorrect`: `Spec => StableView`; `NeighboursCorrect`: `Spec => NeighboursSurvive`.

`TypeOK` and `TreeOrder` are inductive together (`TypeInv`, in three named parts): a
`CHOOSE` of the first leaf is a leaf only because the order is total on a
non-empty set, which in turn needs the leaves to be numbers below `next_id`. The
existence of first and least elements comes from the well-foundedness of strict
subset on finite sets.

`WellOwned` is not inductive alone: that a cascade ends with an owned pane needs
every pane to be a leaf (`LayoutIsPanes`), because orphans are looked for among
panes but removed only if they are leaves, and needs that no pane is a satellite.
`OwnInv` is the conjunction of `TypeInv`, `satellites = {}`, `LayoutIsPanes` and
`WellOwned`. With a host all of these fail: a satellite may be tagged, and a
toplevel that maps while the focus dangles replaces the tree.

`TabStacks` is inductive beside it (`TabInv`): that an anchor's tab has live roots
of its own workspace only needs the owners to be live anchors, and that a cascade takes
a stack with its anchor. `NeverBlank` follows, since the root of the tab on show is a
leaf of the page. The two action properties are consequences of one lemma
(`LossIsBounded`): a step that loses panes or anchors is the end of one anchor or one
pane, and what goes with it is that workspace. `SurfacesShown` stands apart, for any set
of surfaces (`SurfaceInv`): no reaping takes a satellite, and a mapped surface gets a
pane id nobody has.

The only assumption is `WorkspaceAssumption` (`MaxPane` is a positive number).

`AnchorLifecycleProofs` proves `TypeOK`, `PausedIsFrozen`, `HiddenIsRecorded` and
`HiddenStaysHidden` for every `MaxPane`. Their conjunction is inductive:
`PausedIsFrozen` needs the type invariant's clause that a fresh process belongs to no
tagged pane, and `HiddenStaysHidden` needs the active pane to be a live one.
`LifecycleAssumption`: `MaxPane` is a positive number.

`CompositorBridgeProofs` proves for all windows and bounds, batched or not, that the
windows at rest are those of the active anchor (`WindowsCorrect`), and that the bridge
implements `WindowGroups` (`BridgeCorrect`, `Spec => LatestWins`).
`WindowsFollowAnchor` speaks of the moment of rest only; the inductive invariant adds
what holds on the way: the last command issued says what the owners and the active
anchor say now (`Recorded`); no command shows and hides the same window (`Consistent`); what
is left of the command being applied is part of what it said, and for the other
windows it has done its part or they are in `failed` (`Applied`); the last command sent
is in the channel or has been taken (`Channel`). `BridgeAssumption`: the bounds are numbers.

`SessionStoreProofs` proves for all names, clock readings and numbers of sessions, with
and without faults: `StoreTypes` (`Spec => []TypeOK`), `LossCorrect`
(`Spec => NothingLost`) and `AgreesCorrect` (`Spec => []IndexAgrees`). `IndexAgrees`
speaks of the moments between two operations; the inductive invariant adds what the
operation in progress has established: which files it has written and removed already
(`JobOK`), and that the index is right but for the names the operation works on, that
an entry about to be touched or moved is the only one of its name, and that the list
about to be written is right (`IndexOK`). The clause on malformed files (`broken` is
part of `astray`) is what makes a rebuilt index right, since the rebuild skips them.
`StoreAssumption`: clock readings are numbers, `NoName` is no name.

`AgentRequestProofs` extends `Grants` and `AttachFlow`. It proves `GrantTypeOK` and
`UsedAsDecided` for all agents, anchors, requests and numbers of records. The inductive invariant (`Sound`, of each record) relates the state
the code keeps to the history: a grant still allowed is the one the user decided on, and
a one-shot grant still allowed is unused. One lemma for each way records change.
`GrantsAssumption`: renaming is among the things asked for, the bound is a number.

Of `AttachFlow` it proves `TypeOK`, `OneOwner` and `LaunchTakesNew` for all anchors, windows
and requests. `LaunchTakesNew` needs to know what a launch remembers (`Remembers`): of the
windows there were when it was asked for, those still there are on the list it took
before it spawned its process, however long the list was on its way.
`AttachAssumption`: `None` is no anchor, window or task.

`BusServerProofs` proves `OwnSocket` and `AnswersFit` for all cockpits, clients, scenes
and bounds. `OwnSocket` says nothing of cockpits that have overlapped; until then
(`SocketInv`) one cockpit at a time is on its way to serving or to its end, nobody
serves once one has found the socket stale, and who is on the way has what it has made
so far. `AnswersFit` needs to know of every command where its one request is
(`CommandInv`): not sent, on its way, with the connection's task, with the GTK thread or
the window system, answered, lost with its connection, or read; in each place it is
what the command asked for, and it is in one place only. A peer may send several
(`PeerInv`): replies read, replies on their way, the request in work and the frames
still unread stay in the order of the requests (`InOrder`). What the commands accept
covers what the handlers return (`TablesAreGood`), entry by entry of the code's tables,
but for the two commands `CommandsTell` names; and what a reply says agrees with what was
done as far as `Effects` lets it (`Tells`). `CockpitsAssumption`: no cockpit is taken
for none or for an empty file; `ClientsAssumption`: scenes are made of the programs there are.

`KeyboardProofs` proves `ViewIsLive`, `CopiesDragged`, `SearchKeepsView` and
`NextIsNearest` for all texts, heights and bounds of the scrollback, with the window's
keys in front of the pane. The invariant (`ViewInv`) keeps the viewport within the rows
kept (`ViewType`), and says of a drag that its anchor is the row pressed and the end of
the selection the row last pointed at, by their lasting names (`DragInv`), which every
eviction ends. The rest is about the operators: a clamped scroll (`Clamp`), the scan of
the scrollback that comes back (`ScanReturns`), the match that is scrolled to and seen
(`IntoViewShows`), and the least and the greatest of a finite set of rows, which exist
for the same reason as the first leaf above. `ViewAssumption`: heights are positive and
no printed text is shorter than one.

`WaylandHostProofs` proves `TypeOK`, `NoGhosts`, `ShowsAll` and `InputReachesTarget` for
all clients, sizes, surfaces and bounds of the channels. The first two properties speak
of a cockpit that has caught up; the invariant (`ShowInv`) says of every surface what
holds on the way, through what is still queued about it (`Has`):

* the queue tells of a surface that was announced, as what it was announced, and of the
  end of one that is no longer tracked (`Queued`); whoever is about to be shown and is
  gone already has its end in the queue too;
* it tells it in order (`InOrder`): announcement, frames, end; the toplevel before what
  is drawn on it; one announcement only, on the right parent; and the last event that
  places a popup places it where the client wants it;
* a pane, a record or an overlay is of a surface that is tracked or whose end is queued,
  or the pane is one that was kept (`OnRecord`); an announced surface is shown, was
  refused, or its announcement is queued (`Shown`); and so with its place and its pixels,
  unless GTK did not import them (`Drawn`).

A clause that is easily missed: while the toplevel of a parent is queued, so are the
overlays of its children, or an overlay could be handled before there is a satellite to
draw it on and be dropped for good. A step of the host is shown once to
keep all this (`HostStep`: what it does to a surface it says in what it queues), each
handler of the GTK thread on its own. For the input (`SeatOK`): at each press that is
queued, and at the end of the queue for a picture that is entered, the last focus change
before is the one to that picture, or there is none and the seat is there already or on
nothing (`Told`); or the surface is one the host has forgotten (`Forgot`), and then it
stays forgotten and the press is one `InputReachesTarget` excepts. `HostAssumption`: sizes and bounds are numbers, the least size to
configure is positive. That each client names as parents surfaces it has mapped before
is a guard of `NewToplevel` and `NewPopup`, and the proof uses it.

Model-checked only:

* everything about `SessionSwitch`: its tree is recursive, and so is what is said of it;
* `ChunksDoNotMatter` and `GapsAreTold` of `PtyIO`: they say what folds over the bytes
  compute, which takes induction over the bytes;
* the liveness properties `ExitedPaneGoes`, `ClosedProcessEnds`, `Settles`, `Answered`,
  `FinalSize`, `WriteEnds`, `ExitIsNoticed`, `ConfigApplied` and `AllAnswered`: liveness
  is out of the prover's reach.

The type invariants and `TreeOrder` are proved and no run repeats them.

## 7. Not modelled

Rendering, the emulator itself, key encodings, desktop entries, the macOS
accessibility interface, argument syntax and the wire format: I/O or translation
without state that a property is about.

* Compositor backends and launcher: calls to KWin, `xdotool`, the macOS helper and
  `fork`; what they answer, that they fail and that they say nothing are steps of the
  environment in `CompositorBridge`, `AttachFlow` and `BusServer`.
* Notifications: one D-Bus call per bell, in turn; the state is the desktop's.
* The sidebar's order of rows, labels, titles and groups: data that nothing but the
  view reads.
* `next_id` saturates after 2^32 panes of one session, after which a new pane would
  replace the last one; the models stop handing out ids at their bound.
* Scrolling with the pointer over a satellite, cursors, outputs and buffer formats of
  the Wayland host.
