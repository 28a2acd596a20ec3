------------------------------- MODULE Grants -------------------------------
(***************************************************************************)
(* The grants that agents need outside their own workspace (agent_control.rs *)
(* and the popover of sidebar.rs, grants.rs): requests are registered, the    *)
(* user decides them with the popover's buttons, and an access looks for a    *)
(* record that matches.  An anchor stands for its whole workspace, and what   *)
(* is asked for is a scope of pane access, the exact window to attach, or a  *)
(* launch.                                                                 *)
(***************************************************************************)
EXTENDS Naturals, Sequences

CONSTANTS
    Agent,
    Workspaces,     \* the anchors, each for its workspace
    What,           \* what can be asked for
    Rename,         \* one of these, the scope of renaming a pane
    MaxGrant        \* bound on the records

ASSUME GrantsAssumption == Rename \in What /\ MaxGrant \in Nat

VARIABLES
    grants,         \* the records, in the order of their registration
    homes,          \* <<agent, anchor>>: the agent has a pane there
    rows            \* the popover open: <<record, how it is shown>>

grantVars == <<grants, homes, rows>>

\* verdict and uses are history: what the user says of the request, and how
\* often it was used since then (counted to 2)
Request(a, w, p) ==
    [agent |-> a, what |-> w, anchor |-> p, state |-> "pending", verdict |-> "none", uses |-> 0]

GrantsInit == grants = <<>> /\ homes = {} /\ rows = {}

-----------------------------------------------------------------------------
(* authorize_pane_access, as the set of its outcomes: answer and records    *)

Homes(a) == {p \in Workspaces : <<a, p>> \in homes}

\* the agent's pane found first is in the workspace: no grant is looked for (nor is
\* one for a request without an agent's identity)
Own(a, p) == p \in Homes(a)

\* the pane found first is in another workspace, or there is none
Foreign(a, p) == Homes(a) # {p}

Matching(a, w, p) ==
    {i \in DOMAIN grants : /\ grants[i].agent = a /\ grants[i].what = w
                           /\ grants[i].anchor = p /\ grants[i].state # "gone"}

\* Mutation of Used: a one-shot grant stays allowed
UsedForGood(i) == [grants EXCEPT ![i].uses = IF @ < 2 THEN @ + 1 ELSE 2]

\* an access that the record allows; a one-shot grant is revoked
Used(i) ==
    [grants EXCEPT ![i].uses = IF @ < 2 THEN @ + 1 ELSE 2,
                   ![i].state = IF @ = "once" THEN "revoked" ELSE @]

Live(i) == grants[i].state \in {"once", "timed"}

\* any record that matches may be the one that is found
ExistingGrantDecision(a, w, p) ==
    {[ok |-> Live(i), grants |-> IF Live(i) THEN Used(i) ELSE grants] : i \in Matching(a, w, p)}

AuthorizePaneAccess(a, w, p) ==
    (IF Own(a, p) THEN {[ok |-> TRUE, grants |-> grants]} ELSE {})
    \cup
    (IF ~Foreign(a, p) THEN {}
     ELSE IF Matching(a, w, p) # {} THEN ExistingGrantDecision(a, w, p)
     ELSE {[ok |-> FALSE, grants |-> Append(grants, Request(a, w, p))]})

Registered(g) == Len(g) <= MaxGrant /\ grants' = g

-----------------------------------------------------------------------------
(* Agents *)

\* create_pane_from_bus: needs no grant, whatever workspace it is in
CreatePane(a, p) ==
    /\ homes' = homes \cup {<<a, p>>}
    /\ UNCHANGED <<grants, rows>>

\* the agent's last pane in a workspace is closed
ClosePane(a, p) ==
    /\ homes' = homes \ {<<a, p>>}
    /\ UNCHANGED <<grants, rows>>

\* pane_transcript_tail and _capture, send_input_to_pane, rename_pane; and
\* authorize_active_anchor_window_attach and _launch_attach, for the anchor active
Access(a, w, p) ==
    /\ \E o \in AuthorizePaneAccess(a, w, p) : Registered(o.grants)
    /\ UNCHANGED <<homes, rows>>

\* rename_pane of a pinned title: authorised, and then asked for all the same
RenamePinned(a, p) ==
    /\ \E o \in AuthorizePaneAccess(a, Rename, p) :
          o.ok /\ Registered(Append(o.grants, Request(a, Rename, p)))
    /\ UNCHANGED <<homes, rows>>

\* grant.request: always a record of its own
RegisterGrantRequest(a, w, p) ==
    /\ Registered(Append(grants, Request(a, w, p)))
    /\ UNCHANGED <<homes, rows>>

-----------------------------------------------------------------------------
(* The user *)

\* grant_views_for_anchor, when the popover of the workspace opens
GrantViews(p) ==
    {<<i, IF Live(i) THEN "active" ELSE "pending">> :
        i \in {j \in DOMAIN grants : grants[j].anchor = p
                                     /\ grants[j].state \in {"pending", "once", "timed"}}}

OpenPopover(p) ==
    /\ rows' = GrantViews(p)
    /\ UNCHANGED <<grants, homes>>

\* the buttons of grant_row
Buttons(shown) == IF shown = "active" THEN {"revoked"} ELSE {"once", "timed", "denied"}

Decided(i, d) == [grants EXCEPT ![i].state = d, ![i].verdict = d, ![i].uses = 0]

\* a click on a row, however old; the record may have been forgotten
DecideGrant(i, shown, d) ==
    /\ <<i, shown>> \in rows
    /\ d \in Buttons(shown)
    /\ grants[i].state # "gone"
    /\ grants' = Decided(i, d)
    /\ UNCHANGED <<homes, rows>>

\* AllowUntil, ten minutes later
Expire(i) ==
    /\ grants[i].state = "timed"
    /\ grants' = Decided(i, "expired")
    /\ UNCHANGED <<homes, rows>>

\* switch_session: no grant and no agent's pane is carried over
ClearGrants ==
    /\ grants' = [i \in DOMAIN grants |-> [grants[i] EXCEPT !.state = "gone"]]
    /\ homes' = {}
    /\ UNCHANGED rows

GrantsNext ==
    \/ \E a \in Agent, p \in Workspaces : CreatePane(a, p) \/ ClosePane(a, p) \/ RenamePinned(a, p)
    \/ \E a \in Agent, w \in What, p \in Workspaces :
          Access(a, w, p) \/ RegisterGrantRequest(a, w, p)
    \/ \E p \in Workspaces : OpenPopover(p)
    \/ \E r \in rows : \E d \in Buttons(r[2]) : DecideGrant(r[1], r[2], d)
    \/ \E i \in DOMAIN grants : Expire(i)
    \/ ClearGrants

GrantsSpec == GrantsInit /\ [][GrantsNext]_grantVars

-----------------------------------------------------------------------------
(* Properties *)

\* The types, and: a row of the popover is of a record
GrantTypeOK ==
    /\ grants \in Seq([agent : Agent, what : What, anchor : Workspaces,
                       state : {"pending", "once", "timed", "denied", "revoked", "expired", "gone"},
                       verdict : {"none", "once", "timed", "denied", "revoked", "expired"},
                       uses : 0..2])
    /\ homes \subseteq Agent \X Workspaces
    /\ rows \subseteq (DOMAIN grants) \X {"pending", "active"}

\* What the user said last of a request is what its record was used for since:
\* once at most for a one-shot grant, and never without a grant, after a refusal,
\* a revocation or the ten minutes.  Records are found in any order, clicked in
\* popovers however old, and asked for twice (existing_grant_decision, decide_grant)
UsedAsDecided ==
    \A i \in DOMAIN grants :
        \/ grants[i].uses = 0
        \/ grants[i].verdict = "timed"
        \/ grants[i].verdict = "once" /\ grants[i].uses = 1
=============================================================================
