----------------------------- MODULE MouseHover -----------------------------
(***************************************************************************)
(* src/gedit_lsp/features/mouse_hover.py: the popover over the word at     *)
(* which the mouse pointer rests.                                          *)
(*                                                                         *)
(* A callback is <<token, question>>, as in WorkspaceSymbol.  The `closed` *)
(* signal of a popover may come at any time after its popdown().           *)
(***************************************************************************)
EXTENDS Requests

VARIABLES
    token,      \* _request_token
    timer,      \* token that the armed dwell timer has captured, or 0
    grace,      \* the grace timer is armed
    opened,     \* number of popovers opened
    popover,    \* _popover: the number of the popover, or 0
    onScreen,   \* popovers that have not closed, replaced ones too
    closing,    \* those whose popdown() was called
    anchored,   \* _anchor_range is set
    inPopover,  \* _pointer_in_popover
    disposed    \* _disposed

timerVars == <<token, timer, grace>>
popoverVars == <<opened, popover, onScreen, closing, anchored, inPopover>>
vars == <<requestVars, timerVars, popoverVars, disposed>>

Init ==
    /\ InitRequests
    /\ token = 0
    /\ timer = 0
    /\ grace = FALSE
    /\ opened = 0
    /\ popover = 0
    /\ onScreen = {}
    /\ closing = {}
    /\ anchored = FALSE
    /\ inPopover = FALSE
    /\ disposed = FALSE

\* The pointer, or something else, makes the earlier questions worthless.
NewToken ==
    /\ Ask
    /\ token' = token + 1
    /\ UNCHANGED <<waiting, used>>

\* A popover off which the pointer has moved has a deadline, which more motion
\* does not put off.
ArmedGrace == grace \/ (popover # 0 /\ ~ inPopover)

\* A motion with a button held: a drag.
Drag ==
    /\ ~ disposed
    /\ timer' = 0
    /\ UNCHANGED <<requestVars, token, grace, popoverVars, disposed>>

MoveOverBlank ==
    /\ ~ disposed
    /\ NewToken
    /\ timer' = 0
    /\ grace' = ArmedGrace
    /\ UNCHANGED <<popoverVars, disposed>>

MoveOverAnchor ==
    /\ ~ disposed
    /\ popover # 0
    /\ anchored
    /\ NewToken
    /\ timer' = 0
    /\ grace' = FALSE
    /\ UNCHANGED <<popoverVars, disposed>>

MoveOverText ==
    /\ ~ disposed
    /\ NewToken
    /\ timer' = token'
    /\ grace' = (grace \/ (anchored /\ ArmedGrace))
    /\ UNCHANGED <<popoverVars, disposed>>

\* _on_dwell; the text under the pointer may be gone.
Dwell(overText) ==
    /\ timer # 0
    /\ timer' = 0
    /\ IF timer = token /\ overText
       THEN SendRequest(<<timer, asked>>)
       ELSE UNCHANGED waiting
    /\ UNCHANGED <<asked, used, token, grace, popoverVars, disposed>>

PopDown == closing' = IF popover = 0 THEN closing ELSE closing \cup {popover}

\* An answer with something to show replaces the popover.
OnResponse(callback, shows) ==
    /\ Answered(callback)
    /\ IF callback[1] = token THEN Use(callback[2]) ELSE Ignore
    /\ IF callback[1] = token /\ shows
       THEN /\ PopDown
            /\ grace' = FALSE
            /\ anchored' = TRUE
            /\ opened' = opened + 1
            /\ popover' = opened'
            /\ onScreen' = onScreen \cup {opened'}
       ELSE UNCHANGED <<grace, anchored, opened, popover, onScreen, closing>>
    /\ UNCHANGED <<token, timer, inPopover, disposed>>

\* Slip: _dismiss_state leaves the token, so that an answer on its way reopens
\* what the user has dismissed.
DismissStateKeepsToken ==
    /\ Ask
    /\ timer' = 0
    /\ grace' = FALSE
    /\ PopDown
    /\ popover' = 0
    /\ anchored' = FALSE
    /\ inPopover' = FALSE
    /\ UNCHANGED <<waiting, used, token, opened, onScreen>>

DismissState ==
    /\ NewToken
    /\ timer' = 0
    /\ grace' = FALSE
    /\ PopDown
    /\ popover' = 0
    /\ anchored' = FALSE
    /\ inPopover' = FALSE
    /\ UNCHANGED <<opened, onScreen>>

\* The focus goes, or a key or a button is pressed.
Dismissed ==
    /\ ~ disposed
    /\ DismissState
    /\ UNCHANGED disposed

ViewLeave ==
    /\ ~ disposed
    /\ popover # 0
    /\ ~ inPopover
    /\ grace' = TRUE
    /\ UNCHANGED <<requestVars, token, timer, popoverVars, disposed>>

GraceExpired ==
    /\ grace
    /\ IF inPopover
       THEN /\ grace' = FALSE
            /\ UNCHANGED <<requestVars, token, timer, popoverVars>>
       ELSE DismissState
    /\ UNCHANGED disposed

\* A popover tells when the pointer enters and leaves it, and so does one that
\* has been replaced or dismissed while it is still on the screen.
EnterPopover ==
    /\ onScreen # {}
    /\ inPopover' = TRUE
    /\ grace' = FALSE
    /\ UNCHANGED <<requestVars, token, timer, opened, popover, onScreen, closing,
                   anchored, disposed>>

LeavePopover ==
    /\ onScreen # {}
    /\ inPopover' = FALSE
    /\ grace' = TRUE
    /\ UNCHANGED <<requestVars, token, timer, opened, popover, onScreen, closing,
                   anchored, disposed>>

\* `closed` forgets the popover of the controller, whichever has closed.
Closed(p) ==
    /\ p \in closing
    /\ closing' = closing \ {p}
    /\ onScreen' = onScreen \ {p}
    /\ popover' = 0
    /\ UNCHANGED <<requestVars, timerVars, opened, anchored, inPopover, disposed>>

Dispose ==
    /\ ~ disposed
    /\ DismissState
    /\ disposed' = TRUE

Next ==
    \/ Drag
    \/ MoveOverBlank
    \/ MoveOverAnchor
    \/ MoveOverText
    \/ \E overText \in BOOLEAN : Dwell(overText)
    \/ \E callback \in waiting, shows \in BOOLEAN : OnResponse(callback, shows)
    \/ Dismissed
    \/ ViewLeave
    \/ GraceExpired
    \/ EnterPopover
    \/ LeavePopover
    \/ \E p \in closing : Closed(p)
    \/ Dispose
=============================================================================
