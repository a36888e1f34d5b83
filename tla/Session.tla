------------------------------ MODULE Session -------------------------------
(***************************************************************************)
(* src/gedit_lsp/plugin.py: the plugins of several gedit windows over one  *)
(* language server, which the process-wide ServerRegistry hands to every   *)
(* document of one (language, root) pair.                                  *)
(*                                                                         *)
(* The server is the module LanguageServer, whole: an operation of the     *)
(* plugin is an action of it together with what the plugin does.  Of its   *)
(* API the plugin calls attach_buffer and reset_circuit_breaker, and never *)
(* detach_buffer or kill_now.                                              *)
(*                                                                         *)
(* A document is a buffer with its tab; several may show one file, and     *)
(* then have one URI.  A pair <<w, d>> stands for what the plugin of       *)
(* window w keeps for the document d.  gedit activates the plugin of a     *)
(* window before the window has documents.                                 *)
(***************************************************************************)
EXTENDS Naturals

CONSTANTS
    Windows,             \* gedit windows
    Uris,                \* files of one (language, root) pair
    Docs,                \* documents that show them
    UriOf,               \* the file of a document
    NoWindow,            \* the document is not open
    Movable,             \* documents whose tab the user may move
    MaxRestartAttempts, MaxSpawns, Timers, NoTimer, Faults  \* LanguageServer

ASSUME NoWindowAssumption == NoWindow \notin Windows
ASSUME MovableAssumption == Movable \subseteq Docs
ASSUME UriAssumption == UriOf \in [Docs -> Uris]

VARIABLES
    \* the language server
    state, attached, failedStarts, transport, caps, idleSource, armed, proc,
    reply, initialized, shutdown, attempts, failures,
    active,      \* windows whose plugin is activated
    tab,         \* window that shows the document
    hooked,      \* pairs whose loaded, saved, notify::language are connected
    bridges,     \* keys of _bridges and _servers, over all windows
    listeners,   \* pairs with a state listener on the server
    bars,        \* documents whose tab shows a crash info bar
    restarting,  \* the document whose on_restart is between its two calls
    told,        \* files that are open for the present subprocess
    announced,   \* history: pairs whose didOpen that subprocess has read
    parted       \* history: files of which a bridge was dropped while another
                 \* was kept, and is still

Server == INSTANCE LanguageServer

ASSUME ServerAssumption ==
    /\ MaxRestartAttempts \in Nat \ {0}
    /\ MaxSpawns \in Nat \ {0}
    /\ NoTimer \notin Timers
    /\ Faults \subseteq Server!FaultKinds

serverVars == <<state, attached, failedStarts, transport, caps, idleSource,
                armed, proc, reply, initialized, shutdown, attempts, failures>>
tabVars == <<active, tab, hooked>>
pairVars == <<bridges, listeners, parted>>
wireVars == <<told, announced>>

vars == <<serverVars, tabVars, pairVars, bars, restarting, wireVars>>

Pairs == Windows \X Docs

\* The listeners of closed documents are gone from the server all windows
\* share, and what the server was told belongs to a bridge.
TypeOK ==
    /\ Server!TypeOK
    /\ active \in SUBSET Windows
    /\ tab \in [Docs -> Windows \cup {NoWindow}]
    /\ hooked \in SUBSET Pairs
    /\ bridges \in SUBSET Pairs
    /\ listeners \in SUBSET bridges
    /\ bars \in SUBSET Docs
    /\ restarting \in SUBSET Docs
    /\ told \in SUBSET Uris
    /\ announced \in SUBSET bridges
    /\ parted \in SUBSET Uris
    /\ \A b \in hooked : b[1] \in active

Init ==
    /\ Server!Init
    /\ active = {}
    /\ tab = [d \in Docs |-> NoWindow]
    /\ hooked = {}
    /\ bridges = {}
    /\ listeners = {}
    /\ bars = {}
    /\ restarting = {}
    /\ told = {}
    /\ announced = {}
    /\ parted = {}

Free == restarting = {}

\* The files that the bridges of B speak for.
Files(B) == {UriOf[b[2]] : b \in B}

----------------------------------------------------------------------------
(***************************************************************************)
(* The state setter of the server calls every listener.  _on_server_state  *)
(* of a pair, if the circuit has just opened, has an info bar shown in the *)
(* tab that get_tab_from_location finds for the file in the window of the  *)
(* pair, the same one for every pair of the window and file.               *)
(***************************************************************************)
Found == {d \in Docs : \E b \in listeners : tab[d] = b[1] /\ UriOf[d] = UriOf[b[2]]}

ShowBars ==
    \/ /\ state # "CIRCUIT_OPEN" /\ state' = "CIRCUIT_OPEN"
       /\ \E shown \in SUBSET Found :
             /\ \A d \in Found :
                   \E e \in shown : tab[e] = tab[d] /\ UriOf[e] = UriOf[d]
             /\ \A d, e \in shown : tab[e] = tab[d] /\ UriOf[e] = UriOf[d] => e = d
             /\ bars' = bars \cup shown
    \/ /\ state = "CIRCUIT_OPEN" \/ state' # "CIRCUIT_OPEN"
       /\ UNCHANGED bars

\* A new subprocess knows no document, and nobody tells it of the open ones.
Remembered(set) == IF transport' = transport THEN set ELSE {}

(***************************************************************************)
(* _attach_document, run by loaded, saved or notify::language for a        *)
(* document that the plugin supports.  It does nothing for one that has a  *)
(* bridge.  attach_buffer comes first, so that the listener of this pair   *)
(* does not hear the states it leads to; didOpen goes to whatever          *)
(* transport there is, before `initialize` is answered as well as to a     *)
(* process that is gone.                                                   *)
(***************************************************************************)
AttachDocument(w, d) ==
    /\ Free
    /\ <<w, d>> \in hooked
    /\ tab[d] # NoWindow
    /\ <<w, d>> \notin bridges
    /\ Server!AttachBuffer(UriOf[d])
    /\ ShowBars
    /\ bridges' = bridges \cup {<<w, d>>}
    /\ listeners' = listeners \cup {<<w, d>>}
    /\ IF proc'[transport'] = "running"
       THEN /\ told' = Remembered(told) \cup {UriOf[d]}
            /\ announced' = Remembered(announced) \cup {<<w, d>>}
       ELSE UNCHANGED wireVars
    /\ UNCHANGED <<tabVars, parted, restarting>>

\* The bridges of B go.
Drop(B) ==
    /\ bridges' = bridges \ B
    /\ announced' = announced \ B
    /\ parted' = (parted \cup Files(bridges \cap B)) \cap Files(bridges \ B)

\* They are detached, which tells the server didClose whoever else has the file
\* open, and their listeners are disposed of.
DropBridges(B) ==
    /\ Drop(B)
    /\ listeners' = listeners \ B
    /\ told' = told \ Files(bridges \cap B)

----------------------------------------------------------------------------
(***************************************************************************)
(* do_activate and do_deactivate.  The latter leaves the info bars.        *)
(***************************************************************************)
Activate(w) ==
    /\ Free
    /\ w \notin active
    /\ \A d \in Docs : tab[d] # w
    /\ active' = active \cup {w}
    /\ UNCHANGED <<serverVars, tab, hooked, pairVars, bars, restarting, wireVars>>

\* Slips: the bridges are forgotten and not detached; the documents of every
\* window are closed.
DeactivateSilently(w) ==
    /\ Free
    /\ w \in active
    /\ active' = active \ {w}
    /\ hooked' = hooked \ ({w} \X Docs)
    /\ Drop({w} \X Docs)
    /\ listeners' = listeners \ ({w} \X Docs)
    /\ UNCHANGED <<serverVars, tab, bars, restarting, told>>

DeactivateClosesAll(w) ==
    /\ Free
    /\ w \in active
    /\ active' = active \ {w}
    /\ hooked' = hooked \ ({w} \X Docs)
    /\ Drop({w} \X Docs)
    /\ listeners' = listeners \ ({w} \X Docs)
    /\ told' = {}
    /\ UNCHANGED <<serverVars, tab, bars, restarting>>

Deactivate(w) ==
    /\ Free
    /\ w \in active
    /\ active' = active \ {w}
    /\ hooked' = hooked \ ({w} \X Docs)
    /\ DropBridges({w} \X Docs)
    /\ UNCHANGED <<serverVars, tab, bars, restarting>>

----------------------------------------------------------------------------
(***************************************************************************)
(* Tabs.  _on_tab_added connects the signals that attach the document;     *)
(* _on_tab_removed leaves them connected.                                  *)
(***************************************************************************)
TabAdded(w, d) == hooked' = IF w \in active THEN hooked \cup {<<w, d>>} ELSE hooked

\* Slips: the listener of the document is left; every listener is disposed of.
TabRemovedKeepsListeners(w, d) ==
    /\ Drop({<<w, d>>})
    /\ told' = told \ Files(bridges \cap {<<w, d>>})
    /\ UNCHANGED listeners

TabRemovedDisposesAll(w, d) ==
    /\ Drop({<<w, d>>})
    /\ told' = told \ Files(bridges \cap {<<w, d>>})
    /\ listeners' = {}

TabRemoved(w, d) == DropBridges({<<w, d>>})

\* gedit shows a file once in a window, but may show it in several windows.
OpenTab(w, d) ==
    /\ Free
    /\ tab[d] = NoWindow
    /\ \A e \in Docs : tab[e] = w => UriOf[e] # UriOf[d]
    /\ tab' = [tab EXCEPT ![d] = w]
    /\ TabAdded(w, d)
    /\ UNCHANGED <<serverVars, active, pairVars, bars, restarting, wireVars>>

\* The document and its info bar go with the tab.
CloseTab(w, d) ==
    /\ Free
    /\ tab[d] = w
    /\ tab' = [tab EXCEPT ![d] = NoWindow]
    /\ TabRemoved(w, d)
    /\ hooked' = hooked \ (Windows \X {d})
    /\ bars' = bars \ {d}
    /\ UNCHANGED <<serverVars, active, restarting>>

\* The tab moves to another window with its document and its info bar.  The
\* signals the old window connected still reach the old window's plugin.  (Its
\* CrashNotifier still takes the tab for one with a bar, which matters only if
\* the tab comes back after the bar was replaced and dismissed elsewhere.)
MoveTab(w, v, d) ==
    /\ Free
    /\ d \in Movable
    /\ tab[d] = w
    /\ v # w
    /\ tab' = [tab EXCEPT ![d] = v]
    /\ TabRemoved(w, d)
    /\ TabAdded(v, d)
    /\ UNCHANGED <<serverVars, active, bars, restarting>>

----------------------------------------------------------------------------
(***************************************************************************)
(* The buttons of the info bar.  Restart resets the breaker and attaches   *)
(* the document's buffer again, in two steps of one callback; the document *)
(* is not told to the new subprocess.  The other buttons do nothing to the *)
(* server.                                                                 *)
(***************************************************************************)
RestartClicked(d) ==
    /\ Free
    /\ d \in bars
    /\ transport < MaxSpawns
    /\ bars' = bars \ {d}
    /\ Server!ResetCircuitBreaker
    /\ restarting' = {d}
    /\ UNCHANGED <<tabVars, pairVars, wireVars>>

RestartAttaches(d) ==
    /\ d \in restarting
    /\ restarting' = {}
    /\ Server!AttachBuffer(UriOf[d])
    /\ ShowBars
    /\ told' = Remembered(told)
    /\ announced' = Remembered(announced)
    /\ UNCHANGED <<tabVars, pairVars>>

BarDismissed(d) ==
    /\ Free
    /\ d \in bars
    /\ bars' = bars \ {d}
    /\ UNCHANGED <<serverVars, tabVars, pairVars, restarting, wireVars>>

\* What comes from the subprocesses goes to the server alone; none of it opens
\* the circuit.
ServerEvent(p) ==
    /\ Free
    /\ \/ Server!InitializeSucceeds(p)
       \/ Server!InitializeFails(p)
       \/ Server!ProcessExits(p)
       \/ Server!SubprocessExit(p)
    /\ UNCHANGED <<tabVars, pairVars, bars, restarting, wireVars>>

Next ==
    \/ \E w \in Windows : Activate(w) \/ Deactivate(w)
    \/ \E w \in Windows, d \in Docs :
          \/ OpenTab(w, d)
          \/ CloseTab(w, d)
          \/ AttachDocument(w, d)
          \/ \E v \in Windows : MoveTab(w, v, d)
    \/ \E d \in Docs : RestartClicked(d) \/ BarDismissed(d) \/ RestartAttaches(d)
    \/ \E p \in Server!Procs : ServerEvent(p)

Spec == Init /\ [][Next]_vars

----------------------------------------------------------------------------
\* A file that no window keeps a bridge for is not open for the present
\* subprocess, through moves, deactivations and respawns.
ClosedIsForgotten == told \subseteq Files(bridges)

\* A subprocess that has read the didOpen of a bridge holds the file open for as
\* long as the bridge sends it changes, whatever becomes of other files, other
\* windows and earlier subprocesses.  Excepted is a file that two windows showed
\* or a moved tab took along: the first of its bridges that is dropped closes it
\* for all, until the last is.
KnownToItsServer ==
    \A b \in announced : UriOf[b[2]] \notin parted => UriOf[b[2]] \in told

\* When the circuit opens, every window in which a document was attached before
\* shows an info bar for its file, whichever window the attach failed in.  The
\* document whose attach it was gets none.
TripReachesAttached ==
    [][state # "CIRCUIT_OPEN" /\ state' = "CIRCUIT_OPEN" =>
          \A b \in bridges : tab[b[2]] = b[1] =>
              \E d \in bars' : tab[d] = b[1] /\ UriOf[d] = UriOf[b[2]]]_vars

\* "When the last buffer for a (language, root) pair detaches, the server moves
\* to IDLE", says the design.
DocIdleWithoutBuffers ==
    [][state = "READY" /\ bridges # {} /\ bridges' = {} => state' = "IDLE"]_vars
=============================================================================
