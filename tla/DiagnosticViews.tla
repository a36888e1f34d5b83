-------------------------- MODULE DiagnosticViews --------------------------
(***************************************************************************)
(* Who shows the diagnostics a server publishes for a document: the tags   *)
(* in its buffer, the rows of a window's panel, the light bulbs of its     *)
(* gutter, and the store the code actions take their context from.  Each   *)
(* listens to the server by itself (server.py, add_diagnostics_listener).  *)
(* The plugins of several windows share one server; a pair <<w, d>> is     *)
(* what the plugin of window w keeps for the document d (plugin.py).       *)
(*                                                                         *)
(* A list of diagnostics is the number of its publishDiagnostics, and 0 is *)
(* the empty list.  DiagnosticTags has what tags a list gives.             *)
(***************************************************************************)
EXTENDS Naturals

CONSTANTS
    Windows,     \* gedit windows, whose plugins are active from the start
    Documents,
    NoWindow,    \* the document is not open; not a window
    MaxNews      \* bound on the lists of diagnostics

VARIABLES
    active,    \* windows whose plugin is active
    tab,       \* the window that shows the document
    hooked,    \* pairs whose loaded and saved signals are connected
    bridges,   \* pairs with a bridge and its diagnostics listeners
    gutters,   \* pairs with a light bulb gutter
    tagged,    \* of each buffer: the list its tags are of
    rows,      \* of each pair: the list in the panel of the window
    lit,       \* of each pair: the list whose lines have a light bulb
    context,   \* of each pair: _latest_diagnostics of the bridge
    news,      \* of each document: the newest list
    published, \* the lists so far
    deaf       \* a listener has raised, which ended the read loop

vars == <<active, tab, hooked, bridges, gutters, tagged, rows, lit, context,
          news, published, deaf>>

Pairs == Windows \X Documents

Init ==
    /\ active = Windows
    /\ tab = [d \in Documents |-> NoWindow]
    /\ hooked = {} /\ bridges = {} /\ gutters = {}
    /\ tagged = [d \in Documents |-> 0]
    /\ rows = [p \in Pairs |-> 0]
    /\ lit = [p \in Pairs |-> 0]
    /\ context = [p \in Pairs |-> 0]
    /\ news = [d \in Documents |-> 0]
    /\ published = 0
    /\ deaf = FALSE

\* _on_tab_added.
Hook(w, d) == hooked' = hooked \cup ({w} \cap active) \X {d}

\* The file is opened, in a new buffer.  After a move another window may still
\* have a bridge for the buffer of before; a pair does not stand for two
\* buffers, so that such a file is not opened again here.
OpenTab(w, d) ==
    /\ tab[d] = NoWindow
    /\ \A v \in Windows : <<v, d>> \notin bridges
    /\ tab' = [tab EXCEPT ![d] = w]
    /\ Hook(w, d)
    /\ tagged' = [tagged EXCEPT ![d] = 0]
    /\ UNCHANGED <<active, bridges, gutters, rows, lit, context, news,
                   published, deaf>>

\* _attach_lightbulb_gutter, in the window that shows the document.
AttachGutters(attaching) ==
    gutters' = gutters \cup {p \in attaching : p[1] = tab[p[2]]}

\* The document is loaded or saved: _attach_document of each window that is
\* connected to it.
LoadedOrSaved(d) ==
    LET attaching == {p \in hooked \ bridges : p[2] = d} IN
    /\ tab[d] # NoWindow
    /\ attaching # {}
    /\ bridges' = bridges \cup attaching
    /\ AttachGutters(attaching)
    /\ UNCHANGED <<active, tab, hooked, tagged, rows, lit, context, news,
                   published, deaf>>

\* _on_tab_removed.  A slip: the bridge and its listeners are left alone.
TabRemovedKeepsBridge(w, d) ==
    /\ gutters' = gutters \ {<<w, d>>}
    /\ lit' = [lit EXCEPT ![<<w, d>>] = 0]
    /\ rows' = IF <<w, d>> \in bridges THEN [rows EXCEPT ![<<w, d>>] = 0] ELSE rows
    /\ UNCHANGED <<bridges, context>>

TabRemoved(w, d) ==
    /\ gutters' = gutters \ {<<w, d>>}
    /\ lit' = [lit EXCEPT ![<<w, d>>] = 0]
    /\ rows' = IF <<w, d>> \in bridges THEN [rows EXCEPT ![<<w, d>>] = 0] ELSE rows
    /\ bridges' = bridges \ {<<w, d>>}
    /\ context' = [context EXCEPT ![<<w, d>>] = 0]

CloseTab(d) ==
    /\ tab[d] # NoWindow
    /\ tab' = [tab EXCEPT ![d] = NoWindow]
    /\ hooked' = {p \in hooked : p[2] # d}
    /\ IF tab[d] \in active THEN TabRemoved(tab[d], d)
       ELSE UNCHANGED <<bridges, gutters, rows, lit, context>>
    /\ UNCHANGED <<active, tagged, news, published, deaf>>

\* The tab is dragged to another window.  The tags stay on the buffer, and the
\* signals connected by the first window stay connected.
MoveTab(d, w) ==
    /\ tab[d] \notin {NoWindow, w}
    /\ tab' = [tab EXCEPT ![d] = w]
    /\ Hook(w, d)
    /\ IF tab[d] \in active THEN TabRemoved(tab[d], d)
       ELSE UNCHANGED <<bridges, gutters, rows, lit, context>>
    /\ UNCHANGED <<active, tagged, news, published, deaf>>

\* do_deactivate: the listeners go, the tags and the rows stay where they are.
Deactivate(w) ==
    /\ w \in active
    /\ active' = active \ {w}
    /\ hooked' = {p \in hooked : p[1] # w}
    /\ bridges' = {p \in bridges : p[1] # w}
    /\ gutters' = {p \in gutters : p[1] # w}
    /\ lit' = [p \in Pairs |-> IF p[1] = w THEN 0 ELSE lit[p]]
    /\ context' = [p \in Pairs |-> IF p[1] = w THEN 0 ELSE context[p]]
    /\ UNCHANGED <<tab, tagged, rows, news, published, deaf>>

Listening(d) == {p \in bridges : p[2] = d}

\* The three listeners: DocumentBridge, LightbulbGutter, and _on_diag, which has
\* the tags and the rows.
Store(d, list) ==
    context' = [p \in Pairs |-> IF p \in Listening(d) THEN list ELSE context[p]]

Light(d, list) ==
    lit' = [p \in Pairs |-> IF p \in gutters /\ p[2] = d THEN list ELSE lit[p]]

\* A slip: the URI is not compared.
ShowAnyUri(d, list) ==
    /\ tagged' = [e \in Documents |->
                    IF Listening(e) = {} THEN tagged[e] ELSE list]
    /\ rows' = [p \in Pairs |-> IF p \in bridges THEN list ELSE rows[p]]

Show(d, list) ==
    /\ tagged' = [tagged EXCEPT ![d] = IF Listening(d) = {} THEN @ ELSE list]
    /\ rows' = [p \in Pairs |-> IF p \in Listening(d) THEN list ELSE rows[p]]

Publish(d) ==
    /\ ~deaf
    /\ published < MaxNews
    /\ published' = published + 1
    /\ news' = [news EXCEPT ![d] = published + 1]
    /\ Store(d, published + 1)
    /\ Show(d, published + 1)
    /\ Light(d, published + 1)
    /\ UNCHANGED <<active, tab, hooked, bridges, gutters, deaf>>

\* A list with a diagnostic that has no range: the context takes it, the tags
\* are cleared and set up to that diagnostic, then the exception leaves the
\* loop over the listeners, and the read callback that called it.
PublishMalformed(d) ==
    /\ ~deaf
    /\ published < MaxNews
    /\ published' = published + 1
    /\ news' = [news EXCEPT ![d] = published + 1]
    /\ deaf' = TRUE
    /\ \E first \in Listening(d), left \in {0, published + 1} :
          /\ context' = [context EXCEPT ![first] = published + 1]
          /\ tagged' = [tagged EXCEPT ![d] = left]
    /\ UNCHANGED <<active, tab, hooked, bridges, gutters, rows, lit>>

Next ==
    \/ \E d \in Documents :
         CloseTab(d) \/ LoadedOrSaved(d) \/ Publish(d) \/ PublishMalformed(d)
    \/ \E w \in Windows, d \in Documents : OpenTab(w, d) \/ MoveTab(d, w)
    \/ \E w \in Windows : Deactivate(w)

Spec == Init /\ [][Next]_vars

----------------------------------------------------------------------------
\* Whatever tabs are opened, closed and moved, as long as no listener has
\* raised: the panel of a window and the context of its code actions have the
\* same list for each document it is attached to, which is the newest or none
\* has come since; the tags of the buffer and the light bulbs of the window that
\* shows it agree with them; and a window that is not attached to a document
\* shows nothing of it.  (A window whose tab comes back after a save elsewhere
\* is attached already and has no light bulbs: LoadedOrSaved.)
ViewsAgree ==
    ~deaf => \A p \in active \X Documents :
        /\ rows[p] = context[p]
        /\ p \notin bridges => context[p] = 0 /\ lit[p] = 0
        /\ context[p] # 0 => context[p] = news[p[2]]
        /\ p \in gutters => tab[p[2]] = p[1] /\ lit[p] = context[p]
        /\ context[p] # 0 => tagged[p[2]] = context[p]
=============================================================================
