--------------------------- MODULE DocumentBridge ---------------------------
(***************************************************************************)
(* src/gedit_lsp/bridge.py, with the signal handlers of plugin.py that     *)
(* drive it: how one gedit buffer is kept the same in the language server. *)
(*                                                                         *)
(* A text is a sequence of characters.  The server's side is what an LSP   *)
(* server does with the notifications; they travel through a FIFO, and a   *)
(* request travels behind them, so the server's text at the moment a       *)
(* request is dispatched is the text it answers for, and a notification is *)
(* applied here in the step that sends it.  The file is shown by this      *)
(* document alone: what two bridges of one file do is in Session.          *)
(***************************************************************************)
EXTENDS Naturals, Sequences, SequencesExt

CONSTANTS
    Chars,         \* characters that are typed
    MaxEdits,      \* bound on the number of edits in a behaviour
    Capabilities,  \* what the server may report as textDocumentSync
    LateDeltas,    \* it may turn out incremental while a change is pending
    Features       \* the requests the user makes

(***************************************************************************)
(* parse_sync_kind: what each shape of the capability is taken for.        *)
(***************************************************************************)
SyncKindOf ==
    [ missing |-> "FULL", bool |-> "FULL",
      number_0 |-> "NONE", number_1 |-> "FULL", number_2 |-> "INCREMENTAL",
      number_other |-> "FULL",
      options_without_change |-> "NONE",
      options_0 |-> "NONE", options_1 |-> "FULL", options_2 |-> "INCREMENTAL",
      options_bad |-> "FULL", other |-> "FULL" ]

SyncKinds == {"NONE", "FULL", "INCREMENTAL"}

\* Features that flush the pending change and send their request at once.
FlushingFeatures == {"completion", "signatureHelp", "formatting", "references",
                     "codeAction"}
\* Features that flush when they are triggered, and send their request after a
\* popover or a debounce.
DeferringFeatures == {"rename", "workspaceSymbol"}
\* Features that send their request as things are.
OtherFeatures == {"hover", "mouseHover", "definition", "documentSymbol"}

ASSUME MaxEditsAssumption == MaxEdits \in Nat
ASSUME CapabilitiesAssumption ==
    Capabilities # {} /\ Capabilities \subseteq DOMAIN SyncKindOf
ASSUME LateDeltasAssumption == LateDeltas \in BOOLEAN
ASSUME FeaturesAssumption ==
    Features \subseteq FlushingFeatures \cup DeferringFeatures \cup OtherFeatures

VARIABLES
    buffer,      \* the text of the GtkTextBuffer
    modified,    \* its modified flag
    disk,        \* the text of the file
    edits,       \* number of edits so far
    bridged,     \* the document has a DocumentBridge
    text,        \* _text, the bridge's mirror of the buffer
    version,     \* _version
    syncKind,    \* sync_kind
    timer,       \* _pending_handle: off, armed, or due after changeDebounceMs
    events,      \* _pending_events
    capability,  \* the textDocumentSync the server will report
    reported,    \* it has been: the server is READY
    docOpen,     \* server: the document is open
    docText,     \* server: its text, the last one once it is closed
    docVersion,  \* server: its version
    strays,      \* server: it was told of a document that was not open, or of a
                 \* version it has had
    triggered,   \* features that have yet to send the request they flushed for
    request      \* history: how current the server's text was for the last
                 \* request: current, early (nothing was flushed for it), stale

vars == <<buffer, modified, disk, edits, bridged, text, version, syncKind, timer,
          events, capability, reported, docOpen, docText, docVersion, strays,
          triggered, request>>

Texts == UNION {[1..n -> Chars] : n \in 0..MaxEdits}

\* TextDocumentContentChangeEvent: an insertion or a removal of one character.
Insertions == [op : {"insert"}, at : 1..(MaxEdits + 1), char : Chars]
Removals == [op : {"remove"}, at : 1..MaxEdits]
Changes == Insertions \cup Removals

ChangeEvents == {e \in Changes : e.at <= Len(buffer) + (IF e.op = "insert" THEN 1 ELSE 0)}

\* What a change does to a text it was meant for, and to one it was not.
Apply(t, e) ==
    IF e.at > Len(t)
    THEN IF e.op = "insert" THEN Append(t, e.char) ELSE t
    ELSE IF e.op = "insert" THEN InsertAt(t, e.at, e.char) ELSE RemoveAt(t, e.at)

ApplyAll(t, es) ==
    LET after[n \in 0..Len(es)] ==
            IF n = 0 THEN t ELSE Apply(after[n - 1], es[n])
    IN  after[Len(es)]

TypeOK ==
    /\ buffer \in Texts
    /\ modified \in BOOLEAN
    /\ disk \in Texts
    /\ edits \in 0..MaxEdits
    /\ bridged \in BOOLEAN
    /\ text \in Texts
    /\ version \in Nat
    /\ syncKind \in SyncKinds
    /\ timer \in {"off", "armed", "due"}
    /\ events \in Seq(Changes)
    /\ capability \in Capabilities
    /\ reported \in BOOLEAN
    /\ docOpen \in BOOLEAN
    /\ docText \in Texts
    /\ docVersion \in Nat
    /\ strays \in BOOLEAN
    /\ triggered \subseteq DeferringFeatures
    /\ request \in {"none", "current", "early", "stale"}

\* A file is loaded; whether the server is READY already depends on others.
Init ==
    /\ buffer = <<>>
    /\ modified = FALSE
    /\ disk = <<>>
    /\ edits = 0
    /\ bridged = FALSE
    /\ text = <<>>
    /\ version = 0
    /\ syncKind = "FULL"
    /\ timer = "off"
    /\ events = <<>>
    /\ capability \in Capabilities
    /\ reported \in BOOLEAN
    /\ docOpen = FALSE
    /\ docText = <<>>
    /\ docVersion = 0
    /\ strays = FALSE
    /\ triggered = {}
    /\ request = "none"

editorVars == <<buffer, modified, disk, edits>>
serverVars == <<docOpen, docText, docVersion, strays>>
capabilityVars == <<capability, reported>>
requestVars == <<triggered, request>>

----------------------------------------------------------------------------
(***************************************************************************)
(* The server's side of the notifications.                                 *)
(***************************************************************************)
DidChange(newText, newVersion) ==
    /\ strays' = (strays \/ ~docOpen \/ newVersion <= docVersion)
    /\ docText' = IF docOpen THEN newText ELSE docText
    /\ docVersion' = IF docOpen THEN newVersion ELSE docVersion
    /\ UNCHANGED docOpen

----------------------------------------------------------------------------
\* _attach_document and attach: didOpen with the whole text, version 1.
Attach ==
    /\ ~bridged
    /\ bridged' = TRUE
    /\ text' = buffer
    /\ version' = 1
    /\ syncKind' = SyncKindOf[IF reported THEN capability ELSE "missing"]
    /\ timer' = "off"
    /\ events' = <<>>
    /\ docOpen' = TRUE
    /\ docText' = buffer
    /\ docVersion' = 1
    /\ strays' = (strays \/ docOpen)
    /\ UNCHANGED <<editorVars, capabilityVars, requestVars>>

\* A slip: the new sync kind starts with nothing pending.
ServerReadyDropsPending ==
    /\ ~reported
    /\ reported' = TRUE
    /\ syncKind' = IF bridged THEN SyncKindOf[capability] ELSE syncKind
    /\ timer' = "off"
    /\ events' = <<>>
    /\ UNCHANGED <<editorVars, bridged, text, version, capability, serverVars,
                   requestVars>>

(***************************************************************************)
(* _on_server_state for READY: a bridge made while the server was STARTING *)
(* took the capability for missing, and is told better now.  What is       *)
(* pending stays pending.                                                  *)
(***************************************************************************)
ServerReady ==
    /\ ~reported
    /\ bridged /\ timer # "off" /\ SyncKindOf[capability] = "INCREMENTAL"
          => LateDeltas
    /\ reported' = TRUE
    /\ syncKind' = IF bridged THEN SyncKindOf[capability] ELSE syncKind
    /\ UNCHANGED <<editorVars, bridged, text, version, timer, events, capability,
                   serverVars, requestVars>>

\* Slips: the mirror is refreshed and the event applied to it as well; the
\* timer is armed only by a whole-text change.
EditAppliedTwice(e) ==
    /\ edits < MaxEdits
    /\ edits' = edits + 1
    /\ buffer' = Apply(buffer, e)
    /\ modified' = TRUE
    /\ text' = IF bridged /\ syncKind = "INCREMENTAL" THEN Apply(buffer', e)
               ELSE IF bridged THEN buffer' ELSE text
    /\ events' = IF bridged /\ syncKind = "INCREMENTAL"
                 THEN Append(events, e) ELSE events
    /\ timer' = IF bridged /\ syncKind # "NONE" THEN "armed" ELSE timer
    /\ UNCHANGED <<disk, bridged, version, syncKind, capabilityVars, serverVars,
                   requestVars>>

EditSchedulesFullOnly(e) ==
    /\ edits < MaxEdits
    /\ edits' = edits + 1
    /\ buffer' = Apply(buffer, e)
    /\ modified' = TRUE
    /\ text' = IF bridged THEN buffer' ELSE text
    /\ events' = IF bridged /\ syncKind = "INCREMENTAL"
                 THEN Append(events, e) ELSE events
    /\ timer' = IF bridged /\ syncKind = "FULL" THEN "armed" ELSE timer
    /\ UNCHANGED <<disk, bridged, version, syncKind, capabilityVars, serverVars,
                   requestVars>>

(***************************************************************************)
(* An edit: insert-text or delete-range before GTK applies it, changed     *)
(* after.  An incremental bridge queues the event and refreshes its text,  *)
(* the others take the text; all but NONE (re)arm the debounce timer.      *)
(***************************************************************************)
Edit(e) ==
    /\ edits < MaxEdits
    /\ edits' = edits + 1
    /\ buffer' = Apply(buffer, e)
    /\ modified' = TRUE
    /\ text' = IF bridged THEN buffer' ELSE text
    /\ events' = IF bridged /\ syncKind = "INCREMENTAL"
                 THEN Append(events, e) ELSE events
    /\ timer' = IF bridged /\ syncKind # "NONE" THEN "armed" ELSE timer
    /\ UNCHANGED <<disk, bridged, version, syncKind, capabilityVars, serverVars,
                   requestVars>>

\* changeDebounceMs pass without an edit.
DebounceElapses ==
    /\ timer = "armed"
    /\ timer' = "due"
    /\ UNCHANGED <<editorVars, bridged, text, version, syncKind, events,
                   capabilityVars, serverVars, requestVars>>

\* A slip: the events that were sent stay queued.
FlushKeepsEvents ==
    /\ timer' = "off"
    /\ UNCHANGED events
    /\ \/ /\ syncKind = "NONE"
          /\ UNCHANGED <<version, serverVars>>
       \/ /\ syncKind # "NONE"
          /\ version' = version + 1
          /\ DidChange(IF syncKind = "INCREMENTAL" /\ events # <<>>
                       THEN ApplyAll(docText, events) ELSE text, version')

\* _flush_change: the queued events if there are any, else the whole text.
FlushChange ==
    /\ timer' = "off"
    /\ \/ /\ syncKind = "NONE"
          /\ UNCHANGED <<version, events, serverVars>>
       \/ /\ syncKind = "INCREMENTAL"
          /\ events # <<>>
          /\ version' = version + 1
          /\ events' = <<>>
          /\ DidChange(ApplyAll(docText, events), version')
       \/ /\ syncKind = "FULL" \/ (syncKind = "INCREMENTAL" /\ events = <<>>)
          /\ version' = version + 1
          /\ UNCHANGED events
          /\ DidChange(text, version')

DebounceFires ==
    /\ timer = "due"
    /\ FlushChange
    /\ UNCHANGED <<editorVars, bridged, text, syncKind, capabilityVars, requestVars>>

\* A slip: without queued events there is nothing to flush.
FlushQueuedEvents ==
    \/ /\ events # <<>>
       /\ FlushChange
    \/ /\ events = <<>>
       /\ UNCHANGED <<timer, version, events, serverVars>>

\* flush_pending_change
FlushPendingChange ==
    \/ /\ timer # "off"
       /\ FlushChange
    \/ /\ timer = "off"
       /\ UNCHANGED <<timer, version, events, serverVars>>

Asks(otherwise) ==
    request' = IF docText' = buffer \/ syncKind = "NONE" THEN "current"
               ELSE otherwise

\* A feature sends a request about the document.
Request(f) ==
    /\ bridged
    /\ \/ /\ f \in FlushingFeatures
          /\ FlushPendingChange
          /\ Asks("stale")
       \/ /\ f \in OtherFeatures
          /\ UNCHANGED <<timer, version, events, serverVars>>
          /\ Asks("early")
    /\ UNCHANGED <<editorVars, bridged, text, syncKind, capabilityVars, triggered>>

\* A rename or a search begins.  A rename sends textDocument/prepareRename, if
\* the server supports that.
Trigger(f) ==
    /\ f \in DeferringFeatures
    /\ bridged
    /\ FlushPendingChange
    /\ triggered' = triggered \cup {f}
    /\ \/ f = "rename" /\ Asks("stale")
       \/ UNCHANGED request
    /\ UNCHANGED <<editorVars, bridged, text, syncKind, capabilityVars>>

\* The new name is committed, or the search's debounce fires, once for every
\* query: the request is sent as things are then.  What is sent while the
\* document has no bridge is not followed.
RequestLater(f) ==
    /\ f \in triggered
    /\ bridged
    /\ triggered' = IF f = "rename" THEN triggered \ {f} ELSE triggered
    /\ UNCHANGED serverVars
    /\ Asks("early")
    /\ UNCHANGED <<editorVars, bridged, text, version, syncKind, timer, events,
                   capabilityVars>>

\* A slip: didSave carries the text, so nothing is flushed.
SaveWithoutFlush ==
    /\ disk' = buffer
    /\ modified' = FALSE
    /\ UNCHANGED <<buffer, edits, bridged, text, version, syncKind, timer, events,
                   capabilityVars, serverVars, requestVars>>

\* The saved signal, after the file was written: flush, then didSave.
Save ==
    /\ disk' = buffer
    /\ modified' = FALSE
    /\ \/ /\ bridged
          /\ FlushPendingChange
       \/ /\ ~bridged
          /\ UNCHANGED <<timer, version, events, serverVars>>
    /\ UNCHANGED <<buffer, edits, bridged, text, syncKind, capabilityVars,
                   requestVars>>

(***************************************************************************)
(* tab-removed.  An unsaved text that differs from the file's is replaced  *)
(* by the file's, if that can be read, before the didClose; the pending    *)
(* change is dropped, the popover of a rename goes with the tab, and a     *)
(* search is not about the document any more.  A later tab would load the  *)
(* file.                                                                   *)
(***************************************************************************)
Reverts(readable) == modified /\ readable /\ disk # text

\* A slip: the unsaved text is sent, not the file's.
CloseSendsMirror(readable) ==
    /\ bridged
    /\ bridged' = FALSE
    /\ timer' = "off"
    /\ events' = <<>>
    /\ version' = IF Reverts(readable) THEN version + 1 ELSE version
    /\ docText' = IF Reverts(readable) /\ docOpen THEN text ELSE docText
    /\ docVersion' = IF Reverts(readable) /\ docOpen THEN version' ELSE docVersion
    /\ docOpen' = FALSE
    /\ strays' = (strays \/ ~docOpen)
    /\ buffer' = disk
    /\ modified' = FALSE
    /\ triggered' = {}
    /\ UNCHANGED <<disk, edits, text, syncKind, capabilityVars, request>>

Close(readable) ==
    /\ bridged
    /\ bridged' = FALSE
    /\ timer' = "off"
    /\ events' = <<>>
    /\ text' = IF Reverts(readable) THEN disk ELSE text
    /\ version' = IF Reverts(readable) THEN version + 1 ELSE version
    /\ docText' = IF Reverts(readable) /\ docOpen THEN disk ELSE docText
    /\ docVersion' = IF Reverts(readable) /\ docOpen THEN version' ELSE docVersion
    /\ docOpen' = FALSE
    /\ strays' = (strays \/ ~docOpen)
    /\ buffer' = disk
    /\ modified' = FALSE
    /\ triggered' = {}
    /\ UNCHANGED <<disk, edits, syncKind, capabilityVars, request>>

\* A slip: the timer is left to fire.
DeactivateLeavesTimer ==
    /\ bridged
    /\ bridged' = FALSE
    /\ docOpen' = FALSE
    /\ strays' = (strays \/ ~docOpen)
    /\ UNCHANGED <<editorVars, text, version, syncKind, timer, events, docText,
                   docVersion, capabilityVars, requestVars>>

\* do_deactivate: the bridge is detached, the buffer stays open in gedit.
Deactivate ==
    /\ bridged
    /\ bridged' = FALSE
    /\ timer' = "off"
    /\ events' = <<>>
    /\ docOpen' = FALSE
    /\ strays' = (strays \/ ~docOpen)
    /\ UNCHANGED <<editorVars, text, version, syncKind, docText, docVersion,
                   capabilityVars, requestVars>>

Next ==
    \/ Attach
    \/ ServerReady
    \/ \E e \in ChangeEvents : Edit(e)
    \/ DebounceElapses
    \/ DebounceFires
    \/ \E f \in Features : Request(f) \/ Trigger(f) \/ RequestLater(f)
    \/ Save
    \/ \E readable \in BOOLEAN : Close(readable)
    \/ Deactivate

Spec == Init /\ [][Next]_vars

\* The debounce timer is a GLib timeout: it elapses and is dispatched.
FairSpec == Spec /\ WF_vars(DebounceElapses) /\ WF_vars(DebounceFires)

----------------------------------------------------------------------------
\* With nothing pending the server has the buffer's text: no edit is lost on
\* the way, by a flush, a save, a change of sync kind, or a re-attach.
QuietIsSynced ==
    bridged /\ timer = "off" /\ syncKind # "NONE" => docText = buffer

\* The queued deltas are exactly what the server's text lacks, in order.
DeltasCompose ==
    bridged /\ events # <<>> => ApplyAll(docText, events) = buffer

\* No notification of a document, shown once, reaches a server that does not have
\* it open, and none is opened twice: a timer never outlives its bridge.  Each
\* change has a greater version than the one before, whoever flushes it.
NoStrays == ~strays

\* A feature that flushes and sends in one step asks about the buffer as it is,
\* when the server wants changes: no pending delta, late capability or re-attach
\* is missed.  So does prepareRename; the rename itself, and a search, are sent
\* later, without another flush, and are excepted.
RequestsSeeBuffer == request # "stale"

\* A document closed with unsaved edits leaves the file's text in the server's
\* caches, whatever was pending.
CloseLeavesDisk ==
    [][Close(TRUE) /\ modified /\ buffer # disk => docText' = disk]_vars

\* An edit reaches the server, or is overtaken by the end of the bridge.
EditsArrive ==
    (bridged /\ syncKind # "NONE" /\ docText # buffer)
        ~> (docText = buffer \/ ~bridged \/ syncKind = "NONE")

----------------------------------------------------------------------------
\* The bridge implements the text mirror.
Mirror == INSTANCE TextMirror
              WITH text <- buffer, file <- disk, open <- docOpen, view <- docText,
                   wanted <- (syncKind # "NONE")

ImplementsMirror == Mirror!Spec

----------------------------------------------------------------------------
\* The design: "the server's view of an open document must match the buffer's
\* content at every moment any feature dispatches a request".
DocRequestsSeeBuffer == request \notin {"early", "stale"}
=============================================================================
