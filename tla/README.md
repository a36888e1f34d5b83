# gedit LSP plugin: specifications

TLA+ models of the [gedit LSP plugin](../src/README.md), the configurations
that check them with TLC, and proofs that TLAPS checks. Everything is
translated from the Python code under `src/gedit_lsp/`; where the documents
under `docs/` say something else, a run shows it.

## The system

A gedit window plugin attaches each open document to a *language server*, a
subprocess that is spoken to in JSON-RPC over its stdin and stdout. There is
one process, one thread and one event loop: GLib's main loop dispatches
signals of the editor, timeouts, completed reads and writes, and the ends of
subprocesses. A callback runs to completion, so an action of the models is one
callback. The hazards are not data races but callbacks that come in an order
nobody had in mind, long after what they belong to is gone.

| Component | State it keeps | Operations | Talks to | What makes it correct |
|---|---|---|---|---|
| `LanguageServer` (`server.py`) | state, attached URIs, failed starts, transport, capabilities, idle timer | attach, detach, kill now, reset breaker; timer, answer to `initialize`, process exit | `RpcClient`, state and diagnostics listeners | one process per supervisor; handshake in order; breaker opens for a reason and in time; idle servers end |
| `RpcClient` (`rpc.py`) | subprocess, write queue, outstanding write, pending callbacks, decoder | start, send, kill; write done, line read, body read, exit | GIO, callbacks of its owner | frames whole and in order; messages delivered once, in order, unaltered; callback called at most once |
| `DocumentBridge` (`bridge.py`) | mirror of the text, version, sync kind, debounce timer, queued deltas | attach, change, save, flush, revert, detach | `LanguageServer.send_notification` | the server's text is the buffer's whenever nothing is pending, and before a request |
| Window plugin (`plugin.py`) | bridges, servers and controllers per document, listener disposers | activate, deactivate, tab added and removed, buffer signals, server state | all others | listeners and bridges live as long as their document |
| `ServerRegistry` (`registry.py`) | servers by (language, root) | get or spawn, shut down all | `LanguageServer` | one supervisor per pair, across windows |
| Feature controllers (`features/*.py`) | in-flight ids, tokens, timers, popovers, back history | trigger; answer | `_send_request`, `cancel_request`, the buffer | an answer is used only for the request and text it belongs to |
| Rename, code actions (`workspace_edit.py`, `navigation.py`) | popover and its callback, files still to be loaded | prepare or list, pick, resolve, load files, edit, execute | the server, gedit's tabs | nothing asked or done twice; every file edited that has a buffer; the command after the edit |
| Diagnostics (`features/diagnostics.py`, panel, light bulbs, the bridge's store) | a copy of the newest list in each | publish, attach, close, move, switch off | the server's listeners | each character has the tag of the most severe; all copies agree |
| Outline (`features/outline.py`) | a tree, built anew from each answer | build | the side panel | every symbol shown, under its container |
| `utf16.py`, text edits, `root.py`, `config.py` | none | conversions | | equal to their definition |

`PROJECT.json` lists every component with its status, and every place where
the code is hard to test under "hazards", with the properties that cover it.

## Modules

| Module | Models | Kind |
|---|---|---|
| `ServerLifecycle` | what a supervisor promises: state diagram, users, a live process | abstract |
| `LanguageServer` | `server.py`: the supervisor and its numbered subprocesses | detailed, implements `ServerLifecycle` |
| `LanguageServerProofs` | theorems about `LanguageServer`, with any faults and without, and the refinement | proofs |
| `TextMirror` | what synchronisation promises: the server's text jumps to the buffer's | abstract |
| `DocumentBridge` | `bridge.py` with the handlers of `plugin.py` | detailed, implements `TextMirror` |
| `DocumentBridgeProofs` | theorems about `DocumentBridge`, with the refinement | proofs |
| `FrameDecoder` | `FrameDecoder` of `rpc.py`: operators on symbols | pure |
| `FrameReader` | the read loop of `RpcClient` | detailed |
| `RpcClient` | the write queue and the pending requests of `RpcClient` | detailed |
| `Transport` | both halves of `RpcClient`, one of them at a time | composition |
| `TransportProofs` | theorems about both halves | proofs |
| `Session` | `plugin.py`, `registry.py`, `ui/crash_notify.py`: windows and documents over one `LanguageServer` | composition |
| `SessionProofs` | theorems about `Session`, with those of the supervisor carried over | proofs |
| `LatestAnswer` | what a feature promises about late answers | abstract |
| `Requests` | how a feature sends a request and is answered | shared part of the next ones |
| `Completion`, `CompletionResolve` | the two requests of `features/completion.py` | detailed |
| `SignatureHelp`, `Formatting` | the controllers of these names | detailed |
| `WorkspaceSymbol` | `features/workspace_symbol.py` with its quick-pick | detailed |
| `MouseHover` | `features/mouse_hover.py` | detailed |
| `NavigationHistory` | `features/definition.py`: go to definition, and back | detailed |
| `UserActions` | one rename or code action from the menu to its effects | detailed |
| `WorkspaceEditApply` | the deferred loads of rename and code actions, `navigation.py`, `workspace_edit.py` | detailed |
| `WorkspaceEditApplyProofs` | theorems about `WorkspaceEditApply` | proofs |
| `TextEdits` | `apply_text_edits` and `utf16.py`, against what LSP says they mean | pure, and a loop |
| `TextEditsProofs` | what a list of edits does to any text: the invariant of `EditsMatchMeaning` | proofs |
| `DiagnosticTags` | `apply_diagnostics`: which character gets which tag | pure, and a loop |
| `DiagnosticViews` | who shows which list of diagnostics, over windows and tabs | detailed |
| `Outline` | `_build_flat` of `features/outline.py` | pure, and a loop |
| `Effects` | `UserActions`, `WorkspaceEditApply`, `TextEdits`, `DiagnosticTags`, `DiagnosticViews` and `Outline` side by side: what is done with what the server sent | composition |
| `Features` | `Effects` and the features that wait for answers; five of these implement `LatestAnswer` | composition |
| `FeaturesProofs` | the refinement of `LatestAnswer`, theorems about the details pane, the history, code actions, the outline, the tags and the views of diagnostics, and those about edits as theorems about `Features` | proofs |
| `Induction` | lemmas for induction and recursion over the numbers up to n, and for `FlattenSeq` | proofs |
| `MC...` | finite values of the constants for TLC | |

Operators whose comment begins with "Slip" are variants of the definition that
follows them, with a mistake one could make in the code; `PROJECT.json` lists
under "mutants" which property each of them violates.

### LanguageServer

One action per way through each handler. Subprocesses are numbered in the order
of their spawning; `transport` is the number of the newest, the one the
supervisor talks to. `proc[p]` is what happened to process `p`, whether or not
the main loop has reported it: `_handle_subprocess_exit` is the action
`SubprocessExit(p)` for any ended `p`, since the code does not ask which
process ended. `reply[p]` is the `initialize` call of process `p`; the handler
of its answer is likewise enabled for any `p`, and sends `initialized` to the
*current* transport. Timeout sources have identities, because a crash while
IDLE leaves the idle timer armed (nothing cancels it) and a later idle period
has two.

`attempts` and `failures` are history variables. The first counts spawns since
the last success or reset, without those that `kill_now` took back while
STARTING; the second counts each failed process once, while the code's
`failedStarts` counts also exits that were asked for, and counts a process that
answered with an error twice once it ends.

`Faults` names what the surroundings may do besides crashing a process at any
time: `missing_binary`, `init_error`, `late_reply` (an answer read after the
exit of its process has been reported) and `kill_unready` (`kill_now` while
STARTING or STOPPING; no code of the plugin calls `kill_now` before
`shutdown_all`).

### DocumentBridge

A text is a sequence of characters, and an edit inserts or removes one. UTF-16
positions are left to `TextEdits`. One document shows the file; two that do are in
`Session`. The server's side (`docOpen`, `docText`, `docVersion`, `strays`) is
what a server does with the notifications; they share a FIFO with the requests, so
they are applied when they are sent. `timer` tells a debounce that still runs from
one that is due and not dispatched yet: a save or a request may come in between.
`Request(f)` stands for the request of any feature: the flushing features flush
first, as their code does, and the others do not. A rename and the symbol search
flush when they begin (`Trigger`, which sends the `prepareRename` of a rename) and
send their request after a popover or a debounce, without another flush
(`RequestLater`). `request` records how current the server's text was at the
moment of the last request: `stale` if a change was pending that its flush should
have sent, `early` if none was made in that step.

### FrameDecoder and FrameReader

A byte stream is a sequence of symbols (`CR`, `LF`, the text of a length
header, another header line, body characters). `HeaderLine` and `Body` are the
callbacks; the loop alternates between them as `_expected_length` says. The
loop is `dead` when a callback raised. `short` says whether the body reads of
this behaviour may return less than they asked for, which GIO allows;
`printed` is what the server prints between two frames, such as a warning on
the wrong stream; `raising` is the message whose callback raises (a diagnostic
without a range does that). Each of these can make the client deaf while the
server lives, and `DeafForAReason` says that nothing else does.

### RpcClient

A frame has two parts, so that a partial write can be told from a whole one.
`partial` says whether the writes of this behaviour may be partial: the code
does not look at the count. `stdin` is FALSE when `start()` has raised. The
reading half and the writing half share no state but the subprocess, so
`Transport` follows one of them (`half`).

### Session

`LanguageServer` is instantiated whole, with files for its buffers: an
operation of the plugin is an action of the supervisor together with what the
plugin keeps. All windows share the supervisor, as `ServerRegistry` makes them.
A document is a buffer with its tab, and `UriOf` its file: a window shows a file
once, but two windows may show it, each in a document of its own, as in
`docs/manual-smoke-test.md:151`. A pair `<<w, d>>` stands for the entries of window
`w` for document `d`; two bridges of one file share its URI.
`hooked` are the signals `loaded`, `saved` and `notify::language`, any of which
attaches the document; they belong to the window that had the tab when it was
added, and stay connected when the tab moves. `told` is which files the
present subprocess has open, and `announced` which bridge told it: both begin anew
with a new subprocess, because nothing opens the documents again. `didClose` closes
a file for the server whoever else has it open: the history variable `parted` has
the files of which one bridge was dropped and another is left. An info bar belongs
to a tab; each pair of a window asks for one in the tab that
`get_tab_from_location` finds for its file, and `bars` tells whether a tab has one,
not how many (`CrashNotifier` shows one per tab and window). The restart button
makes two calls of the supervisor in one callback, hence two actions with
nothing between them (`restarting`). The plugin is taken to be switched on
before its window has documents: `do_activate` with a supported document open
fails at `plugin.py:412`, where the status bar does not exist yet.

### The features

A controller keeps the id of its request in flight, or a token, and compares it
in the callback. `Requests` gives each question a number, which is also its id;
an answer may come at any later time or never, and `$/cancelRequest` does not
stop it. `asked` and `used` are history variables, through which
`LatestAnswer` sees a controller: whatever starts a question or makes the
earlier ones worthless (a dismissal, a motion, Escape in the symbol search) is
an `Ask`. Not all that a user might take for an end is one: after Escape or
`dispose()` of signature help, and when a symbol search is opened again, the code
lets the answer to the last question through, and so does the model.
`ImplementsLatestAnswer` says nothing against it; for the search the run
`SymbolsPriorSession` does.

In `NavigationHistory` an answer with several locations opens a chooser, or none
where the window has no view. A row may be activated, and the popover may be closed
with or without that; without, the entry of the question stays (`unchosen`).

The `closed` signal of a popover comes at any time after `popdown()`, which
covers the toolkit with and without animations. The controllers share no state,
so `Features` follows one of them at a time (`part`): the states of the run are
the sum of theirs.

`TextEdits` starts from every text of up to three characters and every one or
two spans that do not overlap, gives the edits as positions of UTF-16 units,
lets the code apply them one by one, and compares with the text LSP means, which
is put together from the original in one pass. `WorkspaceEditApply` has several
edits under way over files that are missing, closed, loading or open. A file whose
edits are malformed raises, is skipped and reported as failed like one that has no
buffer (`workspace_edit.py:135-140`); that is left out.

`UserActions` follows one rename or one code action. Both controllers keep
their state in closures, so that a second one interferes with nothing. A
popover is `closing` between `popdown()` and its signal, and can still be
activated; whether that does anything depends on the callback it has
(`committable`). `effects` lists what was asked of the server and done.

`DiagnosticTags` takes one diagnostic at a time, in order of severity, as the
code sorts them, and keeps the intervals that are taken: `Subtract`, `Union` and
`Widen` are `_subtract_intervals`, `_union_intervals` and
`_widen_for_visibility`. `seen` has the diagnostics as they were given.

In `DiagnosticViews` a list of diagnostics is the number of its
`publishDiagnostics`, and 0 the empty list. The bridge's store, the light bulbs
and the handler of the window each listen to the server by themselves, and
each pair of a window and a document keeps its own copies. A malformed list
raises in the middle of these listeners; what the later ones show is then old,
and since the exception also ends the read loop (`deaf`), nothing corrects it.

`Outline` takes one item of the answer at a time; what the panel shows is what
can be reached from the roots.

## Runs

| Run | Bounds | Shows |
|---|---|---|
| `ServerFaults` | 2 buffers, 2 timers, 3 processes, 2 attempts, all faults | the type invariant and the safety properties that hold whatever happens |
| `ServerOrderly` | the same, no faults | one subprocess, current capabilities, liveness, refinement of `ServerLifecycle` |
| `ServerTwoProcesses` | `init_error` only | **violated**: two running processes of one supervisor |
| `ServerNoBinary` | `missing_binary` only, a user who goes on opening documents | **violated**: the circuit opens |
| `Bridge` | 2 characters, 3 edits, each sync kind; completion, hover, rename | synchronisation, liveness, refinement of `TextMirror` |
| `BridgeLateIncremental` | an incremental server that is late | **violated**: requests see the buffer |
| `Transport` | writing: 3 messages, 2 answers each, whole and partial writes; reading: up to three messages of up to three characters, printed text, a callback that raises, short reads, an end of the stream | order of writes, one callback per request, no stuck queue; messages delivered as written, nothing lost, deaf only for a reason, everything arrives |
| `ReaderShort` | one message, short reads | **violated**: every message arrives |
| `Session` | 2 windows, 3 documents: two of one file, and one of another whose tab may move; 2 processes, 1 attempt, `init_error` | who is told, who listens, who hears of an open circuit |
| `SessionNeverIdle` | 1 process | **violated**: the last document closed makes the server idle |
| `Features` | 4 questions, 3 popovers, 2 proposals, a history of 2; texts of 3 characters; 3 files, 2 edits, 4 tabs; 2 files to load; 3 diagnostics over 4 characters; 3 lists, 2 windows, 2 documents; 4 items of 3 names | latest answers only; going back undoes jumps; edits mean what the server means and wait for their files; commands follow edits; the most severe tag wins; views agree; every symbol is shown |
| `SymbolsPriorSession` | the symbol search alone | **violated**: a search lists answers of its own session |

Why the bounds are enough. Every property of the supervisor is about a process,
its successor and their timers: three processes give an old one, the current
one and a next one, two attempts give an open circuit with one spawn before and
one after a success, and two timers give a stray one beside the current one.
With both timers armed and stray, `DetachLast` waits; that only bounds how many
crashes while IDLE may happen before a timer fires. Three edits give a queue of
deltas that were sent, are pending and follow. Three messages give one that is
being written and two that wait. Two windows and three documents of two files give
every relation of a bridge to another: of the same window, of the same document, of
the same file in another window, of none of these. Two processes and one attempt
give what every property of the session is about, a circuit that opens, a restart
and a process that knows nothing; the supervisor has three and two in its own
runs. Four questions give an answer that is two questions late while another
is being asked. Two edits of three characters meet in every way: apart, touching,
and around a character of two units or a line's end. Three diagnostics are one
that meets the intervals of two others, and four characters give it something
to the left, between and to the right of them. Three lists are an old one, the
newest of the same document and one of another; two windows can both have a
bridge for one document. Four items of an outline are two levels and a name that
comes again. What the theorems below say holds without any bound.

Fairness. `LanguageServer`: GLib dispatches an armed timeout and the report of
an ended process; no fairness for servers or crashes, and none for users but in
`ServerNoBinary`, whose user goes on opening documents (`EagerUser`): the
circuit stays closed even so. `DocumentBridge`:
the debounce timeout elapses and is dispatched. A user who types for ever
postpones it for ever, which `MaxEdits` excludes: `EditsArrive` says what
happens once typing pauses. `FrameReader`: a read with data completes and the
server writes what it began. `RpcClient`: a write completes or fails (the server
reads its stdin) and the read loop dispatches. No server is assumed to answer.

`Session` and `Features` have safety properties only, and assume no fairness.

Deadlock checking is off for `Transport` and `ReaderShort`, whose behaviours end
with the stream or with `MaxSends` messages, and for `Features` and
`SymbolsPriorSession`, which end with their bounds.

## What the violated runs show

- **Two processes** (`server.py:315`). An error answer to `initialize` makes the
  supervisor NOT_RUNNING without killing the process; the next attach starts
  another. The design (line 28) wants one process per pair.
- **No binary** (`server.py:260`). `start()` raises after the state was set to
  STARTING and before anything is counted. Every later attach joins what it takes
  for a server under way, so the circuit never opens and the info bar that
  `docs/manual-smoke-test.md:160` and the design (line 299) expect never comes.
- **Late incremental server** (`plugin.py:811`). A document opened while the
  server is STARTING uses whole-text sync. If the server then reports
  incremental sync while a change is pending, the next edit queues a delta and
  the flush sends that delta alone: the earlier change is lost for the server
  until the document is closed.
- **Short body read** (`rpc.py:234`). After a short read the loop waits for a
  header line. The message is stuck until another one arrives, whose first line
  then completes it; `Transport` shows that order and content survive this. If the
  rest of the body has a character that is not ASCII, the loop dies instead
  (`rpc.py:216`).
- **Never idle** (`plugin.py:284`). Closing a document detaches its bridge and not
  its buffer: nothing in the plugin calls `detach_buffer`. The idle timeout that
  `docs/configure.md` documents never begins, and the processes end with gedit.
- **Prior session** (`workspace_symbol.py:155`). The search is opened again before
  an answer of the session before has come: while that session is still open, or
  after it ended with an activation of what an earlier answer listed. (Escape and
  a click outside do advance the token.) `trigger` cancels the old request and
  leaves the token, so the answer passes the comparison and the new quick-pick
  lists it, until its own first query is sent. The comment in `trigger` (lines
  149-152) says that this can never happen.

Further behaviours of the code that contradict its documents or look unintended,
seen in the models or on the way to them and not given a run: the breaker counts
requested shutdowns as failures; a buffer attached while STOPPING waits for
another attach; a buffer detached while STARTING leaves a READY server that never
idles; a stray idle timer can end a later idle period early; the backoff schedule
is never waited for; `requestTimeoutMs` is documented and read nowhere, and the
callbacks of a server that died stay registered; cancelling a request does not
remove its callback, as the design says, and the controllers compare ids instead;
hover and definition do not flush, and a rename and the symbol search flush long
before their request, so that edits may come between, where the design (line 455)
wants every request to see the buffer; closing a modified document whose text
equals the file's drops the pending change and leaves the server with the text it
was sent before; partial writes break the framing.

In `Session`: the tab whose attach opens the circuit gets no info bar, since its
listener is registered afterwards, where the design (5.3) has one in every tab;
bars of other tabs stay after a restart that succeeded; "Disable for session" does
nothing; a file that two windows show has two bridges of one URI, which opens it
twice for the server, and the first close, or the first window whose plugin is
switched off, closes it for both; the same after a move, when a save attaches the
document in both windows; a moved tab that is not saved has no bridge in its new
window; saving under another root does not change servers (5.4); documents are not
opened again for a new subprocess.

In the features: an answer that comes after Escape or after `dispose()` opens the
signature popover again; a re-opened symbol search takes the answer of the session
before; a debounce timer that runs on after an activation drops the answer to its
resolve request, and no navigation happens; a proposal that is highlighted again
and shown from the cache (`completion.py:421`) is overwritten by the late answer
for the one highlighted in between, whose request the early return leaves in
flight, although a comment a few lines below says that it must not be; a
definition that finds nothing removes the entry of a later question; one with
several locations leaves its entry when the chooser is closed without a choice, so
that the next step back leads only to where the question was asked; leaving the
view does not cancel a dwell of mouse hover; a late `closed` makes mouse hover
forget the popover on the screen; of two inserts at one position the second comes
out in front, and a replacement deletes some of what an insert with the same start
has put in; a format answer is applied to whatever the buffer has become; a
workspace edit whose file fails to load, or is closed while it loads, is never
applied, and one that meets a file still loading for another edit changes its
buffer too early. The command of a code action is executed even when every file of
its edit failed. A code action with an empty `documentChanges` beside `changes`
loads no file, and then edits those of `changes` that are open; a rename with such
an answer does nothing (`rename.py:202-204`).

In diagnostics and the outline: a diagnostic without a range ends the reading
of everything the server says; a tab that is moved, saved and moved back has no
light bulbs; after a move and a save the first window keeps its bridge when the
document is closed, and its panel goes on showing the closed file; switching the
plugin off leaves tags and rows where they are, and so does the end of a server;
an outline item that has the name of its own container (a constructor, in some
languages) becomes its own child and vanishes, and the later members of that
class with it; the outline shows the last answer until the panel is refreshed,
`outlineRefreshDebounceMs` being handed to it and not used.

## Proofs

TLAPS checks every proof; the eight proof modules are independent of the
bounds of the runs. A bound of a model (`MaxSpawns`, `MaxEdits`, `MaxAsked`, ...)
is any number there, so it is no restriction. "By which invariant" names the
strengthening that is inductive where the property is not.

| Theorem | Property | By which invariant |
|---|---|---|
| `LanguageServerProofs`, for every choice of `Faults` | `TypeOK`, `IdleIsTimed`, `ShutdownAfterHandshake`, `BreakerBudget`, `BreakerIsJustified`, `StartingHasProcess`, `NoSpawnPastMaxFailures` | `IInv`, see below |
| `LanguageServerProofs`, where `Faults = {}` | `OneSubprocess`, `CapabilitiesAreCurrent`, `ImplementsLifecycle` | `OrderlyInv` |
| `DocumentBridgeProofs`, for every server | `NoStrays`, `TypeOK`, `CloseLeavesDisk` | `ProtocolInv` for the first, `TypeInv` |
| `DocumentBridgeProofs`, under `NeverLate` | `QuietIsSynced`, `DeltasCompose`, `RequestsSeeBuffer`, `ImplementsMirror` | `BridgeInv` |
| `TransportProofs`, the reading half | `DeliveredAsWritten`, `NothingLost`, `DeafForAReason` | `ReadingInv` |
| `TransportProofs`, the writing half | `CallbackOnce`, `WritesAreOrdered` | `IInv` |
| `SessionProofs` | `ClosedIsForgotten`, `KnownToItsServer` | `IInv` |
| `SessionProofs` | `TypeOK`, `TripReachesAttached` | `LinkInv`, and the supervisor's `IInv` for the types |
| `FeaturesProofs` | `ImplementsLatestAnswer` | `IInv` |
| `FeaturesProofs` | `LabelIsHighlighted`, `HistoryIsJumps`, `CommandFollowsEdit`, `EverySymbolShown`, `SeverestWins`, `ViewsAgree` | `LabelInv`, `HistoryInv`, `ActionInv`, `OutlineInv`, `TagInv`, `ViewInv` |
| `WorkspaceEditApplyProofs`, and `FeaturesProofs` for the part of `Features`, for finite `Files` | `AppliedWhole` | `IInv` of the first |
| `TextEditsProofs`, and `FeaturesProofs` for the part of `Features` | `EditsMatchMeaning` | `TextInv` of the first |

The assumptions on the constants are named in the modules that declare them, and
TLC evaluates them in the runs: bounds are natural numbers, severities too (LSP
numbers them from 1 to 4), and the values that stand for nothing (`NoTimer`,
`NoWindow`, `NoContainer`) are not timers, windows or names. The back history has
room for one entry at least (`HistoryAssumption`), and each document has a file
(`UriAssumption`). `Session` repeats those of
`LanguageServer`, which an instance does not bring along.

**The supervisor.** For all constants that satisfy the named assumptions (at
least one attempt, at least one process, `NoTimer` is no timer). `IInv` adds:

- `TimerInv`: a remembered timer is armed. `IdleIsTimed` follows, because a
  supervisor becomes IDLE only by arming a timer, a stray timer that fires in
  another state forgets the remembered one, and one that fires while IDLE ends
  the idle period.
- `HandshakeInv`: the transport of a READY or IDLE supervisor was sent
  `initialized`. A new transport comes only with STARTING, and only the handler
  that sends `initialized` leads from there to READY.
- `BudgetInv`: every attempt has been counted in `failedStarts`, except the one
  under way while STARTING. Since a spawn needs `failedStarts` below the
  maximum, `attempts` never exceeds it, however many stale reports arrive. It
  also gives `attempts >= 1` where `kill_now` takes one back.
- `CountInv`: the code's count is at least the number of real failures, which
  turns the guard of the spawn into `NoSpawnPastMaxFailures`.
- `StartingInv`: a supervisor that is STARTING has a transport, so that the
  process of `StartingHasProcess` is one.

The type invariant needs `HandshakeInv` (shutdown is recorded for a process
number) and `BudgetInv` (the history count stays natural).

**The supervisor without faults.** The end of a process is always reported
before the next is spawned: `LiveInv` says that a process is unreported exactly
if it is that of the transport and the state is one that has a process.
`AnswerInv` says that only a STARTING supervisor still waits for an answer, so
that no answer comes late. With both, each action of the supervisor is an action
of `ServerLifecycle` under its refinement mapping, or a stutter.

**The bridge.** `ProtocolInv`: the server has a document open exactly while it
has a bridge, at the version of the bridge, and a timer is that of a bridge.
`TypeInv` adds that the mirror is the buffer, that only an incremental bridge with
a timer has a queue, and that the server's text is shorter than the number of
edits by at least the queue: each queued delta may lengthen it by one, also where
it meets a text it was not meant for. `BridgeInv` adds that the queue leads from
the server's text to the buffer. That this survives an edit is a fact
about the fold of a queue with one more delta, which is proved by induction (see
below).

`NeverLate` says that the code never reaches the behaviour of the run
`BridgeLateIncremental`: that deltas are asked for while a whole text is pending.
It holds if no server of the behaviour wants deltas, or if none that wants them is
reported while a change is pending (`LateDeltas`). Without it the four properties
are false, as that run shows.

**Induction.** The theorems of the library about induction take an operator as
their argument, which the provers cannot instantiate. `Induction` has them
for sets instead: from the well-foundedness of `<`, a set that has 0 and passes
from each number to the next has all up to n (`UpTo`), two functions that begin
alike and step alike are the same (`SameByRecursion`), and a step that
is never stuck can be repeated (`ByRecursion`). With these the loops
that the models write as recursive functions can be reasoned about: `ApplyAll`,
`Shown`, `Subtract`, `Union`, `Drain` and, by its value as a chain of
concatenations (`FlattenIs`, `Joined`), the `FlattenSeq` of the library.

**The writing half of the transport.** `KnownInv`: nothing under way or answered
has an id that has not been given out, and then `CallbackOnce` is inductive.
`FrameInv`: with whole writes the wire is made of frames, and what the server has
not got is what waits, in order. A step of the reading half leaves this one as it
is (`WritingHalf`), so both theorems are about `TransportSpec`.

**The reading half.** `ReadingInv` says that the reader knows its place: while a
read is outstanding, the decoder's buffer, the pipe and what is unsent make the
end of the stream from the beginning of a frame (`AtHeader`: the buffer has whole
lines of the header and no blank line) or from the beginning of a body
(`InBody`: the expected length is that of the next message, and the buffer has
less of it), unless the pipe is closed and empty (`Drained`); and what was
delivered is the beginning of the script. `NothingLost` and `DeliveredAsWritten`
follow. `DeafForAReason` is a part of it: on the header of a frame
the decoder does not raise, whatever part of it has come. A body is left for a
header line only after a short read or at the end; the line that is then read may
be the last part of the body, with a CR LF too many behind it, or end behind
it. That the decoder finds the end of a message there and not elsewhere needs the
assumption `JsonAssumption`.

What the operators compute is proved first. `Drain` takes as many turns as the
buffer is long, plus one; on the buffers of the invariant it is at rest after two,
and stays so by induction (`TwoTurns`). `HeaderComes` says what it makes of a part
of a header, `BodyComes` of a body. `FlattenSeq` is recursive in the library;
`FlattenIs` gives its value as a chain of concatenations, and `StreamLaidOut`
from it the places where the frames of a stream end.

The assumptions: a header text names a positive length and is no other
symbol (`LengthOfAssumption`); there is one for the length of each body of a script
(`ScriptsAssumption`); no body is the cut-off part of another of the same length
with CR LF or CR behind it, which is so for JSON objects with nothing behind
the closing brace (`JsonAssumption`); and what is printed has no length
in it (`PrintsAssumption`). Any number of messages of any lengths satisfies them.

**Windows.** The types of pairs and files (`PairInv`), `ClosedIsForgotten` and
`KnownToItsServer` are inductive together. What a dropped bridge does to the others
of its file is in `parted`: a file that `didClose` takes from the server is then
either in `parted` or has no bridge left, and it leaves `parted` with its last one.
The steps of the supervisor enter only by what they do to the present subprocess.
Every step of a session is a step of the supervisor or leaves it alone
(`ServerStep`), so its inductive invariant holds in a session too
(`SupervisorInvariant`). `LinkInv`: the listeners of state changes are exactly those
of bridges; that is why an open circuit reaches every attached document, whatever
opened it.

**Features.** A controller with an id is right because the id in flight is that
of its newest question (`IdInv`); one with a token because a callback that has
the present token is that of the newest question and none has a later one
(`TokenInv`). With these, every step of every part is an `Ask`, a `Use` of the
newest answer, or a stutter of `LatestAnswer`.

*The details pane* (`LabelInv`): the callback that has the id in flight would
show the highlighted proposal, unless that one is in the cache. *The history*
(`HistoryInv`): the stack grows with the number of the question; and as long as the
user waits, the question or chooser that is open is that of the topmost entry, every
jump has its entry, and every entry is that of a jump, of a chooser, or of the open
question. *Renames and code actions* (`ActionInv`): what
each phase has asked and done already, and that a popover that can still commit
belongs to a phase that has done nothing.

*The outline* (`OutlineInv`): `byName` has the newest node of each name, and each
node is under what was the newest then. A parent comes before its child, so the
nodes are shown level by level, by induction over their depth.

*Tags* (`TagInv`): `occupied` is a sorted list of disjoint intervals that has the
characters some diagnostic covers, and each of them has the tag of the least
severity number among these. One more diagnostic keeps this because
`Subtract` returns the characters of its range that are not occupied
(`SubtractIsRest`), and `Union` a sorted list of those of both
(`UnionIsBoth`). Each is an induction over the turns of a loop, with
the state after n intervals (`FoundInv`, `MergedInv`).

**Workspace edits.** `CountInv`: the countdown of an edit is not below the
number of its callbacks that wait, so it does not end before the last of them.
`ClosedInv`: a wanted file that is closed while the edit loads was closed by the
user.

**Diagnostics.** `ListenInv`: only an active plugin listens, and only the window
that shows a document has a gutter; `ShowInv` then goes through each action.

**The edits of a buffer.** `EditsMatchMeaning` is about a text of any length, with
any lines and characters of two units, and any number of edits that do not overlap
and start at different places; the assumptions are only that the new texts are
texts (`NewTextsAssumption`) and the bounds numbers (`TextBoundsAssumption`). It
compares two computations that go in opposite directions: the code applies the
edits from the right, each at a position it finds in the buffer as it then is;
what the server means is put together from the left. `TextInv` has what they have
in common. After k edits, the buffer is the text up to the start of the last one
applied, unchanged, with some w behind; the meaning is the meaning of that part of
the text, with the same w behind.

- The next edit is found where it was meant. `IteratorIsFound`: the iterator a
  position was made of is the one it leads to, because the units of a line grow
  with every character, a character of two units included. `SamePosition`: it is
  the same in any two texts that agree up to there, because what is before an
  iterator gives its line. This is where the edits must not overlap: the end of the
  next one is not behind the start of the one before. An end on the line behind
  the last is the end of the buffer, and its edit is the first applied
  (`EndIsFound`).
- `DescendingIs`: the sort takes each edit once, from the right. Its ranks are a
  bijection because the starts are different; with equal starts the invariant
  fails, as the code does (see above).
- `OneMeans`: between the start of an edit and the start of the one behind
  it, the meaning is what it is before, the new text, and the characters behind the
  edit's end: what `delete` and `insert` make of the buffer (`ReplacesPart`). In
  front of the first edit it is the text itself (`NoneMeans`).

Only model-checked: liveness and `ENABLED`, which are beyond the prover. Every
invariant, action property and refinement of the passing runs is a theorem. What the
violated runs show is, of course, not a theorem either.

## Plan

Modelled and checked so far: the supervisor, the bridge, both halves of the
transport, the windows over one supervisor, the features and what they do to
gedit. What is left, in this order:

1. `Formatting` composed with `TextEdits` and a buffer that changes meanwhile:
   what remains of `EditsMatchMeaning` without the assumption that it does not.
2. `Session` over `DocumentBridge`: what the server's copy of a text is after a
   respawn.

## Not modelled

Drawing (panels, gutters, status bar text), logging, translation, preferences,
the merging of configuration, the search for the project root, and the content
of requests and answers.

References and hover from the menu send one request and show its answer: there is
no state between callbacks, and no promise about two answers that a property could
state (the last to arrive is shown). Requests from the server, such as
`workspace/applyEdit`, have no handler. `next_restart_delay` and `shutdown_all`
are called nowhere, and the `requestTimeoutMs` and `outlineRefreshDebounceMs`
settings used nowhere, so that there is no behaviour to model: a server that
failed is started again by the next attach, without a delay. When the outline is
asked for, and a hierarchical answer, which is copied as it is, are left out.
