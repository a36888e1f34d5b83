------------------------------ MODULE Features ------------------------------
(***************************************************************************)
(* The features of src/gedit_lsp/features/ that wait for answers of the    *)
(* server or of gedit, beside Effects.  Each controller has its own state  *)
(* and its own requests, and none reads another's, so that a behaviour of  *)
(* the whole is an interleaving of independent ones.  A behaviour of this  *)
(* module is that of one of them, `part`; the others stay as they were     *)
(* made.                                                                   *)
(***************************************************************************)
EXTENDS Effects

CONSTANTS
    Parts,                                  \* the features to follow
    MaxAsked,                               \* Requests
    Proposals, NoProposal,                  \* CompletionResolve
    MaxPopovers,                            \* WorkspaceSymbol
    MaxEntries                              \* NavigationHistory

AllParts == {"completion", "resolve", "signature", "formatting", "symbols",
             "hover", "history"} \cup EffectParts

ASSUME PartsAssumption == Parts \subseteq AllParts

\* A history that holds no entry has no jump to undo.
ASSUME HistoryAssumption == MaxEntries \in Nat \ {0}

VARIABLES
    waiting, asked, used, inflight,            \* Requests, all controllers
    incomplete,                                \* Completion
    resolved, highlighted, label,              \* CompletionResolve
    visible, disposed,                         \* SignatureHelp, MouseHover
    token, opened, popover, closing,           \* WorkspaceSymbol, MouseHover
    queryTimer, hooks, listed,                 \* WorkspaceSymbol
    dwellTimer, grace, onScreen, anchored, inPopover, \* MouseHover
    history, choosers, unchosen, jumps, alone         \* NavigationHistory

requestVars == <<waiting, asked, used, inflight>>
completionVars == <<incomplete>>
resolveVars == <<resolved, highlighted, label>>
signatureVars == <<visible>>
popoverVars == <<token, opened, popover, closing>>
symbolVars == <<queryTimer, hooks, listed>>
hoverVars == <<dwellTimer, grace, onScreen, anchored, inPopover>>
historyVars == <<history, choosers, unchosen, jumps, alone>>

vars == <<part, requestVars, completionVars, resolveVars, signatureVars,
          disposed,
          popoverVars, symbolVars, hoverVars, historyVars, effectVars>>

Completing == INSTANCE Completion
Resolving == INSTANCE CompletionResolve
Signature == INSTANCE SignatureHelp
Format == INSTANCE Formatting
Symbols == INSTANCE WorkspaceSymbol WITH timer <- queryTimer
Hover == INSTANCE MouseHover WITH timer <- dwellTimer
History == INSTANCE NavigationHistory

----------------------------------------------------------------------------
Init ==
    /\ part \in Parts
    /\ Completing!Init
    /\ Resolving!Init
    /\ Signature!Init
    /\ Format!Init
    /\ Symbols!Init
    /\ Hover!Init
    /\ History!Init
    /\ EffectsInit

----------------------------------------------------------------------------
CompletionStep ==
    /\ part = "completion"
    /\ Completing!Next
    /\ UNCHANGED <<part, resolveVars, signatureVars, disposed, popoverVars,
                   symbolVars, hoverVars, historyVars, effectVars>>

ResolveStep ==
    /\ part = "resolve"
    /\ Resolving!Next
    /\ UNCHANGED <<part, completionVars, signatureVars, disposed, popoverVars,
                   symbolVars, hoverVars, historyVars, effectVars>>

SignatureStep ==
    /\ part = "signature"
    /\ Signature!Next
    /\ UNCHANGED <<part, completionVars, resolveVars, popoverVars, symbolVars,
                   hoverVars, historyVars, effectVars>>

FormattingStep ==
    /\ part = "formatting"
    /\ Format!Next
    /\ UNCHANGED <<part, completionVars, resolveVars, signatureVars, disposed,
                   popoverVars, symbolVars, hoverVars, historyVars, effectVars>>

SymbolsStep ==
    /\ part = "symbols"
    /\ Symbols!Next
    /\ UNCHANGED <<part, completionVars, resolveVars, signatureVars, disposed,
                   hoverVars, historyVars, effectVars>>

HoverStep ==
    /\ part = "hover"
    /\ Hover!Next
    /\ UNCHANGED <<part, inflight, completionVars, resolveVars, signatureVars,
                   symbolVars, historyVars, effectVars>>

HistoryStep ==
    /\ part = "history"
    /\ History!Next
    /\ UNCHANGED <<part, inflight, completionVars, resolveVars, signatureVars,
                   disposed, popoverVars, symbolVars, hoverVars, effectVars>>

EffectStep ==
    /\ part \in EffectParts
    /\ EffectsNext
    /\ UNCHANGED <<part, requestVars, completionVars, resolveVars, signatureVars,
                   disposed, popoverVars, symbolVars, hoverVars, historyVars>>

Next ==
    \/ CompletionStep
    \/ ResolveStep
    \/ SignatureStep
    \/ FormattingStep
    \/ SymbolsStep
    \/ HoverStep
    \/ HistoryStep
    \/ EffectStep

Spec == Init /\ [][Next]_vars

----------------------------------------------------------------------------
\* Whatever order answers come in, completion, signature help, formatting,
\* symbol search and hover use only the answer to their newest question, and
\* once.  What makes an answer worthless is a new question, and of the ways to
\* turn away from one those in which the code says so: the symbol search is
\* cancelled or its text emptied, hover is dismissed.  Escape and the end of
\* signature help, and a search that is opened anew, say nothing, and the
\* answer to the last question is used.
Answers == INSTANCE LatestAnswer

ImplementsLatestAnswer == Answers!Spec

\* The details pane of completion shows the highlighted proposal, however late
\* an answer is, unless the proposal was shown from the cache.
LabelIsHighlighted == Resolving!LabelIsHighlighted

\* A stale answer of an earlier session of the symbol search "can never collide
\* with a new session's token", says workspace_symbol.py.
DocPriorSessionIgnored == Symbols!DocPriorSessionIgnored

\* Going back undoes the newest jumps to a definition, as long as the user waits
\* for the answers, and nothing but jumps and questions whose chooser was closed
\* without a choice.
HistoryIsJumps == part = "history" => History!HistoryIsJumps
=============================================================================
