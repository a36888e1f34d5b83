------------------------------ MODULE Effects ------------------------------
(***************************************************************************)
(* What src/gedit_lsp/features/ does to gedit with what a server has sent: *)
(* edits of one buffer and of several files, renames and code actions,     *)
(* diagnostics and the outline.  None of them reads the state of another,  *)
(* and a behaviour is that of one of them, `part`; Features has the        *)
(* features that wait for answers in the same way.                         *)
(***************************************************************************)
EXTENDS Naturals, Sequences

CONSTANTS
    MaxText, MaxSpans, NewTexts,                      \* TextEdits
    Files, WorkspaceEdits, MaxOpened,                 \* WorkspaceEditApply
    MaxLoads,                                         \* UserActions
    MaxTagged, MaxDiagnostics, Severities, Styled,    \* DiagnosticTags
    Windows, Documents, NoWindow, MaxNews,            \* DiagnosticViews
    Names, MaxItems                                   \* Outline

ASSUME TextBoundsAssumption == MaxText \in Nat /\ MaxSpans \in Nat
ASSUME NoWindowAssumption == NoWindow \notin Windows
ASSUME MaxLoadsAssumption == MaxLoads \in Nat
ASSUME MaxTaggedAssumption == MaxTagged \in Nat
ASSUME SeveritiesAssumption == Severities \subseteq Nat

VARIABLES
    part,
    text, todo, goal, clear,                                       \* TextEdits
    file, wants, stage, remaining, callbacks, skipped, tabs, gone, \* WorkspaceEditApply
    kind, phase, picker, committable, carries, loading, window, effects,
    chars, last, occupied, tags, seen,                             \* DiagnosticTags
    active, tab, hooked, bridges, gutters, tagged, rows, lit, context, news,
    published, deaf,                                               \* DiagnosticViews
    items, byName, parent                                          \* Outline

textVars == <<text, todo, goal, clear>>
applyVars == <<file, wants, stage, remaining, callbacks, skipped, tabs, gone>>
actionVars == <<kind, phase, picker, committable, carries, loading, window, effects>>
tagVars == <<chars, last, occupied, tags, seen>>
viewVars == <<active, tab, hooked, bridges, gutters, tagged, rows, lit, context,
              news, published, deaf>>
outlineVars == <<items, byName, parent>>

effectVars == <<textVars, applyVars, actionVars, tagVars, viewVars, outlineVars>>

Editing == INSTANCE TextEdits
Applying == INSTANCE WorkspaceEditApply
Acting == INSTANCE UserActions
Tagging == INSTANCE DiagnosticTags
Viewing == INSTANCE DiagnosticViews
Outlining == INSTANCE Outline

ASSUME NewTextsAssumption == NewTexts \subseteq Seq(Editing!Characters)
ASSUME NamesAssumption == Outlining!NoContainer \notin Names

EffectParts == {"text", "apply", "action", "tags", "views", "outline"}

----------------------------------------------------------------------------
\* The parts that may begin in many ways have no state at all when another one
\* is followed.
TextInit ==
    IF part = "text" THEN Editing!Init
    ELSE /\ text = <<>> /\ todo = <<>> /\ goal = <<>> /\ clear = TRUE

ApplyInit ==
    IF part = "apply" THEN Applying!Init
    ELSE /\ file = <<>> /\ wants = <<>> /\ stage = <<>> /\ remaining = <<>>
         /\ callbacks = {} /\ skipped = <<>> /\ tabs = 0 /\ gone = {}

ActionInit ==
    IF part = "action" THEN Acting!Init
    ELSE /\ kind = "rename" /\ phase = "idle" /\ picker = "none" /\ window = TRUE
         /\ committable = FALSE /\ carries = {} /\ loading = 0 /\ effects = <<>>

TagsInit ==
    IF part = "tags" THEN Tagging!Init
    ELSE chars = <<>> /\ last = 1 /\ occupied = <<>> /\ tags = <<>> /\ seen = <<>>

EffectsInit ==
    /\ TextInit
    /\ ApplyInit
    /\ ActionInit
    /\ TagsInit
    /\ Viewing!Init
    /\ Outlining!Init

TextStep ==
    /\ part = "text"
    /\ Editing!Next
    /\ UNCHANGED <<applyVars, actionVars, tagVars, viewVars, outlineVars>>

ApplyStep ==
    /\ part = "apply"
    /\ Applying!Next
    /\ UNCHANGED <<textVars, actionVars, tagVars, viewVars, outlineVars>>

ActionStep ==
    /\ part = "action"
    /\ Acting!Next
    /\ UNCHANGED <<textVars, applyVars, tagVars, viewVars, outlineVars>>

TagsStep ==
    /\ part = "tags"
    /\ Tagging!Next
    /\ UNCHANGED <<textVars, applyVars, actionVars, viewVars, outlineVars>>

ViewsStep ==
    /\ part = "views"
    /\ Viewing!Next
    /\ UNCHANGED <<textVars, applyVars, actionVars, tagVars, outlineVars>>

OutlineStep ==
    /\ part = "outline"
    /\ Outlining!Next
    /\ UNCHANGED <<textVars, applyVars, actionVars, tagVars, viewVars>>

EffectsNext ==
    \/ TextStep
    \/ ApplyStep
    \/ ActionStep
    \/ TagsStep
    \/ ViewsStep
    \/ OutlineStep

----------------------------------------------------------------------------
\* A list of edits makes the buffer the text the server means.
EditsMatchMeaning == Editing!EditsMatchMeaning

\* A workspace edit waits for all files it has opened, and leaves out none that
\* it could have edited.
AppliedWhole == part = "apply" => Applying!AppliedWhole

\* A code action executes its command after its edit; nothing is asked or done
\* twice, and nothing after Escape in a rename.
CommandFollowsEdit == Acting!CommandFollowsEdit

\* A character has the tag of the most severe diagnostic that covers it.
SeverestWins == Tagging!SeverestWins

\* The tags, the panel, the light bulbs and the context of code actions show
\* the same, newest, list of diagnostics, and nothing of a closed document.
ViewsAgree == part = "views" => Viewing!ViewsAgree

\* The outline shows every symbol under its container, as long as none has the
\* name of its own container.
EverySymbolShown == part = "outline" => Outlining!EverySymbolShown
=============================================================================
