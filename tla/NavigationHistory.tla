-------------------------- MODULE NavigationHistory -------------------------
(***************************************************************************)
(* src/gedit_lsp/features/definition.py: go to definition, and back.  The  *)
(* place the user leaves is pushed when the question is asked, and popped  *)
(* when the answer has no location.  An answer with several locations      *)
(* opens a chooser, which the user may close without a choice: then no     *)
(* jump is made, and the entry stays.  A place is named by the number of   *)
(* the question that was asked there.  The request flushes nothing and is  *)
(* never cancelled: several may be under way.                              *)
(***************************************************************************)
EXTENDS Requests, Sequences, SequencesExt

CONSTANT MaxEntries   \* gotoHistoryMaxEntries

VARIABLES
    history,   \* CursorHistory._stack
    choosers,  \* questions whose popover of locations is open
    unchosen,  \* history variable: questions of whose locations none was chosen
    jumps,     \* history variable: questions whose jump is neither undone nor
               \* outgrown by the stack
    alone      \* history variable: nothing was done while a question was open

historyVars == <<history, choosers, unchosen, jumps, alone>>

vars == <<requestVars, historyVars>>

Init ==
    /\ InitRequests
    /\ history = <<>>
    /\ choosers = {}
    /\ unchosen = {}
    /\ jumps = {}
    /\ alone = TRUE

Full == Len(history) = MaxEntries

\* A deque with a maxlen drops its oldest entry.
Push(place) ==
    history' = IF Full THEN Append(Tail(history), place)
               ELSE Append(history, place)

Pop == history' = IF history = <<>> THEN <<>> ELSE Front(history)

\* The user acts while no answer and no choice is awaited, or no longer waits.
Act == alone' = (alone /\ waiting = {} /\ choosers = {})

Trigger ==
    /\ Ask
    /\ Push(asked')
    /\ SendRequest(asked')
    /\ jumps' = IF Full THEN jumps \ {Head(history)} ELSE jumps
    /\ Act
    /\ UNCHANGED <<used, choosers, unchosen>>

\* One location.  An answer to an older question counts as well.
OnLocation(id) ==
    /\ Answered(id)
    /\ jumps' = jumps \cup {id}
    /\ UNCHANGED <<asked, used, history, choosers, unchosen, alone>>

\* Several locations; without a view there is no chooser.
OnSeveral(id) ==
    /\ Answered(id)
    /\ unchosen' = unchosen \cup {id}
    /\ choosers' \in {choosers, choosers \cup {id}}
    /\ UNCHANGED <<asked, used, history, jumps, alone>>

\* A row is activated; another may be until the popover is gone.
Choose(id) ==
    /\ id \in unchosen
    /\ jumps' = jumps \cup {id}
    /\ unchosen' = unchosen \ {id}
    /\ UNCHANGED <<requestVars, history, choosers, alone>>

\* The popover closes, after a choice or without one.
CloseChooser(id) ==
    /\ choosers' = choosers \ {id}
    /\ UNCHANGED <<requestVars, history, unchosen, jumps, alone>>

\* No location, or an error.  A slip: the entry is left.
OnNothingKeeps(id) ==
    /\ Answered(id)
    /\ UNCHANGED <<asked, used, historyVars>>

OnNothing(id) ==
    /\ Answered(id)
    /\ Pop
    /\ UNCHANGED <<asked, used, choosers, unchosen, jumps, alone>>

GoBack ==
    /\ history # <<>>
    /\ Pop
    /\ jumps' = jumps \ {Last(history)}
    /\ Act
    /\ UNCHANGED <<requestVars, choosers, unchosen>>

Next ==
    \/ Trigger
    \/ \E id \in waiting : OnLocation(id) \/ OnSeveral(id) \/ OnNothing(id)
    \/ \E id \in choosers : Choose(id) \/ CloseChooser(id)
    \/ GoBack

----------------------------------------------------------------------------
\* Going back undoes the newest first, and, as long as the user waits for each
\* answer and for the chooser to close, it undoes every jump that the stack has
\* room for and nothing but jumps: a question that found nothing leaves no
\* entry.  Excepted is a question with several locations of which none was
\* chosen: its entry stays though no jump was made.  If another question is
\* asked, or the user goes back, before an answer is there, the entry that is
\* popped may be another's.
HistoryIsJumps ==
    /\ \A i, j \in DOMAIN history : i < j => history[i] < history[j]
    /\ alone /\ waiting = {} => /\ jumps \subseteq Range(history)
                                /\ Range(history) \subseteq jumps \cup unchosen
=============================================================================
