-------------------------------- MODULE Dialogs --------------------------------
(***************************************************************************)
(* The dialogs of the page: the stack of modal dialogs and the two screens *)
(* (static/js/utils/motion.js), the question box (confirm_dialog.js) and   *)
(* the folder browser (folder_browser.js).                                 *)
(*                                                                         *)
(* A dialog is on the stack exactly while it has the class active.  The    *)
(* forms are the two dialogs of the download manager, which open when an   *)
(* answer of the server has come; a dialog that its button opens at once   *)
(* meets an empty stack and is left out.                                   *)
(***************************************************************************)
EXTENDS Naturals, Sequences, SequencesExt

CONSTANT MaxBrowses     \* bound: how often the folder browser is opened

ASSUME BrowsesAssumption == MaxBrowses \in Nat

Modals  == {"add", "limits", "confirm", "browser"}
Forms   == {"add", "limits"}
Browses == 0 .. MaxBrowses      \* 0: before the first one

VARIABLES
    screen,     \* the screen that is displayed
    stack,      \* modalStack
    usable,     \* the dialogs that are not inert
    late,       \* history: the dialogs opened while the screen was locked
    loading,    \* the forms that wait for an answer to be opened
    submitting, \* the forms that wait for an answer to be closed
    question,   \* activeResolve is set, and keydownHandler with it
    waiting,    \* history: how many callers of showConfirmDialog wait
    hidden,     \* history: the question's dialog was closed by showScreen
    covered,    \* history: a dialog was opened over the question
    confirmed,  \* history: how the last question was confirmed
    browse,     \* history: the number of the last browse
    callback,   \* the browse whose onSelectCallback is set, or 0
    path,       \* history: the browse that asked for currentPath
    loads,      \* browseFolders calls; live: its sequence is the last one
    creating,   \* createFolder calls, by browse
    seen,       \* history: a listing of the last browse was shown
    picked      \* history: what the last choice was

stackVars    == <<screen, stack, usable, late>>
formVars     == <<loading, submitting>>
questionVars == <<question, waiting, hidden, covered, confirmed>>
browserVars  == <<browse, callback, path, loads, creating, seen, picked>>
dialogVars   == <<stackVars, formVars, questionVars, browserVars>>

NoPick == [own |-> TRUE, seen |-> TRUE]

DialogsTypeOK ==
    /\ screen \in {"auth", "app"}
    /\ stack \in UNION {[1 .. n -> Modals] : n \in 0 .. 4}
    /\ usable \subseteq Modals /\ late \subseteq Modals
    /\ loading \subseteq Forms /\ submitting \subseteq Forms
    /\ question \in BOOLEAN /\ waiting \in Nat
    /\ hidden \in BOOLEAN /\ covered \in BOOLEAN
    /\ confirmed \in {"no", "seen", "unseen"}
    /\ browse \in Browses /\ callback \in Browses /\ path \in Browses
    /\ loads \subseteq [browse : Browses, live : BOOLEAN]
    /\ creating \subseteq Browses
    /\ seen \in BOOLEAN
    /\ picked \in [own : BOOLEAN, seen : BOOLEAN]

DialogsInit ==
    /\ screen = "app"
    /\ stack = <<>> /\ usable = {} /\ late = {}
    /\ loading = {} /\ submitting = {}
    /\ question = FALSE /\ waiting = 0
    /\ hidden = FALSE /\ covered = FALSE /\ confirmed = "no"
    /\ browse = 0 /\ callback = 0 /\ path = 0
    /\ loads = {} /\ creating = {}
    /\ seen = FALSE /\ picked = NoPick

-----------------------------------------------------------------------------
(* The stack *)

Top(s)       == IF s = <<>> THEN {} ELSE {Last(s)}
OnTop(m)     == m \in Top(stack)
Operable(m)  == OnTop(m) /\ m \in usable

\* Nothing covers the desktop: its buttons can be pressed.
AtDesktop == screen = "app" /\ stack = <<>>

\* syncModalStack: only the top one is not inert.
Sync(s) ==
    /\ stack' = s
    /\ usable' = (usable \ ToSet(s)) \cup Top(s)

\* openModal
OpenModal(m) ==
    /\ IF m \in ToSet(stack) THEN UNCHANGED <<stack, usable>> ELSE Sync(Append(stack, m))
    /\ late' = IF screen = "auth" /\ m \notin ToSet(stack) THEN late \cup {m} ELSE late
    /\ UNCHANGED screen

\* closeModal: indexOf and splice
CloseModal(m) ==
    LET rest == RemoveFirst(stack, m) IN
    /\ stack' = rest
    /\ usable' = (usable \ ToSet(stack)) \cup Top(rest)
    /\ late' = late \ {m}
    /\ UNCHANGED screen

\* Mutant: only the top dialog is closed.
ShowAuth_TopOnly ==
    /\ screen' = "auth"
    /\ stack' = IF stack = <<>> THEN stack ELSE Front(stack)
    /\ usable' = Top(stack')
    /\ late' = {}
    /\ hidden' = (hidden \/ (question /\ OnTop("confirm")))
    /\ UNCHANGED <<formVars, question, waiting, covered, confirmed, browserVars>>

\* showScreen("auth"): every dialog is closed, by closeModal and nothing else.
ShowAuth ==
    /\ screen' = "auth"
    /\ stack' = <<>>
    /\ usable' = usable \ ToSet(stack)
    /\ late' = {}
    /\ hidden' = (hidden \/ (question /\ "confirm" \in ToSet(stack)))
    /\ UNCHANGED <<formVars, question, waiting, covered, confirmed, browserVars>>

\* showScreen("app"): the dialogs are left alone.
ShowApp ==
    /\ screen = "auth"
    /\ screen' = "app"
    /\ UNCHANGED <<stack, usable, late, formVars, questionVars, browserVars>>

-----------------------------------------------------------------------------
(* Forms *)

\* A dialog that opens over the question of showConfirmDialog.
Cover == covered' = (covered \/ (question /\ OnTop("confirm")))

\* The button of a form, pressed by the user or by a menu action: the answer is
\* asked for.  Pressed once more, it does what it does when pressed later.
PressForm(m) ==
    /\ loading' = loading \cup {m}
    /\ UNCHANGED <<stackVars, submitting, questionVars, browserVars>>

\* The answer.  Without it "add" opens all the same and "limits" does not.
Loaded(m) ==
    /\ m \in loading
    /\ loading' = loading \ {m}
    /\ \/ OpenModal(m) /\ Cover
       \/ m = "limits" /\ UNCHANGED <<stackVars, covered>>
    /\ UNCHANGED <<submitting, question, waiting, hidden, confirmed, browserVars>>

SubmitForm(m) ==
    /\ Operable(m)
    /\ submitting' = submitting \cup {m}
    /\ UNCHANGED <<stackVars, loading, questionVars, browserVars>>

\* Its answer: a form that was taken is closed, wherever it is.
Submitted(m, ok) ==
    /\ m \in submitting
    /\ submitting' = submitting \ {m}
    /\ IF ok THEN CloseModal(m) ELSE UNCHANGED stackVars
    /\ UNCHANGED <<loading, questionVars, browserVars>>

CloseForm(m) ==
    /\ Operable(m)
    /\ CloseModal(m)
    /\ UNCHANGED <<formVars, questionVars, browserVars>>

-----------------------------------------------------------------------------
(* The question box *)

\* Mutant: the caller of a question that was left open is forgotten.
Ask_Forget ==
    /\ AtDesktop
    /\ question' = TRUE
    /\ waiting' = waiting + 1
    /\ hidden' = FALSE /\ covered' = FALSE /\ confirmed' = "no"
    /\ OpenModal("confirm")
    /\ UNCHANGED <<formVars, browserVars>>

\* showConfirmDialog: a question that was left open is answered with no.
Ask ==
    /\ AtDesktop
    /\ question' = TRUE
    /\ waiting' = IF question THEN waiting ELSE waiting + 1
    /\ hidden' = FALSE /\ covered' = FALSE /\ confirmed' = "no"
    /\ OpenModal("confirm")
    /\ UNCHANGED <<formVars, browserVars>>

\* cleanup, and the promise resolved
Resolve ==
    /\ question' = FALSE
    /\ waiting' = waiting - 1
    /\ CloseModal("confirm")
    /\ UNCHANGED <<formVars, hidden, covered, browserVars>>

Cancel == Resolve /\ UNCHANGED confirmed

\* The Cancel and OK buttons and a click on the backdrop.
ClickCancel == Operable("confirm") /\ question /\ Cancel

Confirm == Resolve /\ confirmed' = IF Operable("confirm") THEN "seen" ELSE "unseen"

\* The OK button, and Enter anywhere on the page: the handler sits on the
\* document and does not look at the dialog.
ClickOk  == Operable("confirm") /\ question /\ Confirm
KeyEnter == question /\ Confirm

-----------------------------------------------------------------------------
(* The folder browser *)

\* loadDirectory, for a directory that the given browse asked for
Load(b, ls) == {[l EXCEPT !.live = FALSE] : l \in ls} \cup {[browse |-> b, live |-> TRUE]}

\* open, from a window or from a form
Browse ==
    /\ AtDesktop \/ \E m \in Forms : Operable(m)
    /\ browse < MaxBrowses
    /\ browse' = browse + 1
    /\ callback' = browse + 1
    /\ loads' = Load(browse + 1, loads)
    /\ seen' = FALSE
    /\ OpenModal("browser")
    /\ UNCHANGED <<formVars, questionVars, path, creating, picked>>

\* A folder, a breadcrumb, a location or a typed path.
Jump ==
    /\ Operable("browser")
    /\ loads' = Load(browse, loads)
    /\ UNCHANGED <<stackVars, formVars, questionVars, browse, callback, path, creating, seen, picked>>

\* Mutant: any answer is shown.
Listed_Any(l) ==
    /\ loads' = loads \ {l}
    /\ path' = l.browse
    /\ seen' = (seen \/ l.browse = browse)
    /\ UNCHANGED <<stackVars, formVars, questionVars, browse, callback, creating, picked>>

\* The answer to a call: only that of the last one counts.
Listed(l) ==
    /\ loads' = loads \ {l}
    /\ path' = IF l.live THEN l.browse ELSE path
    /\ seen' = (seen \/ (l.live /\ l.browse = browse))
    /\ UNCHANGED <<stackVars, formVars, questionVars, browse, callback, creating, picked>>

ListFails(l) ==
    /\ loads' = loads \ {l}
    /\ UNCHANGED <<stackVars, formVars, questionVars, browse, callback, path, creating, seen, picked>>

CreateFolder ==
    /\ Operable("browser")
    /\ creating' = creating \cup {browse}
    /\ UNCHANGED <<stackVars, formVars, questionVars, browse, callback, path, loads, seen, picked>>

\* The folder is made: the directory that is shown now is loaded again.
Created(b, ok) ==
    /\ b \in creating
    /\ creating' = creating \ {b}
    /\ loads' = IF ok THEN Load(path, loads) ELSE loads
    /\ UNCHANGED <<stackVars, formVars, questionVars, browse, callback, path, seen, picked>>

\* close: what is on its way is dropped.
CloseBrowser ==
    /\ CloseModal("browser")
    /\ loads' = {[l EXCEPT !.live = FALSE] : l \in loads}
    /\ callback' = 0
    /\ UNCHANGED <<formVars, questionVars, browse, path, creating, seen>>

DismissBrowser == Operable("browser") /\ CloseBrowser /\ UNCHANGED picked

\* The Select button: the caller gets currentPath.
Choose ==
    /\ Operable("browser")
    /\ CloseBrowser
    /\ picked' = IF callback = 0 THEN picked
                 ELSE [own |-> path = callback,
                       seen |-> seen]

-----------------------------------------------------------------------------
\* Mutant: the top dialog is closed without its button.
KeyEscape_NoClick ==
    IF stack = <<>>
    THEN question /\ Cancel
    ELSE CloseForm(Last(stack))

\* Escape goes to the close button of the top dialog and no further; without a
\* dialog it reaches the handler of the question.
KeyEscape ==
    \/ stack = <<>> /\ question /\ Cancel
    \/ OnTop("confirm") /\ ClickCancel
    \/ OnTop("browser") /\ DismissBrowser
    \/ \E m \in Forms : CloseForm(m)

\* What the user does.
DialogsInput ==
    \/ ShowApp
    \/ AtDesktop /\ \E m \in Forms : PressForm(m)
    \/ \E m \in Forms : SubmitForm(m)
    \/ Ask \/ ClickCancel \/ ClickOk \/ KeyEnter \/ KeyEscape
    \/ Browse \/ Jump \/ CreateFolder \/ Choose

\* The answers of the server.
DialogsAnswer ==
    \/ \E m \in Forms : Loaded(m)
    \/ \E m \in submitting, ok \in BOOLEAN : Submitted(m, ok)
    \/ \E l \in loads : Listed(l) \/ ListFails(l)
    \/ \E b \in creating, ok \in BOOLEAN : Created(b, ok)

-----------------------------------------------------------------------------
(* Properties *)

\* No dialog is open twice, and of those that are open only the top one can be
\* used, also after one below it closed.
\* "Dialogs belong to the authenticated screen and cannot stay above it": on a
\* locked screen there are only those that an answer opened after it was locked.
UsableDialogs ==
    /\ IsInjective(stack)
    /\ usable = Top(stack)
    /\ screen = "auth" => ToSet(stack) \subseteq late

\* Whoever asked a question can still be answered: at most one waits, and only
\* while the question is open.
EveryQuestionIsOpen == waiting = IF question THEN 1 ELSE 0

\* A question is confirmed by the dialog that shows it.  The exceptions are the
\* screen that was locked over it, which closes the dialog and leaves its key
\* handler, and a late dialog that opened over it: then Enter confirms a
\* question nobody sees.
OnlyAHiddenQuestionIsConfirmedUnseen == confirmed = "unseen" => hidden \/ covered

\* Once the folder browser has shown a directory that was asked for since it was
\* opened, what it hands over was asked for since then too: no answer meant for
\* an earlier caller, and no folder that caller made late, gets in between.
\* Before that it hands over the directory of the earlier caller.
ChoicesAreOfTheirBrowse == picked.seen => picked.own
=============================================================================
