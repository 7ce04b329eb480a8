----------------------------- MODULE WindowManager -----------------------------
(***************************************************************************)
(* The windows of the desktop (static/js/components/window_manager.js).    *)
(*                                                                         *)
(* A window is marked closed or minimized at once and leaves the page when *)
(* its exit animation completes; whatever opens it again cancels that      *)
(* animation.  Entering and resizing are animations too, but nothing waits *)
(* for them.  With reduced motion, and when the browser window is resized, *)
(* an animation completes at once: one of the orders below.  Sizes and     *)
(* places are left out.                                                    *)
(***************************************************************************)
EXTENDS Naturals, Sequences, FiniteSets

CONSTANTS
    NumWindows,     \* windows, numbered as the page lists them
    Downloads       \* the window of the download manager

Windows == 1 .. NumWindows
NoWindow == 0

ASSUME WindowsAssumption == NumWindows \in Nat \ {0} /\ Downloads \in Windows

VARIABLES
    open,       \* isOpen
    minimized,  \* isMinimized
    maximized,  \* isMaximized
    displayed,  \* style.display is flex
    inert,      \* inert
    exiting,    \* class window-exiting
    focused,    \* class focused
    exit,       \* the exit animation under way: "close", "minimize" or "none"
    active,     \* activeWindow
    zIndex,     \* style.zIndex, 0: never focused
    zIndexCounter,  \* zIndexCounter, less 100 and in steps of one
    drag,       \* dragState
    ready,      \* the ready promise of the download manager
    wanted,     \* a menu action waits for that promise
    orphan      \* a menu action waits for the promise of an earlier opening

lifeVars   == <<open, minimized, displayed, inert, exiting, exit>>
focusVars  == <<focused, active, zIndex, zIndexCounter>>
readyVars  == <<ready, wanted, orphan>>
windowVars == <<lifeVars, maximized, focusVars, drag, readyVars>>

Present == open \ minimized

WindowsTypeOK ==
    /\ open \subseteq Windows /\ minimized \subseteq open
    /\ maximized \subseteq Windows
    /\ displayed \subseteq Windows /\ inert \subseteq Windows
    /\ exiting \subseteq Windows /\ focused \subseteq Windows
    /\ exit \in [Windows -> {"none", "close", "minimize"}]
    /\ active \in Windows \cup {NoWindow}
    /\ zIndexCounter \in Nat
    /\ zIndex \in [Windows -> 0 .. zIndexCounter]
    /\ drag \in Windows \cup {NoWindow}
    /\ ready \in {"none", "paint", "init", "yes", "no"}
    /\ wanted \in BOOLEAN /\ orphan \in BOOLEAN

WindowsInit ==
    /\ open = {} /\ minimized = {} /\ maximized = {}
    /\ displayed = {} /\ inert = Windows /\ exiting = {} /\ focused = {}
    /\ exit = [w \in Windows |-> "none"]
    /\ active = NoWindow
    /\ zIndexCounter = 0
    /\ zIndex = [w \in Windows |-> 0]
    /\ drag = NoWindow
    /\ ready = "none" /\ wanted = FALSE /\ orphan = FALSE

-----------------------------------------------------------------------------
(* Focus *)

FocusOn(w) ==
    /\ focused' = {w}
    /\ active' = w
    /\ zIndexCounter' = zIndexCounter + 1
    /\ zIndex' = [zIndex EXCEPT ![w] = zIndexCounter + 1]

LastOf(S) == CHOOSE w \in S : \A v \in S : v <= w

\* Mutant: the class is left on the window that goes.
FocusNext_KeepClass(rest, classes) ==
    IF rest = {}
    THEN /\ active' = NoWindow
         /\ UNCHANGED <<focused, zIndex, zIndexCounter>>
    ELSE FocusOn(LastOf(rest))

\* A window went: the last one of the page that is present gets the focus.
FocusNext(rest, classes) ==
    IF rest = {}
    THEN /\ active' = NoWindow
         /\ focused' = classes
         /\ UNCHANGED <<zIndex, zIndexCounter>>
    ELSE FocusOn(LastOf(rest))

\* focusWindow, by pressing on a window that is there.
Focus(w) ==
    /\ w \in Present
    /\ FocusOn(w)
    /\ UNCHANGED <<lifeVars, maximized, drag, readyVars>>

-----------------------------------------------------------------------------
(* Opening and leaving *)

\* What opening and restoring share: the exit animation is cancelled.
Appear(w) ==
    /\ minimized' = minimized \ {w}
    /\ displayed' = displayed \cup {w}
    /\ inert' = inert \ {w}
    /\ exit' = [exit EXCEPT ![w] = "none"]
    /\ exiting' = exiting \ {w}
    /\ FocusOn(w)

\* A new ready promise; an action that waits for the old one goes on waiting if
\* the component is being initialised, and is told no if it is not.
NewReady(want) ==
    /\ ready' = "paint"
    /\ wanted' = want
    /\ orphan' = (orphan \/ (wanted /\ ready = "init"))

\* openWindow of a closed window; want: a menu action waits for it.
OpenClosed(w, want) ==
    /\ w \notin open
    /\ open' = open \cup {w}
    /\ Appear(w)
    /\ IF w = Downloads THEN NewReady(want) ELSE UNCHANGED readyVars
    /\ UNCHANGED <<maximized, drag>>

Restore(w) ==
    /\ w \in minimized
    /\ Appear(w)
    /\ UNCHANGED <<open, maximized, drag, readyVars>>

\* Mutant: a minimized window is only forgotten.
CloseWindow_KeepMinimized(w) ==
    /\ w \in open
    /\ open' = open \ {w}
    /\ minimized' = minimized \ {w}
    /\ inert' = inert \cup {w}
    /\ IF w \in minimized
       THEN UNCHANGED <<displayed, exiting, exit>>
       ELSE /\ exiting' = exiting \cup {w}
            /\ exit' = [exit EXCEPT ![w] = "close"]
            /\ UNCHANGED displayed
    /\ IF active = w THEN FocusNext(Present \ {w}, focused) ELSE UNCHANGED focusVars
    /\ drag' = NoWindow
    /\ UNCHANGED <<maximized, readyVars>>

\* closeWindow: a minimized window is hidden at once.
CloseWindow(w) ==
    /\ w \in open
    /\ open' = open \ {w}
    /\ minimized' = minimized \ {w}
    /\ inert' = inert \cup {w}
    /\ IF w \in minimized
       THEN /\ displayed' = displayed \ {w}
            /\ exiting' = exiting \ {w}
            /\ exit' = [exit EXCEPT ![w] = "none"]
       ELSE /\ exiting' = exiting \cup {w}
            /\ exit' = [exit EXCEPT ![w] = "close"]
            /\ UNCHANGED displayed
    /\ IF active = w THEN FocusNext(Present \ {w}, focused) ELSE UNCHANGED focusVars
    /\ drag' = NoWindow
    /\ UNCHANGED <<maximized, readyVars>>

\* What minimizing one window or all of them does to each.
Leave(S) ==
    /\ minimized' = minimized \cup S
    /\ exiting' = exiting \cup S
    /\ inert' = inert \cup S
    /\ exit' = [w \in Windows |-> IF w \in S THEN "minimize" ELSE exit[w]]
    /\ drag' = NoWindow
    /\ UNCHANGED <<open, displayed, maximized, readyVars>>

\* minimizeWindow
MinimizeWindow(w) ==
    /\ w \in Present
    /\ Leave({w})
    /\ FocusNext(Present \ {w}, focused \ {w})

\* showDesktop: one window after the other, each time the last one that is left
\* gets the focus.
ShowDesktop ==
    /\ Present # {}
    /\ Leave(Present)
    /\ IF Cardinality(Present) = 1
       THEN UNCHANGED <<zIndex, zIndexCounter>>
       ELSE /\ zIndexCounter' = zIndexCounter + Cardinality(Present) - 1
            /\ zIndex' = [zIndex EXCEPT ![LastOf(Present)] = zIndexCounter']
    /\ active' = NoWindow
    /\ focused' = {}

\* The exit animation of w completes.
Exited(w) ==
    /\ exit[w] # "none"
    /\ exit' = [exit EXCEPT ![w] = "none"]
    /\ CASE exit[w] = "close" /\ w \notin open ->
              /\ displayed' = displayed \ {w}
              /\ exiting' = exiting \ {w}
              /\ focused' = focused \ {w}
         [] exit[w] = "minimize" /\ w \in minimized ->
              /\ displayed' = displayed \ {w}
              /\ exiting' = exiting \ {w}
              /\ UNCHANGED focused
         [] OTHER -> UNCHANGED <<displayed, exiting, focused>>
    /\ UNCHANGED <<open, minimized, inert, maximized, active, zIndex, zIndexCounter, drag, readyVars>>

ToggleMaximize(w) ==
    /\ w \in Present
    /\ maximized' = IF w \in maximized THEN maximized \ {w} ELSE maximized \cup {w}
    /\ drag' = NoWindow
    /\ UNCHANGED <<lifeVars, focusVars, readyVars>>

\* A click on a dock item.
ToggleWindow(w) ==
    \/ OpenClosed(w, FALSE)
    \/ Restore(w)
    \/ active = w /\ MinimizeWindow(w)
    \/ active # w /\ Focus(w)

-----------------------------------------------------------------------------
(* Dragging *)

\* pointerdown on the title bar of a window that is not maximized
StartDrag(w) ==
    /\ w \in Present \ maximized
    /\ drag = NoWindow
    /\ FocusOn(w)
    /\ drag' = w
    /\ UNCHANGED <<lifeVars, maximized, readyVars>>

\* pointerup, pointercancel, blur
FinishDrag ==
    /\ drag # NoWindow
    /\ drag' = NoWindow
    /\ UNCHANGED <<lifeVars, maximized, focusVars, readyVars>>

-----------------------------------------------------------------------------
(* The content of the download manager's window *)

\* Two frames after the opening; an opening that is over answers no.
Painted ==
    /\ ready = "paint"
    /\ IF Downloads \in open
       THEN ready' = "init" /\ UNCHANGED wanted
       ELSE ready' = "no" /\ wanted' = FALSE
    /\ UNCHANGED <<lifeVars, maximized, focusVars, drag, orphan>>

\* The component answers that it is, or is not, initialised.
Hydrated(ok) ==
    /\ ready = "init"
    /\ ready' = IF ok THEN "yes" ELSE "no"
    /\ wanted' = FALSE
    /\ UNCHANGED <<lifeVars, maximized, focusVars, drag, orphan>>

OrphanAnswered ==
    /\ orphan
    /\ orphan' = FALSE
    /\ UNCHANGED <<lifeVars, maximized, focusVars, drag, ready, wanted>>

-----------------------------------------------------------------------------
(* Properties *)

\* A window that is neither closed nor minimized is on the page and can be used;
\* any other one cannot be used, and is gone once its exit animation is over,
\* whatever opening, restoring, closing and minimizing interrupted each other.
\* Only a window that is there, and not maximized, follows the pointer.
ShownAsMeant ==
    /\ inert = Windows \ Present
    /\ \A w \in Windows :
          /\ w \in Present => w \in displayed \ exiting
          /\ w \notin Present /\ exit[w] = "none" => w \notin displayed \cup exiting
    /\ drag # NoWindow => drag \in Present \ maximized

\* As long as a window is there one of them is active; it is the one with the
\* focused class, which the shortcuts of the file manager go by, and the one in
\* front.
ActiveInFront ==
    /\ active = NoWindow <=> Present = {}
    /\ active # NoWindow =>
          /\ active \in Present
          /\ focused = {active}
          /\ \A w \in Present \ {active} : zIndex[w] < zIndex[active]
    /\ \A w \in focused : w # active => exit[w] = "close"
=============================================================================
