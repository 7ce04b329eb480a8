-------------------------------- MODULE Desktop --------------------------------
(***************************************************************************)
(* The desktop: the windows and the dialogs over them.  The two meet in    *)
(* what the user can reach (no window while a dialog or the lock screen    *)
(* covers it), in the shortcuts, which work all the same, and in the menu  *)
(* actions that open a window and then a dialog of it.                     *)
(***************************************************************************)
EXTENDS WindowManager, Dialogs

CONSTANT MaxInputs      \* bound: how often the user acts

ASSUME InputsAssumption == MaxInputs \in Nat

VARIABLE inputs         \* how often the user acted

vars == <<windowVars, dialogVars, inputs>>

Init == WindowsInit /\ DialogsInit /\ inputs = 0

\* The mouse reaches the windows, the dock and the menus.
UserOfWindows ==
    /\ AtDesktop
    /\ \/ \E w \in Windows :
             \/ ToggleWindow(w) \/ Focus(w) \/ CloseWindow(w) \/ MinimizeWindow(w)
             \/ ToggleMaximize(w) \/ StartDrag(w)
       \/ ShowDesktop
    /\ UNCHANGED dialogVars

\* The shortcuts for minimizing and for the desktop, and the end of a drag.
Anywhere ==
    /\ \/ active # NoWindow /\ MinimizeWindow(active)
       \/ ShowDesktop
       \/ FinishDrag
    /\ UNCHANGED dialogVars

Page ==
    /\ (\E w \in Windows : Exited(w)) \/ Painted
    /\ UNCHANGED dialogVars

\* handleAction("new-download"): the window, and when it is ready and still
\* active the button of its dialog.
NewDownload ==
    /\ AtDesktop
    /\ \/ OpenClosed(Downloads, TRUE) /\ UNCHANGED dialogVars
       \/ /\ Downloads \in open
          /\ Appear(Downloads)
          /\ wanted' = (wanted \/ ready \in {"paint", "init"})
          /\ UNCHANGED <<open, maximized, drag, ready, orphan>>
          /\ IF ready = "yes" THEN PressForm("add") ELSE UNCHANGED dialogVars

\* The answer to those who waited.
ThenAdd(waits, ok) ==
    IF waits /\ ok /\ active = Downloads THEN PressForm("add") ELSE UNCHANGED dialogVars

WindowReady(ok) == Hydrated(ok) /\ ThenAdd(wanted, ok)
LateReady(ok)   == OrphanAnswered /\ ThenAdd(TRUE, ok)

\* lockScreen from the menu or the dock, or the session that ends.
Lock == ShowAuth /\ UNCHANGED windowVars

User ==
    /\ inputs < MaxInputs
    /\ inputs' = inputs + 1
    /\ \/ UserOfWindows \/ Anywhere \/ NewDownload \/ Lock
       \/ DialogsInput /\ UNCHANGED windowVars

System ==
    /\ UNCHANGED inputs
    /\ \/ Page
       \/ \E ok \in BOOLEAN : WindowReady(ok) \/ LateReady(ok)
       \/ DialogsAnswer /\ UNCHANGED windowVars

Next == User \/ System

Spec == Init /\ [][Next]_vars

-----------------------------------------------------------------------------
(* Properties *)

\* Every variable stays in its range.
TypeOK == WindowsTypeOK /\ DialogsTypeOK /\ inputs \in Nat
=============================================================================
