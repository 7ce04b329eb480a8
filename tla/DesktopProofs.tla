---------------------------- MODULE DesktopProofs ----------------------------
(***************************************************************************)
(* Windows and dialogs, for any number of windows, of openings of the      *)
(* folder browser and of acts of the user.  The two halves of the desktop  *)
(* share no variable: every step of the whole is a step of one half or of  *)
(* both, and each half is proved on its own.                               *)
(***************************************************************************)
EXTENDS Desktop, FiniteSetTheorems, SequenceTheorems, WellFoundedInduction, TLAPS

-----------------------------------------------------------------------------
(* The windows *)

\* NewDownload, when the window of the download manager is open already.
Raise ==
    /\ Downloads \in open
    /\ Appear(Downloads)
    /\ wanted' = (wanted \/ ready \in {"paint", "init"})
    /\ UNCHANGED <<open, maximized, drag, ready, orphan>>

OfWindow(w) ==
    \/ Focus(w) \/ OpenClosed(w, FALSE) \/ Restore(w) \/ CloseWindow(w)
    \/ MinimizeWindow(w) \/ Exited(w) \/ ToggleMaximize(w) \/ StartDrag(w)

WindowsNext ==
    \/ \E w \in Windows : OfWindow(w)
    \/ OpenClosed(Downloads, TRUE) \/ Raise
    \/ ShowDesktop \/ FinishDrag
    \/ Painted \/ OrphanAnswered \/ \E ok \in BOOLEAN : Hydrated(ok)

\* An exit animation is still that of what was done last to its window.
ExitsAreMeant ==
    \A w \in Windows :
        /\ exit[w] = "close" => w \notin open
        /\ exit[w] = "minimize" => w \in minimized

WindowsInv == WindowsTypeOK /\ ExitsAreMeant /\ ShownAsMeant /\ ActiveInFront

\* The largest of some windows is one of them.
LEMMA LastOfIsOneOf ==
    ASSUME NEW S, S \subseteq Windows, S # {}
    PROVE  LastOf(S) \in S
<1>. DEFINE T == {n \in Nat : \E w \in S : n = NumWindows - w}
<1>1. T \subseteq Nat /\ T # {}
  <2>1. PICK w \in S : TRUE
    OBVIOUS
  <2>2. NumWindows - w \in Nat
    BY <2>1, WindowsAssumption DEF Windows
  <2>. QED  BY <2>2
<1>2. PICK x \in T : \A y \in T : ~ (<<y, x>> \in OpToRel(<, Nat))
  BY <1>1, NatLessThanWellFounded, WFMin, Zenon
<1>3. \A y \in T : ~ (y < x)
  BY <1>1, <1>2 DEF OpToRel
<1>4. PICK w \in S : x = NumWindows - w
  OBVIOUS
<1>5. \A v \in S : v <= w
  <2>. TAKE v \in S
  <2>1. NumWindows - v \in T
    BY WindowsAssumption DEF Windows
  <2>2. ~ (NumWindows - v < NumWindows - w)
    BY <1>3, <1>4, <2>1
  <2>. QED  BY <2>2, WindowsAssumption DEF Windows
<1>. QED  BY <1>5 DEF LastOf

LEMMA WindowFacts == /\ NoWindow \notin Windows
                     /\ Downloads \in Windows
  BY WindowsAssumption DEF Windows, NoWindow

\* What the focus variables range over.
FocusTypeOK ==
    /\ focused \subseteq Windows
    /\ active \in Windows \cup {NoWindow}
    /\ zIndexCounter \in Nat
    /\ zIndex \in [Windows -> 0 .. zIndexCounter]

\* w is active, alone has the class and is in front.
InFront(w) ==
    /\ active = w /\ focused = {w}
    /\ \A v \in Windows \ {w} : zIndex[v] < zIndex[w]

LEMMA FocusOnFacts ==
    ASSUME FocusTypeOK, NEW w \in Windows, FocusOn(w)
    PROVE  FocusTypeOK' /\ InFront(w)'
<1>1. zIndexCounter' = zIndexCounter + 1 /\ zIndexCounter' \in Nat
  BY DEF FocusOn, FocusTypeOK
<1>2. zIndex'[w] = zIndexCounter' /\ \A v \in Windows \ {w} : zIndex'[v] = zIndex[v]
  BY <1>1 DEF FocusOn, FocusTypeOK
<1>3. \A v \in Windows : zIndex[v] \in Nat /\ zIndex[v] <= zIndexCounter
  BY DEF FocusTypeOK
<1>4. \A v \in Windows \ {w} : zIndex'[v] < zIndex'[w]
  BY <1>1, <1>2, <1>3 DEF FocusTypeOK
<1>5. zIndex' \in [Windows -> 0 .. zIndexCounter']
  BY <1>1, <1>3 DEF FocusOn, FocusTypeOK
<1>. QED  BY <1>1, <1>4, <1>5 DEF FocusOn, FocusTypeOK, InFront

LEMMA FocusNextFacts ==
    ASSUME FocusTypeOK, NEW rest, rest \subseteq Windows,
           NEW classes, classes \subseteq Windows, FocusNext(rest, classes)
    PROVE  /\ FocusTypeOK'
           /\ \/ rest = {} /\ active' = NoWindow /\ focused' = classes
              \/ \E w \in rest : InFront(w)'
<1>1. CASE rest = {}
  BY <1>1 DEF FocusNext, FocusTypeOK
<1>2. CASE rest # {}
  BY <1>2, LastOfIsOneOf, FocusOnFacts DEF FocusNext
<1>. QED  BY <1>1, <1>2

LEMMA TypeHasFocus == WindowsTypeOK => FocusTypeOK
  BY DEF WindowsTypeOK, FocusTypeOK

LEMMA WindowsInitInv == WindowsInit => WindowsInv
<1>. SUFFICES ASSUME WindowsInit PROVE WindowsInv
  OBVIOUS
<1>. USE DEF WindowsInit
<1>1. WindowsTypeOK
  <2>1. exit \in [Windows -> {"none", "close", "minimize"}] /\ zIndex \in [Windows -> 0 .. zIndexCounter]
    OBVIOUS
  <2>2. wanted \in BOOLEAN /\ orphan \in BOOLEAN
    BY Zenon
  <2>. QED  BY <2>1, <2>2 DEF WindowsTypeOK
<1>2. ExitsAreMeant
  BY DEF ExitsAreMeant
<1>3. ShownAsMeant
  BY DEF ShownAsMeant, Present
<1>4. ActiveInFront
  BY DEF ActiveInFront, Present
<1>. QED  BY <1>1, <1>2, <1>3, <1>4 DEF WindowsInv

\* A step that takes the focus nowhere, or to a window that is present after it.
LEMMA FocusKept ==
    ASSUME NEW w \in Windows, InFront(w)', w \in Present', Present' \subseteq Windows
    PROVE  ActiveInFront'
  BY WindowFacts DEF InFront, ActiveInFront, Present

LEMMA AppearInv ==
    ASSUME WindowsInv, NEW w \in Windows, Appear(w),
           open' = open \cup {w}, UNCHANGED <<maximized, drag>>
    PROVE  /\ FocusTypeOK' /\ ExitsAreMeant' /\ ShownAsMeant' /\ ActiveInFront'
           /\ minimized' \subseteq open'
<1>. USE DEF WindowsInv, WindowsTypeOK
<1>1. FocusTypeOK' /\ InFront(w)'
  BY TypeHasFocus, FocusOnFacts DEF Appear
<1>2. Present' = Present \cup {w} /\ minimized' \subseteq open' /\ Present' \subseteq Windows
  BY DEF Appear, Present
<1>3. ActiveInFront'
  BY <1>1, <1>2, FocusKept
<1>4. ExitsAreMeant'
  BY DEF Appear, ExitsAreMeant
<1>5. ShownAsMeant'
  BY <1>2 DEF Appear, ShownAsMeant
<1>. QED  BY <1>1, <1>2, <1>3, <1>4, <1>5

LEMMA OpeningInv ==
    ASSUME WindowsInv
    PROVE  /\ \A w \in Windows, want \in BOOLEAN : OpenClosed(w, want) => WindowsInv'
           /\ \A w \in Windows : Restore(w) => WindowsInv'
           /\ Raise => WindowsInv'
<1>. USE DEF WindowsInv
<1>1. ASSUME NEW w \in Windows, NEW want \in BOOLEAN, OpenClosed(w, want) PROVE WindowsInv'
  <2>1. Appear(w) /\ open' = open \cup {w} /\ UNCHANGED <<maximized, drag>>
    BY <1>1 DEF OpenClosed
  <2>2. /\ ready' \in {"none", "paint", "init", "yes", "no"}
        /\ wanted' \in BOOLEAN /\ orphan' \in BOOLEAN
    BY <1>1 DEF OpenClosed, NewReady, readyVars, WindowsTypeOK
  <2>3. WindowsTypeOK'
    BY <2>1, <2>2, AppearInv DEF Appear, FocusTypeOK, WindowsTypeOK
  <2>. QED  BY <2>1, <2>3, AppearInv
<1>2. ASSUME NEW w \in Windows, Restore(w) PROVE WindowsInv'
  <2>1. Appear(w) /\ open' = open \cup {w} /\ UNCHANGED <<maximized, drag>>
    BY <1>2 DEF Restore, WindowsTypeOK
  <2>2. WindowsTypeOK'
    BY <1>2, <2>1, AppearInv DEF Restore, readyVars, Appear, FocusTypeOK, WindowsTypeOK
  <2>. QED  BY <2>1, <2>2, AppearInv
<1>3. ASSUME Raise PROVE WindowsInv'
  <2>1. Appear(Downloads) /\ open' = open \cup {Downloads} /\ UNCHANGED <<maximized, drag>>
    BY <1>3 DEF Raise
  <2>2. WindowsTypeOK'
    BY <1>3, <2>1, AppearInv, WindowFacts DEF Raise, Appear, FocusTypeOK, WindowsTypeOK
  <2>. QED  BY <2>1, <2>2, AppearInv, WindowFacts
<1>. QED  BY <1>1, <1>2, <1>3

LEMMA CloseWindowInv ==
    ASSUME WindowsInv, NEW w \in Windows, CloseWindow(w)
    PROVE  WindowsInv'
<1>. USE DEF WindowsInv
<1>1. Present' = Present \ {w} /\ minimized' \subseteq open' /\ open' \subseteq Windows
  BY DEF CloseWindow, Present, WindowsTypeOK
<1>2. /\ inert' \subseteq Windows /\ displayed' \subseteq Windows /\ exiting' \subseteq Windows
      /\ exit' \in [Windows -> {"none", "close", "minimize"}]
  BY DEF CloseWindow, WindowsTypeOK
<1>3. FocusTypeOK'
      /\ \/ active # w /\ UNCHANGED focusVars
         \/ active = w /\ Present' = {} /\ active' = NoWindow /\ focused' = focused
         \/ active = w /\ \E v \in Present' : InFront(v)'
  <2>1. CASE active = w
    BY <1>1, <2>1, TypeHasFocus, FocusNextFacts DEF CloseWindow, Present, WindowsTypeOK
  <2>2. CASE active # w
    BY <2>2, TypeHasFocus DEF CloseWindow, focusVars, FocusTypeOK
  <2>. QED  BY <2>1, <2>2
<1>4. WindowsTypeOK'
  BY <1>1, <1>2, <1>3 DEF CloseWindow, readyVars, FocusTypeOK, WindowsTypeOK
<1>5. ExitsAreMeant'
  BY DEF CloseWindow, ExitsAreMeant, WindowsTypeOK
<1>6. ShownAsMeant'
  <2>1. inert' = Windows \ Present' /\ drag' = NoWindow
    BY <1>1 DEF CloseWindow, ShownAsMeant
  <2>2. ASSUME NEW v \in Windows
        PROVE  /\ v \in Present' => v \in displayed' \ exiting'
               /\ v \notin Present' /\ exit'[v] = "none" => v \notin displayed' \cup exiting'
    <3>1. CASE v # w
      BY <1>1, <3>1 DEF CloseWindow, ShownAsMeant, WindowsTypeOK
    <3>2. CASE v = w
      BY <1>1, <3>2 DEF CloseWindow, WindowsTypeOK
    <3>. QED  BY <3>1, <3>2
  <2>. QED  BY <2>1, <2>2 DEF ShownAsMeant
<1>7. ActiveInFront'
  <2>1. CASE active # w /\ UNCHANGED focusVars
    <3>1. active' = NoWindow <=> Present' = {}
      BY <1>1, <2>1 DEF focusVars, ActiveInFront
    <3>2. active' # NoWindow => active' \in Present'
      BY <1>1, <2>1 DEF focusVars, ActiveInFront
    <3>3. \A v \in focused' : v # active' => exit'[v] = "close"
      BY <2>1 DEF CloseWindow, focusVars, ActiveInFront, ExitsAreMeant, WindowsTypeOK
    <3>. QED  BY <1>1, <2>1, <3>1, <3>2, <3>3 DEF focusVars, ActiveInFront
  <2>2. CASE active = w /\ Present' = {} /\ active' = NoWindow /\ focused' = focused
    <3>1. focused = {w} /\ w \in Present
      BY <2>2, WindowFacts DEF ActiveInFront
    <3>2. exit'[w] = "close"
      BY <3>1 DEF CloseWindow, Present, WindowsTypeOK
    <3>. QED  BY <2>2, <3>1, <3>2 DEF ActiveInFront
  <2>3. CASE active = w /\ \E v \in Present' : InFront(v)'
    BY <1>1, <2>3, FocusKept DEF Present, WindowsTypeOK
  <2>. QED  BY <1>3, <2>1, <2>2, <2>3
<1>. QED  BY <1>4, <1>5, <1>6, <1>7

\* What leaves, one window or all of them, is inert and exiting until it is gone.
LEMMA LeaveInv ==
    ASSUME WindowsInv, NEW S, S \subseteq Present, Leave(S)
    PROVE  /\ Present' = Present \ S
           /\ ExitsAreMeant' /\ ShownAsMeant'
           /\ FocusTypeOK' => WindowsTypeOK'
<1>. USE DEF WindowsInv
<1>1. Present' = Present \ S /\ minimized' \subseteq open'
  BY DEF Leave, Present, WindowsTypeOK
<1>2. /\ exit' \in [Windows -> {"none", "close", "minimize"}]
      /\ \A v \in Windows : exit'[v] = IF v \in S THEN "minimize" ELSE exit[v]
  BY DEF Leave, WindowsTypeOK
<1>3. FocusTypeOK' => WindowsTypeOK'
  BY <1>1, <1>2 DEF Leave, Present, readyVars, FocusTypeOK, WindowsTypeOK
<1>4. ExitsAreMeant'
  BY <1>2 DEF Leave, Present, ExitsAreMeant
<1>5. ShownAsMeant'
  <2>1. inert' = Windows \ Present' /\ drag' = NoWindow
    BY <1>1 DEF Leave, ShownAsMeant, Present, WindowsTypeOK
  <2>2. ASSUME NEW v \in Windows
        PROVE  /\ v \in Present' => v \in displayed' \ exiting'
               /\ v \notin Present' /\ exit'[v] = "none" => v \notin displayed' \cup exiting'
    BY <1>1, <1>2 DEF Leave, ShownAsMeant
  <2>. QED  BY <2>1, <2>2 DEF ShownAsMeant
<1>. QED  BY <1>1, <1>3, <1>4, <1>5

LEMMA MinimizeWindowInv ==
    ASSUME WindowsInv, NEW w \in Windows, MinimizeWindow(w)
    PROVE  WindowsInv'
<1>. USE DEF WindowsInv
<1>1. /\ Present' = Present \ {w}
      /\ ExitsAreMeant' /\ ShownAsMeant'
      /\ FocusTypeOK' => WindowsTypeOK'
  BY LeaveInv DEF MinimizeWindow
<1>2. /\ FocusTypeOK'
      /\ \/ Present' = {} /\ active' = NoWindow /\ focused' = focused \ {w}
         \/ \E v \in Present' : InFront(v)'
  BY <1>1, TypeHasFocus, FocusNextFacts DEF MinimizeWindow, Present, WindowsTypeOK
<1>3. ActiveInFront'
  <2>1. CASE Present' = {} /\ active' = NoWindow /\ focused' = focused \ {w}
    <3>1. Present = {w} /\ active = w
      BY <1>1, <2>1 DEF ActiveInFront, MinimizeWindow
    <3>2. focused' = {}
      BY <2>1, <3>1, WindowFacts DEF ActiveInFront
    <3>. QED  BY <2>1, <3>2 DEF ActiveInFront
  <2>2. CASE \E v \in Present' : InFront(v)'
    BY <1>1, <2>2, FocusKept DEF Present, WindowsTypeOK
  <2>. QED  BY <1>2, <2>1, <2>2
<1>. QED  BY <1>1, <1>2, <1>3

LEMMA ShowDesktopInv == ASSUME WindowsInv, ShowDesktop PROVE WindowsInv'
<1>. USE DEF WindowsInv
<1>1. /\ Present' = {}
      /\ ExitsAreMeant' /\ ShownAsMeant'
      /\ FocusTypeOK' => WindowsTypeOK'
  BY LeaveInv DEF ShowDesktop
<1>2. ActiveInFront'
  BY <1>1 DEF ShowDesktop, ActiveInFront
<1>3. FocusTypeOK'
  <2>1. IsFiniteSet(Present)
    <3>1. IsFiniteSet(Windows)
      BY WindowsAssumption, FS_Interval DEF Windows
    <3>2. Present \subseteq Windows
      BY DEF Present, WindowsTypeOK
    <3>. QED  BY <3>1, <3>2, FS_Subset
  <2>2. Cardinality(Present) \in Nat /\ Cardinality(Present) # 0
    BY <2>1, FS_CardinalityType, FS_EmptySet DEF ShowDesktop
  <2>3. zIndexCounter' \in Nat /\ zIndexCounter <= zIndexCounter'
    BY <2>2 DEF ShowDesktop, WindowsTypeOK
  <2>4. zIndex' \in [Windows -> 0 .. zIndexCounter']
    <3>1. zIndex \in [Windows -> 0 .. zIndexCounter']
      BY <2>3 DEF WindowsTypeOK
    <3>2. zIndex' = zIndex \/ zIndex' = [zIndex EXCEPT ![LastOf(Present)] = zIndexCounter']
      BY DEF ShowDesktop
    <3>. QED  BY <2>3, <3>1, <3>2
  <2>. QED  BY <2>3, <2>4 DEF ShowDesktop, FocusTypeOK
<1>. QED  BY <1>1, <1>2, <1>3

LEMMA ExitedInv == ASSUME WindowsInv, NEW w \in Windows, Exited(w) PROVE WindowsInv'
<1>. USE DEF WindowsInv
<1>1. /\ exit' = [exit EXCEPT ![w] = "none"]
      /\ exit' \in [Windows -> {"none", "close", "minimize"}]
      /\ Present' = Present /\ w \notin Present
  BY DEF Exited, WindowsTypeOK, ExitsAreMeant, Present
<1>2. /\ displayed' = displayed \ {w} /\ exiting' = exiting \ {w}
      /\ focused' = focused \ {w} \/ (focused' = focused /\ exit[w] = "minimize")
  <2>1. CASE exit[w] = "close"
    <3>1. w \notin open
      BY <2>1 DEF ExitsAreMeant
    <3>. QED  BY <2>1, <3>1 DEF Exited
  <2>2. CASE exit[w] = "minimize"
    <3>1. w \in minimized
      BY <2>2 DEF ExitsAreMeant
    <3>. QED  BY <2>2, <3>1 DEF Exited
  <2>. QED  BY <2>1, <2>2 DEF Exited, WindowsTypeOK
<1>3. WindowsTypeOK'
  BY <1>1, <1>2 DEF Exited, readyVars, WindowsTypeOK
<1>4. ExitsAreMeant'
  BY <1>1 DEF Exited, WindowsTypeOK, ExitsAreMeant
<1>5. ShownAsMeant'
  BY <1>1, <1>2 DEF Exited, WindowsTypeOK, ShownAsMeant
<1>6. ActiveInFront'
  <2>1. active' = active /\ zIndex' = zIndex /\ active # w
    BY <1>1, WindowFacts DEF Exited, ActiveInFront
  <2>2. active # NoWindow => focused' = {active}
    BY <1>2, <2>1 DEF ActiveInFront
  <2>3. \A v \in focused' : v # active => v # w /\ exit[v] = "close"
    BY <1>2, <2>1 DEF ActiveInFront
  <2>4. \A v \in focused' : v # active => exit'[v] = "close"
    BY <1>1, <2>3 DEF WindowsTypeOK
  <2>. QED  BY <1>1, <2>1, <2>2, <2>4 DEF ActiveInFront
<1>. QED  BY <1>3, <1>4, <1>5, <1>6

LEMMA FocusInv ==
    ASSUME WindowsInv, NEW w \in Windows, Focus(w) \/ StartDrag(w)
    PROVE  WindowsInv'
<1>. USE DEF WindowsInv
<1>1. /\ w \in Present /\ FocusOn(w)
      /\ UNCHANGED <<lifeVars, maximized, readyVars>>
      /\ drag' = drag \/ (drag' = w /\ w \notin maximized)
  <2>1. CASE Focus(w)
    BY <2>1 DEF Focus
  <2>2. CASE StartDrag(w)
    BY <2>2 DEF StartDrag
  <2>. QED  BY <2>1, <2>2
<1>2. FocusTypeOK' /\ InFront(w)'
  BY <1>1, TypeHasFocus, FocusOnFacts
<1>3. Present' = Present
  BY <1>1 DEF lifeVars, Present
<1>4. WindowsTypeOK'
  BY <1>1, <1>2 DEF lifeVars, readyVars, FocusTypeOK, WindowsTypeOK
<1>5. ExitsAreMeant' /\ ShownAsMeant'
  BY <1>1, <1>3 DEF lifeVars, ExitsAreMeant, ShownAsMeant
<1>6. ActiveInFront'
  BY <1>1, <1>2, <1>3, FocusKept DEF Present, WindowsTypeOK
<1>. QED  BY <1>4, <1>5, <1>6

\* What touches neither the life of a window nor the focus.
LEMMA OtherWindowInv ==
    ASSUME WindowsInv,
           \/ \E w \in Windows : ToggleMaximize(w)
           \/ FinishDrag \/ Painted \/ OrphanAnswered
           \/ \E ok \in BOOLEAN : Hydrated(ok)
           \/ UNCHANGED windowVars
    PROVE  WindowsInv'
<1>. USE DEF WindowsInv
<1>1. UNCHANGED lifeVars /\ UNCHANGED focusVars
  BY DEF ToggleMaximize, FinishDrag, Painted, OrphanAnswered, Hydrated, windowVars
<1>2. Present' = Present
  BY <1>1 DEF lifeVars, Present
<1>3. /\ maximized' \subseteq Windows
      /\ drag' = NoWindow \/ (drag' = drag /\ maximized' = maximized)
  <2>1. ASSUME NEW w \in Windows, ToggleMaximize(w)
        PROVE  maximized' \subseteq Windows /\ drag' = NoWindow
    BY <2>1 DEF ToggleMaximize, WindowsTypeOK
  <2>2. CASE \/ FinishDrag \/ Painted \/ OrphanAnswered
             \/ \E ok \in BOOLEAN : Hydrated(ok)
             \/ UNCHANGED windowVars
    BY <2>2 DEF FinishDrag, Painted, OrphanAnswered, Hydrated, windowVars, WindowsTypeOK
  <2>. QED  BY <2>1, <2>2
<1>4. /\ ready' \in {"none", "paint", "init", "yes", "no"}
      /\ wanted' \in BOOLEAN /\ orphan' \in BOOLEAN
  BY DEF ToggleMaximize, FinishDrag, Painted, OrphanAnswered, Hydrated, windowVars,
         readyVars, WindowsTypeOK
<1>5. WindowsTypeOK'
  BY <1>1, <1>3, <1>4 DEF lifeVars, focusVars, WindowsTypeOK
<1>6. ExitsAreMeant' /\ ShownAsMeant' /\ ActiveInFront'
  BY <1>1, <1>2, <1>3 DEF lifeVars, focusVars, ExitsAreMeant, ShownAsMeant, ActiveInFront
<1>. QED  BY <1>5, <1>6

LEMMA WindowsNextInv == WindowsInv /\ [WindowsNext]_windowVars => WindowsInv'
<1>. SUFFICES ASSUME WindowsInv, [WindowsNext]_windowVars PROVE WindowsInv'
  OBVIOUS
<1>1. ASSUME NEW w \in Windows, OfWindow(w) PROVE WindowsInv'
  BY <1>1, FocusInv, OpeningInv, CloseWindowInv, MinimizeWindowInv, ExitedInv, OtherWindowInv
  DEF OfWindow
<1>2. CASE OpenClosed(Downloads, TRUE) \/ Raise
  BY <1>2, WindowFacts, OpeningInv
<1>3. CASE ShowDesktop
  BY <1>3, ShowDesktopInv
<1>4. CASE \/ FinishDrag \/ Painted \/ OrphanAnswered
           \/ \E ok \in BOOLEAN : Hydrated(ok)
           \/ UNCHANGED windowVars
  BY <1>4, OtherWindowInv
<1>. QED  BY <1>1, <1>2, <1>3, <1>4 DEF WindowsNext

-----------------------------------------------------------------------------
(* The stack of dialogs *)

DialogsNext ==
    \/ DialogsInput \/ DialogsAnswer
    \/ ShowAuth \/ \E m \in Forms : PressForm(m)

\* Dialogs, each once, of which the top one alone can be used.
StackInv ==
    /\ screen \in {"auth", "app"}
    /\ stack \in Seq(Modals)
    /\ late \subseteq Modals
    /\ UsableDialogs

LEMMA TopFacts ==
    ASSUME NEW s \in Seq(Modals)
    PROVE  /\ Top(s) \subseteq ToSet(s) /\ ToSet(s) \subseteq Modals
           /\ s = <<>> <=> Top(s) = {}
  BY DEF Top, ToSet, Last

\* Opening puts a dialog that is not there on top.
LEMMA AppendFacts ==
    ASSUME NEW s \in Seq(Modals), IsInjective(s), NEW m \in Modals, m \notin ToSet(s)
    PROVE  /\ Append(s, m) \in Seq(Modals) /\ IsInjective(Append(s, m))
           /\ ToSet(Append(s, m)) = ToSet(s) \cup {m}
           /\ Top(Append(s, m)) = {m}
<1>. DEFINE r == Append(s, m)
<1>1. /\ r \in Seq(Modals) /\ Len(r) = Len(s) + 1 /\ DOMAIN r = 1 .. Len(s) + 1
      /\ r[Len(s) + 1] = m /\ \A i \in 1 .. Len(s) : r[i] = s[i]
  OBVIOUS
<1>2. DOMAIN s = 1 .. Len(s) /\ Len(s) \in Nat
  OBVIOUS
<1>3. \A i \in 1 .. Len(s) : s[i] # m
  BY <1>2 DEF ToSet
<1>. HIDE DEF r
<1>4. IsInjective(r)
  BY <1>1, <1>2, <1>3 DEF IsInjective
<1>5. ToSet(r) = ToSet(s) \cup {m}
  <2>1. ToSet(r) \subseteq ToSet(s) \cup {m}
    BY <1>1, <1>2 DEF ToSet
  <2>2. ToSet(s) \cup {m} \subseteq ToSet(r)
    BY <1>1, <1>2 DEF ToSet
  <2>. QED  BY <2>1, <2>2
<1>6. Top(r) = {m}
  BY <1>1, <1>2 DEF Top, Last
<1>. QED  BY <1>1, <1>4, <1>5, <1>6 DEF r

\* Closing takes a dialog away and leaves the order of the others.
LEMMA RemoveFacts ==
    ASSUME NEW s \in Seq(Modals), IsInjective(s), NEW m \in Modals
    PROVE  LET r == RemoveFirst(s, m) IN
           /\ r \in Seq(Modals) /\ IsInjective(r)
           /\ ToSet(r) = ToSet(s) \ {m}
           /\ \A n \in Modals \ {m} : n \in Top(s) => n \in Top(r)
<1>. DEFINE r == RemoveFirst(s, m)
<1>0. DOMAIN s = 1 .. Len(s) /\ Len(s) \in Nat
  OBVIOUS
<1>1. CASE m \notin ToSet(s)
  <2>1. r = s
    BY <1>0, <1>1 DEF RemoveFirst, ToSet
  <2>. QED  BY <1>1, <2>1
<1>2. CASE m \in ToSet(s)
  <2>1. PICK k \in 1 .. Len(s) : s[k] = m
    BY <1>0, <1>2 DEF ToSet
  <2>0. k \in Int /\ Len(s) \in Int /\ 1 <= k /\ k <= Len(s)
    BY <1>0, <2>1
  <2>2. \A i \in 1 .. Len(s) : s[i] = m <=> i = k
    BY <1>0, <2>1 DEF IsInjective
  <2>3. SelectInSeq(s, LAMBDA v : v = m) = k
    <3>1. {i \in 1 .. Len(s) : s[i] = m} = {k}
      BY <2>2
    <3>. QED  BY <3>1 DEF SelectInSeq, Min
  <2>4. r = RemoveAt(s, k)
    BY <2>1, <2>3 DEF RemoveFirst
  <2>5. /\ r \in Seq(Modals) /\ Len(r) = Len(s) - 1 /\ DOMAIN r = 1 .. Len(s) - 1
        /\ \A i \in 1 .. Len(s) - 1 : r[i] = IF i < k THEN s[i] ELSE s[i + 1]
    <3>. DEFINE a == SubSeq(s, 1, k - 1)
                b == SubSeq(s, k + 1, Len(s))
    <3>1. a \in Seq(Modals) /\ Len(a) = k - 1 /\ \A i \in 1 .. k - 1 : a[i] = s[i]
      BY <1>0
    <3>2. /\ b \in Seq(Modals) /\ Len(b) = Len(s) - k
          /\ \A i \in 1 .. Len(s) - k : b[i] = s[k + i]
      <4>1. \A i \in k + 1 .. Len(s) : s[i] \in Modals
        BY <2>0
      <4>2. /\ b \in Seq(Modals)
            /\ Len(b) = IF k + 1 <= Len(s) THEN Len(s) - (k + 1) + 1 ELSE 0
            /\ \A i \in 1 .. Len(s) - (k + 1) + 1 : b[i] = s[(k + 1) + i - 1]
        BY <2>0, <4>1, SubSeqProperties DEF b
      <4>. QED  BY <2>0, <4>2
    <3>3. r = a \o b
      BY <2>4 DEF RemoveAt
    <3>. HIDE DEF a, b, r
    <3>4. /\ r \in Seq(Modals) /\ Len(r) = (k - 1) + (Len(s) - k)
          /\ \A i \in 1 .. (k - 1) + (Len(s) - k) :
                r[i] = IF i <= k - 1 THEN a[i] ELSE b[i - (k - 1)]
      <4>1. /\ a \o b \in Seq(Modals) /\ Len(a \o b) = Len(a) + Len(b)
            /\ \A i \in 1 .. Len(a) + Len(b) :
                  (a \o b)[i] = IF i <= Len(a) THEN a[i] ELSE b[i - Len(a)]
        BY <3>1, <3>2, ConcatProperties, Zenon
      <4>. QED  BY <3>1, <3>2, <3>3, <4>1, Zenon
    <3>5. (k - 1) + (Len(s) - k) = Len(s) - 1
      BY <2>0
    <3>6. ASSUME NEW i \in 1 .. Len(s) - 1 PROVE r[i] = IF i < k THEN s[i] ELSE s[i + 1]
      <4>1. CASE i < k
        BY <2>0, <3>1, <3>4, <3>5, <4>1
      <4>2. CASE ~ (i < k)
        <5>1. i - (k - 1) \in 1 .. Len(s) - k /\ k + (i - (k - 1)) = i + 1 /\ ~ (i <= k - 1)
          BY <2>0, <4>2
        <5>2. r[i] = b[i - (k - 1)]
          BY <3>4, <3>5, <5>1
        <5>. QED  BY <3>2, <4>2, <5>1, <5>2
      <4>. QED  BY <4>1, <4>2
    <3>7. DOMAIN r = 1 .. Len(r)
      BY <3>4
    <3>. QED  BY <3>4, <3>5, <3>6, <3>7
  <2>. HIDE DEF r
  <2>6. IsInjective(r)
    BY <1>0, <2>5 DEF IsInjective
  <2>7. ToSet(r) = ToSet(s) \ {m}
    <3>1. ASSUME NEW n \in ToSet(r) PROVE n \in ToSet(s) \ {m}
      BY <1>0, <2>2, <2>5, <3>1 DEF ToSet
    <3>2. ASSUME NEW n \in ToSet(s) \ {m} PROVE n \in ToSet(r)
      <4>1. PICK i \in 1 .. Len(s) : s[i] = n /\ i # k
        BY <1>0, <2>1, <3>2 DEF ToSet
      <4>2. CASE i < k
        BY <1>0, <2>1, <2>5, <4>1, <4>2 DEF ToSet
      <4>3. CASE i > k
        <5>1. i - 1 \in DOMAIN r /\ r[i - 1] = s[i]
          BY <1>0, <2>1, <2>5, <4>1, <4>3
        <5>. QED  BY <4>1, <5>1 DEF ToSet
      <4>. QED  BY <1>0, <2>1, <4>1, <4>2, <4>3
    <3>. QED  BY <3>1, <3>2
  <2>8. \A n \in Modals \ {m} : n \in Top(s) => n \in Top(r)
    <3>. SUFFICES ASSUME NEW n \in Modals \ {m}, n \in Top(s) PROVE n \in Top(r)
      OBVIOUS
    <3>1. s[Len(s)] = n /\ Len(s) # k
      BY <2>1 DEF Top, Last
    <3>2. Len(r) \in 1 .. Len(s) - 1 /\ r[Len(r)] = n
      <4>1. Len(s) - 1 \in 1 .. Len(s) - 1 /\ ~ (Len(s) - 1 < k) /\ (Len(s) - 1) + 1 = Len(s)
        BY <2>0, <3>1
      <4>. QED  BY <2>5, <3>1, <4>1
    <3>. QED  BY <2>5, <3>2 DEF Top, Last
  <2>. QED  BY <2>5, <2>6, <2>7, <2>8 DEF r
<1>. QED  BY <1>1, <1>2

\* No dialog is there twice, so there are never more than there are dialogs.
LEMMA StackIsShort ==
    ASSUME NEW s \in Seq(Modals), IsInjective(s)
    PROVE  s \in UNION {[1 .. n -> Modals] : n \in 0 .. 4}
<1>1. DOMAIN s = 1 .. Len(s) /\ Len(s) \in Nat /\ s \in [1 .. Len(s) -> Modals]
  OBVIOUS
<1>2. Len(s) <= 4
  <2>. SUFFICES ASSUME Len(s) >= 5 PROVE FALSE
    BY <1>1
  <2>1. \A i, j \in 1 .. 5 : s[i] \in Modals /\ (s[i] = s[j] => i = j)
    BY <1>1 DEF IsInjective
  <2>. QED  BY <2>1 DEF Modals
<1>. QED  BY <1>1, <1>2

LEMMA OpenModalInv ==
    ASSUME StackInv, NEW m \in Modals, OpenModal(m)
    PROVE  /\ StackInv'
           /\ \A n \in Modals : OnTop(n) /\ n # m => OnTop(n)' \/ m \notin ToSet(stack)
           /\ m \notin ToSet(stack) => OnTop(m)'
<1>. USE DEF StackInv, UsableDialogs
<1>1. CASE m \in ToSet(stack)
  BY <1>1 DEF OpenModal, OnTop
<1>2. CASE m \notin ToSet(stack)
  <2>1. /\ stack' = Append(stack, m) /\ screen' = screen
        /\ usable' = (usable \ ToSet(stack')) \cup Top(stack')
        /\ late' = IF screen = "auth" THEN late \cup {m} ELSE late
    BY <1>2 DEF OpenModal, Sync
  <2>2. /\ stack' \in Seq(Modals) /\ IsInjective(stack')
        /\ ToSet(stack') = ToSet(stack) \cup {m} /\ Top(stack') = {m}
    BY <1>2, <2>1, AppendFacts
  <2>3. usable' = Top(stack')
    BY <2>1, <2>2, TopFacts
  <2>. QED  BY <1>2, <2>1, <2>2, <2>3 DEF OnTop
<1>. QED  BY <1>1, <1>2

LEMMA CloseModalInv ==
    ASSUME StackInv, NEW m \in Modals, CloseModal(m)
    PROVE  StackInv' /\ \A n \in Modals \ {m} : OnTop(n) => OnTop(n)'
<1>. USE DEF StackInv, UsableDialogs
<1>1. /\ stack' = RemoveFirst(stack, m) /\ screen' = screen /\ late' = late \ {m}
      /\ usable' = (usable \ ToSet(stack)) \cup Top(stack')
  BY DEF CloseModal
<1>2. /\ stack' \in Seq(Modals) /\ IsInjective(stack')
      /\ ToSet(stack') = ToSet(stack) \ {m}
      /\ \A n \in Modals \ {m} : n \in Top(stack) => n \in Top(stack')
  BY <1>1, RemoveFacts
<1>3. usable' = Top(stack')
  BY <1>1, TopFacts
<1>. QED  BY <1>1, <1>2, <1>3 DEF OnTop

LEMMA ScreenInv ==
    ASSUME StackInv, ShowAuth \/ ShowApp \/ UNCHANGED stackVars
    PROVE  StackInv'
<1>. USE DEF StackInv, UsableDialogs
<1>1. CASE ShowAuth
  <2>1. /\ stack' = <<>> /\ screen' = "auth" /\ late' = {}
        /\ usable' = usable \ ToSet(stack)
    BY <1>1 DEF ShowAuth
  <2>2. usable' = {} /\ Top(stack') = {} /\ ToSet(stack') = {}
    BY <2>1, TopFacts DEF Top, ToSet
  <2>. QED  BY <2>1, <2>2 DEF IsInjective
<1>2. CASE ShowApp
  BY <1>2 DEF ShowApp
<1>3. CASE UNCHANGED stackVars
  BY <1>3 DEF stackVars
<1>. QED  BY <1>1, <1>2, <1>3

-----------------------------------------------------------------------------
(* The question *)

\* A question that nothing covered and no lock hid is on top.
QuestionInv ==
    /\ question \in BOOLEAN /\ hidden \in BOOLEAN /\ covered \in BOOLEAN
    /\ confirmed \in {"no", "seen", "unseen"}
    /\ question /\ ~hidden /\ ~covered => OnTop("confirm")
    /\ EveryQuestionIsOpen
    /\ OnlyAHiddenQuestionIsConfirmedUnseen

QuestionOnly == UNCHANGED <<question, waiting, confirmed>>

\* A dialog that opens covers the question, or the question is below already.
LEMMA OpenFormQuestion ==
    ASSUME StackInv, QuestionInv, NEW m \in Modals \ {"confirm"}, OpenModal(m),
           Cover \/ (UNCHANGED covered /\ ~OnTop("confirm")),
           QuestionOnly, UNCHANGED hidden
    PROVE  QuestionInv'
<1>. USE DEF QuestionInv, QuestionOnly
<1>1. covered' \in BOOLEAN /\ (covered => covered')
      /\ (question /\ ~hidden => covered')
  <2>1. CASE Cover
    BY <2>1, Zenon DEF Cover
  <2>2. CASE UNCHANGED covered /\ ~OnTop("confirm")
    BY <2>2, Zenon
  <2>. QED  BY <2>1, <2>2
<1>2. EveryQuestionIsOpen'
  BY DEF EveryQuestionIsOpen
<1>3. OnlyAHiddenQuestionIsConfirmedUnseen'
  BY <1>1, Zenon DEF OnlyAHiddenQuestionIsConfirmedUnseen
<1>. QED  BY <1>1, <1>2, <1>3, Zenon

LEMMA CloseQuestion ==
    ASSUME StackInv, QuestionInv, NEW m \in Modals \ {"confirm"}, CloseModal(m),
           QuestionOnly, UNCHANGED <<hidden, covered>>
    PROVE  QuestionInv'
  BY CloseModalInv
  DEF QuestionInv, QuestionOnly, EveryQuestionIsOpen, OnlyAHiddenQuestionIsConfirmedUnseen, Modals

LEMMA SameQuestion ==
    ASSUME QuestionInv, UNCHANGED questionVars, UNCHANGED stack
    PROVE  QuestionInv'
  BY DEF QuestionInv, questionVars, EveryQuestionIsOpen, OnTop,
         OnlyAHiddenQuestionIsConfirmedUnseen

LEMMA AskQuestion == ASSUME StackInv, QuestionInv, Ask PROVE QuestionInv'
<1>1. stack = <<>> /\ OpenModal("confirm") /\ "confirm" \in Modals
  BY DEF Ask, AtDesktop, Modals
<1>2. "confirm" \notin ToSet(stack)
  BY <1>1 DEF ToSet
<1>3. OnTop("confirm")'
  BY <1>1, <1>2, OpenModalInv
<1>4. EveryQuestionIsOpen'
  BY DEF Ask, QuestionInv, EveryQuestionIsOpen
<1>5. /\ question' \in BOOLEAN /\ hidden' \in BOOLEAN /\ covered' \in BOOLEAN
      /\ confirmed' = "no"
  BY Zenon DEF Ask
<1>. QED
  BY <1>3, <1>4, <1>5 DEF QuestionInv, OnlyAHiddenQuestionIsConfirmedUnseen

\* The question is answered: nobody waits for it any more.
LEMMA ResolveQuestion ==
    ASSUME StackInv, QuestionInv, question, Cancel \/ Confirm
    PROVE  QuestionInv'
<1>1. question' = FALSE /\ waiting' = 0 /\ UNCHANGED <<hidden, covered>>
  BY DEF Cancel, Confirm, Resolve, QuestionInv, EveryQuestionIsOpen
<1>2. /\ confirmed' \in {"no", "seen", "unseen"}
      /\ confirmed' = "unseen" => hidden \/ covered
  <2>1. CASE Cancel
    BY <2>1 DEF Cancel, QuestionInv, OnlyAHiddenQuestionIsConfirmedUnseen
  <2>2. CASE Confirm
    BY <2>2 DEF Confirm, Operable, OnTop, QuestionInv, StackInv, UsableDialogs
  <2>. QED  BY <2>1, <2>2
<1>. QED
  BY <1>1, <1>2 DEF QuestionInv, EveryQuestionIsOpen, OnlyAHiddenQuestionIsConfirmedUnseen

LEMMA LockedQuestion == ASSUME StackInv, QuestionInv, ShowAuth PROVE QuestionInv'
<1>1. QuestionOnly /\ UNCHANGED covered
  BY DEF ShowAuth, QuestionOnly
<1>2. hidden' \in BOOLEAN /\ (hidden => hidden') /\ (question /\ ~covered => hidden')
  BY TopFacts DEF ShowAuth, QuestionInv, OnTop, StackInv
<1>. QED
  BY <1>1, <1>2
  DEF QuestionInv, QuestionOnly, EveryQuestionIsOpen, OnlyAHiddenQuestionIsConfirmedUnseen

-----------------------------------------------------------------------------
(* The folder browser *)

\* The call whose answer counts is the only one of its kind.  As soon as a
\* directory of this browse was shown, it is one of this browse too, and so is
\* the directory that is shown.
BrowserInv ==
    /\ browse \in Browses /\ callback \in {0, browse} /\ path \in Browses
    /\ loads \subseteq [browse : Browses, live : BOOLEAN]
    /\ creating \subseteq Browses /\ seen \in BOOLEAN
    /\ picked \in [own : BOOLEAN, seen : BOOLEAN]
    /\ \A l, k \in loads : l.live /\ k.live => l = k
    /\ seen => path = browse /\ \A l \in loads : l.live => l.browse = browse
    /\ ChoicesAreOfTheirBrowse

\* A call that was overtaken does not count.
LEMMA StaleFacts ==
    ASSUME NEW l \in [browse : Browses, live : BOOLEAN]
    PROVE  /\ [l EXCEPT !.live = FALSE] \in [browse : Browses, live : BOOLEAN]
           /\ [l EXCEPT !.live = FALSE].live = FALSE
  OBVIOUS

LEMMA LoadFacts ==
    ASSUME NEW b \in Browses, NEW ls, ls \subseteq [browse : Browses, live : BOOLEAN]
    PROVE  /\ Load(b, ls) \subseteq [browse : Browses, live : BOOLEAN]
           /\ \A l \in Load(b, ls) : l.live => l = [browse |-> b, live |-> TRUE]
<1>. SUFFICES ASSUME NEW k \in Load(b, ls)
              PROVE  /\ k \in [browse : Browses, live : BOOLEAN]
                     /\ k.live => k = [browse |-> b, live |-> TRUE]
  OBVIOUS
<1>1. CASE k = [browse |-> b, live |-> TRUE]
  BY <1>1
<1>2. ASSUME NEW l \in ls, k = [l EXCEPT !.live = FALSE]
      PROVE  k \in [browse : Browses, live : BOOLEAN] /\ k.live = FALSE
  BY <1>2, StaleFacts
<1>. QED  BY <1>1, <1>2 DEF Load

LEMMA BrowseInv == ASSUME BrowserInv, Browse PROVE BrowserInv'
<1>1. /\ browse' = browse + 1 /\ callback' = browse' /\ browse' \in Browses
      /\ loads' = Load(browse', loads)
      /\ seen' = FALSE /\ UNCHANGED <<path, creating, picked>>
  BY BrowsesAssumption DEF Browse, BrowserInv, Browses
<1>2. /\ loads' \subseteq [browse : Browses, live : BOOLEAN]
      /\ \A l, k \in loads' : l.live /\ k.live => l = k
  BY <1>1, LoadFacts DEF BrowserInv
<1>. QED  BY <1>1, <1>2 DEF BrowserInv, ChoicesAreOfTheirBrowse

\* A directory of this browse is asked for, or the one that is shown once more.
LEMMA LoadInv ==
    ASSUME BrowserInv, NEW b \in {browse, path}, loads' = Load(b, loads),
           UNCHANGED <<browse, callback, path, seen, picked>>,
           creating' \subseteq Browses
    PROVE  BrowserInv'
<1>1. b \in Browses
  BY DEF BrowserInv
<1>2. /\ loads' \subseteq [browse : Browses, live : BOOLEAN]
      /\ \A l \in loads' : l.live => l = [browse |-> b, live |-> TRUE]
  BY <1>1, LoadFacts DEF BrowserInv
<1>3. \A l, k \in loads' : l.live /\ k.live => l = k
  BY <1>2
<1>4. seen' => path' = browse' /\ \A l \in loads' : l.live => l.browse = browse'
  BY <1>2 DEF BrowserInv
<1>. QED  BY <1>2, <1>3, <1>4 DEF BrowserInv, ChoicesAreOfTheirBrowse

LEMMA ListedInv ==
    ASSUME BrowserInv, NEW l \in loads, Listed(l) \/ ListFails(l)
    PROVE  BrowserInv'
<1>1. loads' = loads \ {l} /\ UNCHANGED <<browse, callback, creating, picked>>
  BY DEF Listed, ListFails
<1>2. l.browse \in Browses /\ l.live \in BOOLEAN
  BY DEF BrowserInv
<1>3. /\ path' \in Browses /\ seen' \in BOOLEAN
      /\ seen' => path' = browse /\ \A k \in loads \ {l} : k.live => k.browse = browse
  <2>1. CASE ListFails(l)
    BY <2>1 DEF ListFails, BrowserInv
  <2>2. CASE Listed(l) /\ l.live
    <3>1. \A k \in loads \ {l} : ~k.live
      BY <2>2 DEF BrowserInv
    <3>2. path' = l.browse /\ seen' = (seen \/ l.browse = browse)
      BY <2>2 DEF Listed
    <3>3. seen' => l.browse = browse
      BY <2>2, <3>2 DEF BrowserInv
    <3>. QED  BY <1>2, <3>1, <3>2, <3>3 DEF BrowserInv
  <2>3. CASE Listed(l) /\ ~l.live
    BY <2>3 DEF Listed, BrowserInv
  <2>. QED  BY <2>1, <2>2, <2>3
<1>. QED  BY <1>1, <1>3 DEF BrowserInv, ChoicesAreOfTheirBrowse

LEMMA CloseBrowserInv ==
    ASSUME BrowserInv, CloseBrowser,
           picked' = picked \/ (picked' = [own |-> path = callback, seen |-> seen]
                                /\ callback # 0)
    PROVE  BrowserInv'
<1>1. /\ loads' = {[l EXCEPT !.live = FALSE] : l \in loads} /\ callback' = 0
      /\ UNCHANGED <<browse, path, creating, seen>>
  BY DEF CloseBrowser
<1>2. ASSUME NEW k \in loads'
      PROVE  k \in [browse : Browses, live : BOOLEAN] /\ k.live = FALSE
  <2>1. PICK l \in loads : k = [l EXCEPT !.live = FALSE]
    BY <1>1
  <2>. QED  BY <2>1, StaleFacts DEF BrowserInv
<1>3. /\ picked' \in [own : BOOLEAN, seen : BOOLEAN]
      /\ picked'.seen => picked'.own
  <2>1. CASE picked' = picked
    BY <2>1 DEF BrowserInv, ChoicesAreOfTheirBrowse
  <2>2. CASE picked' = [own |-> path = callback, seen |-> seen] /\ callback # 0
    <3>1. seen \in BOOLEAN /\ (path = callback) \in BOOLEAN /\ (seen => path = callback)
      BY <2>2 DEF BrowserInv
    <3>2. ASSUME NEW o \in BOOLEAN, NEW s \in BOOLEAN
          PROVE  /\ [own |-> o, seen |-> s] \in [own : BOOLEAN, seen : BOOLEAN]
                 /\ [own |-> o, seen |-> s].own = o /\ [own |-> o, seen |-> s].seen = s
      OBVIOUS
    <3>3. picked' \in [own : BOOLEAN, seen : BOOLEAN]
          /\ picked'.own = (path = callback) /\ picked'.seen = seen
      BY <2>2, <3>1, <3>2, Zenon
    <3>. QED  BY <3>1, <3>3, Zenon
  <2>. QED  BY <2>1, <2>2
<1>. QED  BY <1>1, <1>2, <1>3 DEF BrowserInv, ChoicesAreOfTheirBrowse

LEMMA SameBrowser ==
    ASSUME BrowserInv, UNCHANGED browserVars PROVE BrowserInv'
  BY DEF BrowserInv, browserVars, ChoicesAreOfTheirBrowse

-----------------------------------------------------------------------------
(* All dialogs *)

FormInv == loading \subseteq Forms /\ submitting \subseteq Forms

DialogsInv == StackInv /\ QuestionInv /\ BrowserInv /\ FormInv

LEMMA DialogsInitInv == DialogsInit => DialogsInv
<1>. SUFFICES ASSUME DialogsInit PROVE DialogsInv
  OBVIOUS
<1>1. StackInv
  BY DEF DialogsInit, StackInv, UsableDialogs, IsInjective, Top, ToSet
<1>2. QuestionInv
  BY DEF DialogsInit, QuestionInv, EveryQuestionIsOpen, OnlyAHiddenQuestionIsConfirmedUnseen
<1>3. BrowserInv
  <2>1. NoPick \in [own : BOOLEAN, seen : BOOLEAN] /\ NoPick.own
    BY DEF NoPick
  <2>2. 0 \in Browses
    BY BrowsesAssumption DEF Browses
  <2>. QED  BY <2>1, <2>2, Zenon DEF DialogsInit, BrowserInv, ChoicesAreOfTheirBrowse
<1>. QED  BY <1>1, <1>2, <1>3 DEF DialogsInv, FormInv, DialogsInit

LEMMA FormsInv ==
    ASSUME DialogsInv, NEW m \in Forms,
           \/ PressForm(m) \/ Loaded(m) \/ SubmitForm(m) \/ CloseForm(m)
           \/ \E ok \in BOOLEAN : m \in submitting /\ Submitted(m, ok)
    PROVE  DialogsInv'
<1>. USE DEF DialogsInv, FormInv
<1>0. m \in Modals /\ m \in Modals \ {"confirm"}
  BY DEF Forms, Modals
<1>1. CASE PressForm(m) \/ SubmitForm(m)
  BY <1>1, ScreenInv, SameQuestion, SameBrowser DEF PressForm, SubmitForm, stackVars
<1>2. CASE Loaded(m)
  <2>1. UNCHANGED browserVars /\ loading' \subseteq Forms /\ submitting' \subseteq Forms
        /\ QuestionOnly /\ UNCHANGED hidden
    BY <1>2 DEF Loaded, QuestionOnly
  <2>2. CASE OpenModal(m) /\ Cover
    BY <1>0, <2>1, <2>2, OpenModalInv, OpenFormQuestion, SameBrowser
  <2>3. CASE UNCHANGED <<stackVars, covered>>
    BY <2>1, <2>3, ScreenInv, SameQuestion, SameBrowser
    DEF QuestionOnly, questionVars, stackVars
  <2>. QED  BY <1>2, <2>2, <2>3 DEF Loaded
<1>3. ASSUME CloseModal(m) \/ UNCHANGED stackVars, UNCHANGED <<questionVars, browserVars>>
      PROVE  StackInv' /\ QuestionInv' /\ BrowserInv'
  <2>1. CASE CloseModal(m)
    BY <1>0, <1>3, <2>1, CloseModalInv, CloseQuestion, SameBrowser
    DEF questionVars, QuestionOnly
  <2>2. CASE UNCHANGED stackVars
    BY <1>3, <2>2, ScreenInv, SameQuestion, SameBrowser DEF stackVars
  <2>. QED  BY <1>3, <2>1, <2>2
<1>4. CASE CloseForm(m)
  BY <1>3, <1>4 DEF CloseForm, formVars
<1>5. CASE \E ok \in BOOLEAN : m \in submitting /\ Submitted(m, ok)
  BY <1>3, <1>5 DEF Submitted
<1>. QED  BY <1>1, <1>2, <1>4, <1>5

LEMMA QuestionsInv ==
    ASSUME DialogsInv,
           Ask \/ ShowAuth \/ ShowApp \/ (question /\ (Cancel \/ Confirm))
    PROVE  DialogsInv'
<1>. USE DEF DialogsInv, FormInv
<1>0. "confirm" \in Modals
  BY DEF Modals
<1>1. CASE Ask
  BY <1>0, <1>1, AskQuestion, OpenModalInv, SameBrowser DEF Ask, formVars
<1>2. CASE ShowAuth
  BY <1>2, LockedQuestion, ScreenInv, SameBrowser DEF ShowAuth, formVars
<1>3. CASE ShowApp
  BY <1>3, ScreenInv, SameQuestion, SameBrowser DEF ShowApp, formVars
<1>4. CASE question /\ (Cancel \/ Confirm)
  <2>1. CloseModal("confirm") /\ UNCHANGED <<formVars, browserVars>>
    BY <1>4 DEF Cancel, Confirm, Resolve
  <2>. QED  BY <1>0, <1>4, <2>1, ResolveQuestion, CloseModalInv, SameBrowser DEF formVars
<1>. QED  BY <1>1, <1>2, <1>3, <1>4

LEMMA BrowsersInv ==
    ASSUME DialogsInv,
           \/ Browse \/ Jump \/ CreateFolder \/ Choose \/ DismissBrowser
           \/ \E l \in loads : Listed(l) \/ ListFails(l)
           \/ \E b \in creating, ok \in BOOLEAN : Created(b, ok)
    PROVE  DialogsInv'
<1>. USE DEF DialogsInv, FormInv
<1>0. "browser" \in Modals \ {"confirm"}
  BY DEF Modals
<1>1. ASSUME UNCHANGED <<stackVars, formVars, questionVars>>
      PROVE  StackInv' /\ QuestionInv' /\ FormInv'
  BY <1>1, ScreenInv, SameQuestion DEF stackVars, formVars
<1>2. CASE Browse
  <2>1. ~OnTop("confirm")
    BY <1>2 DEF Browse, AtDesktop, Operable, OnTop, Top, Forms
  <2>2. OpenModal("browser") /\ QuestionOnly /\ UNCHANGED <<hidden, covered, formVars>>
    BY <1>2 DEF Browse, QuestionOnly, questionVars
  <2>. QED  BY <1>0, <1>2, <2>1, <2>2, OpenModalInv, OpenFormQuestion, BrowseInv DEF formVars
<1>3. CASE Jump \/ CreateFolder
  <2>1. CASE Jump
    BY <1>1, <2>1, LoadInv DEF Jump, BrowserInv
  <2>2. CASE CreateFolder
    <3>1. creating' \subseteq Browses
      BY <2>2 DEF CreateFolder, BrowserInv
    <3>2. BrowserInv'
      BY <2>2, <3>1 DEF CreateFolder, BrowserInv, ChoicesAreOfTheirBrowse
    <3>. QED  BY <1>1, <2>2, <3>2 DEF CreateFolder
  <2>. QED  BY <1>3, <2>1, <2>2
<1>4. CASE \E l \in loads : Listed(l) \/ ListFails(l)
  BY <1>1, <1>4, ListedInv DEF Listed, ListFails
<1>5. ASSUME NEW b \in creating, NEW ok \in BOOLEAN, Created(b, ok) PROVE DialogsInv'
  <2>1. creating' \subseteq Browses
    BY <1>5 DEF Created, BrowserInv
  <2>2. BrowserInv'
    <3>1. CASE ok
      BY <1>5, <2>1, <3>1, LoadInv DEF Created
    <3>2. CASE ~ok
      BY <1>5, <2>1, <3>2 DEF Created, BrowserInv, ChoicesAreOfTheirBrowse
    <3>. QED  BY <3>1, <3>2
  <2>. QED  BY <1>1, <1>5, <2>2 DEF Created
<1>6. CASE Choose \/ DismissBrowser
  <2>1. CloseBrowser /\ CloseModal("browser") /\ UNCHANGED <<formVars, questionVars>>
    BY <1>6 DEF Choose, DismissBrowser, CloseBrowser
  <2>2. picked' = picked \/ (picked' = [own |-> path = callback, seen |-> seen]
                             /\ callback # 0)
    BY <1>6 DEF Choose, DismissBrowser
  <2>3. QuestionOnly /\ UNCHANGED <<hidden, covered>>
    BY <2>1 DEF QuestionOnly, questionVars
  <2>. QED  BY <1>0, <2>1, <2>2, <2>3, CloseModalInv, CloseQuestion, CloseBrowserInv
            DEF formVars
<1>. QED  BY <1>2, <1>3, <1>4, <1>5, <1>6

LEMMA DialogsNextInv == DialogsInv /\ [DialogsNext]_dialogVars => DialogsInv'
<1>. SUFFICES ASSUME DialogsInv, [DialogsNext]_dialogVars PROVE DialogsInv'
  OBVIOUS
<1>1. CASE UNCHANGED dialogVars
  BY <1>1, ScreenInv, SameQuestion, SameBrowser
  DEF DialogsInv, FormInv, dialogVars, formVars, stackVars
<1>2. CASE DialogsInput
  <2>1. CASE KeyEscape
    BY <2>1, FormsInv, QuestionsInv, BrowsersInv DEF KeyEscape, ClickCancel
  <2>. QED
    BY <1>2, <2>1, FormsInv, QuestionsInv, BrowsersInv
    DEF DialogsInput, ClickCancel, ClickOk, KeyEnter
<1>3. CASE DialogsAnswer
  <2>1. submitting \subseteq Forms
    BY DEF DialogsInv, FormInv
  <2>. QED  BY <1>3, <2>1, FormsInv, BrowsersInv DEF DialogsAnswer
<1>4. CASE ShowAuth \/ \E m \in Forms : PressForm(m)
  BY <1>4, FormsInv, QuestionsInv
<1>. QED  BY <1>1, <1>2, <1>3, <1>4 DEF DialogsNext

LEMMA DialogsInvTypeOK == DialogsInv => DialogsTypeOK
<1>. SUFFICES ASSUME DialogsInv PROVE DialogsTypeOK
  OBVIOUS
<1>1. stack \in UNION {[1 .. n -> Modals] : n \in 0 .. 4}
  BY StackIsShort DEF DialogsInv, StackInv, UsableDialogs
<1>2. usable \subseteq Modals
  BY DEF DialogsInv, StackInv, UsableDialogs, Top, Last
<1>3. waiting \in Nat /\ callback \in Browses
  BY BrowsesAssumption
  DEF DialogsInv, QuestionInv, EveryQuestionIsOpen, BrowserInv, Browses
<1>. QED
  BY <1>1, <1>2, <1>3 DEF DialogsTypeOK, DialogsInv, StackInv, QuestionInv, BrowserInv, FormInv

-----------------------------------------------------------------------------
(* The desktop *)

DesktopInv == WindowsInv /\ DialogsInv /\ inputs \in Nat

\* Every step of the desktop is one of its windows, of its dialogs or of both.
LEMMA StepsOfHalves ==
    WindowsTypeOK /\ [Next]_vars =>
        [WindowsNext]_windowVars /\ [DialogsNext]_dialogVars
<1>. SUFFICES ASSUME WindowsTypeOK, [Next]_vars
              PROVE  [WindowsNext]_windowVars /\ [DialogsNext]_dialogVars
  OBVIOUS
<1>0. Downloads \in Windows
  BY WindowsAssumption
<1>1. CASE UNCHANGED vars
  BY <1>1 DEF vars
<1>2. ASSUME UserOfWindows \/ Anywhere \/ Page
      PROVE  WindowsNext /\ UNCHANGED dialogVars
  <2>1. CASE UserOfWindows
    BY <2>1 DEF UserOfWindows, WindowsNext, OfWindow, ToggleWindow
  <2>2. CASE Anywhere
    <3>1. active # NoWindow => active \in Windows
      BY DEF WindowsTypeOK
    <3>. QED  BY <2>2, <3>1 DEF Anywhere, WindowsNext, OfWindow
  <2>3. CASE Page
    BY <2>3 DEF Page, WindowsNext, OfWindow
  <2>. QED  BY <1>2, <2>1, <2>2, <2>3
<1>3. ASSUME PressForm("add") PROVE DialogsNext
  BY <1>3 DEF DialogsNext, Forms
<1>4. ASSUME NewDownload PROVE WindowsNext /\ [DialogsNext]_dialogVars
  BY <1>3, <1>4 DEF NewDownload, WindowsNext, Raise
<1>5. ASSUME NEW ok \in BOOLEAN, WindowReady(ok) \/ LateReady(ok)
      PROVE  WindowsNext /\ [DialogsNext]_dialogVars
  BY <1>3, <1>5 DEF WindowReady, LateReady, ThenAdd, WindowsNext
<1>6. ASSUME Lock PROVE UNCHANGED windowVars /\ DialogsNext
  BY <1>6 DEF Lock, DialogsNext
<1>7. ASSUME DialogsInput \/ DialogsAnswer PROVE DialogsNext
  BY <1>7 DEF DialogsNext
<1>8. CASE User
  BY <1>2, <1>4, <1>6, <1>7, <1>8 DEF User
<1>9. CASE System
  BY <1>2, <1>5, <1>7, <1>9 DEF System
<1>. QED  BY <1>1, <1>8, <1>9 DEF Next

LEMMA InitInv == Init => DesktopInv
  BY WindowsInitInv, DialogsInitInv DEF Init, DesktopInv

LEMMA NextInv == DesktopInv /\ [Next]_vars => DesktopInv'
<1>. SUFFICES ASSUME DesktopInv, [Next]_vars PROVE DesktopInv'
  OBVIOUS
<1>1. inputs' \in Nat
  BY DEF DesktopInv, Next, User, System, vars
<1>. QED
  BY <1>1, StepsOfHalves, WindowsNextInv, DialogsNextInv DEF DesktopInv, WindowsInv

LEMMA Inductive == Spec => []DesktopInv
<1>. QED  BY InitInv, NextInv, PTL DEF Spec

\* Every variable of the desktop stays in its range: no more dialogs are ever
\* stacked than there are.
THEOREM TypeCorrect == Spec => []TypeOK
<1>1. DesktopInv => TypeOK
  BY DialogsInvTypeOK DEF DesktopInv, WindowsInv, TypeOK
<1>. QED  BY <1>1, Inductive, PTL

\* A window that is neither closed nor minimized is on the page and can be used,
\* and any other one is gone once its exit animation is over, whatever opening,
\* restoring, closing and minimizing interrupted each other (openWindow,
\* closeWindow, minimizeWindow and the completion of their animations).
THEOREM WindowsShownAsMeant == Spec => []ShownAsMeant
<1>1. DesktopInv => ShownAsMeant
  BY DEF DesktopInv, WindowsInv
<1>. QED  BY <1>1, Inductive, PTL

\* As long as a window is there exactly one is active, focused and in front of
\* all others (focusWindow, focusNextWindow).
THEOREM ActiveWindowInFront == Spec => []ActiveInFront
<1>1. DesktopInv => ActiveInFront
  BY DEF DesktopInv, WindowsInv
<1>. QED  BY <1>1, Inductive, PTL

\* No dialog is open twice, only the top one can be used, and on a locked screen
\* there are only those that a late answer opened (openModal, closeModal,
\* showScreen).
THEOREM DialogsUsable == Spec => []UsableDialogs
<1>1. DesktopInv => UsableDialogs
  BY DEF DesktopInv, DialogsInv, StackInv
<1>. QED  BY <1>1, Inductive, PTL

\* At most one caller waits for an answer, and only while its question is open
\* (showConfirmDialog and its cleanup).
THEOREM NoForgottenQuestion == Spec => []EveryQuestionIsOpen
<1>1. DesktopInv => EveryQuestionIsOpen
  BY DEF DesktopInv, DialogsInv, QuestionInv
<1>. QED  BY <1>1, Inductive, PTL

\* A question nobody sees is confirmed only after the lock hid it or a late
\* dialog covered it (the Enter handler of showConfirmDialog).
THEOREM UnseenConfirmation == Spec => []OnlyAHiddenQuestionIsConfirmedUnseen
<1>1. DesktopInv => OnlyAHiddenQuestionIsConfirmedUnseen
  BY DEF DesktopInv, DialogsInv, QuestionInv
<1>. QED  BY <1>1, Inductive, PTL

\* Once the folder browser has shown a directory of this browse, what it hands
\* over belongs to this browse, however late the answers of the others come
\* (loadDirectory and its sequence number, close, createFolder).
THEOREM ChoicesOfTheirBrowse == Spec => []ChoicesAreOfTheirBrowse
<1>1. DesktopInv => ChoicesAreOfTheirBrowse
  BY DEF DesktopInv, DialogsInv, BrowserInv
<1>. QED  BY <1>1, Inductive, PTL

=============================================================================
