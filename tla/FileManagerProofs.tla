---------------------------- MODULE FileManagerProofs ----------------------------
(***************************************************************************)
(* FileManager, for any number of directories, names and operations, and   *)
(* TaskCard, for any number of tasks, uploads and files: the two halves of *)
(* the file manager of the page.                                           *)
(***************************************************************************)
EXTENDS FileManager, TaskCard, TLAPS

-----------------------------------------------------------------------------
(* The listings *)

\* Before the first listing there is nothing to act on.
NothingBeforeAListing ==
    current = None =>
        /\ rows = {} /\ dialog = {}
        /\ \A o \in Ops : op[o].at \in {"idle", "done"}

\* Listings are numbered in the order they were asked for.
ListingsAreNumbered ==
    /\ \A n \in navs : n.seq \leq seq
    /\ \A m, n \in navs : m.seq = n.seq => m = n

\* Nobody knows a version the server has not reached.
NoVersionAhead ==
    /\ mine \leq version
    /\ \A o \in Ops : op[o].ver \leq version

\* What is on its way will do: the directory that was asked for, not too old.
TheLastListingIsRight ==
    \A n \in navs : n.seq = seq =>
        /\ n.ver = 0 \/ n.ver >= mine
        /\ overtaken \/ asked \in {None, n.target}

Late == ListingsAreNumbered /\ NoVersionAhead /\ NothingBeforeAListing
Promise == TheLastListingIsRight /\ TheLastWishIsShown /\ OwnChangesShow

IInv == TypeOK /\ WhatIsShownIsMeant /\ Late /\ Promise

Nav == [seq : 1 .. MaxSeq, target : Dirs \cup {None}, ver : Nat]
Row == [at : {"idle", "asking", "sent", "ok", "error", "done"}, kind : Kinds,
        items : SUBSET Paths, ver : Nat]

-----------------------------------------------------------------------------
(* Every variable keeps its type. *)

LEMMA TypeInit == Init => TypeOK
<1> SUFFICES ASSUME Init PROVE TypeOK
  OBVIOUS
<1>1. Unasked \in Row
  BY DEF Row, Unasked, Kinds
<1>2. Ask(1, None) \in Nav
  BY BoundAssumption DEF Ask, Nav
<1>3. op \in [Ops -> Row]
  BY <1>1 DEF Init
<1>4. navs \subseteq Nav
  BY <1>2 DEF Init
<1>5. clip \in [action : {"none", "copy", "move"}, items : SUBSET Paths]
  BY DEF Init, NoClip
<1>6. /\ current = None /\ asked = None /\ seq = 1
      /\ rows = {} /\ ticks = {} /\ marks = {} /\ selected = {} /\ dialog = {}
      /\ version = 1 /\ shown = 0 /\ mine = 0
      /\ overtaken = FALSE /\ failed = FALSE
  BY DEF Init
<1>7. seq \in 1 .. MaxSeq
  BY <1>6, BoundAssumption
<1>8. /\ current \in Dirs \cup {None} /\ asked \in Dirs \cup {None}
      /\ rows \subseteq Paths /\ ticks \subseteq Paths /\ marks \subseteq Paths
      /\ selected \subseteq Paths /\ dialog \subseteq Paths
      /\ version \in Nat /\ shown \in Nat /\ mine \in Nat
      /\ overtaken \in BOOLEAN /\ failed \in BOOLEAN
  BY <1>6
<1> QED
  BY <1>3, <1>4, <1>5, <1>7, <1>8 DEF TypeOK, Nav, Row

LEMMA AskForType ==
  ASSUME TypeOK, NEW dir \in Dirs \cup {None}, AskFor(dir)
  PROVE  seq' \in 1 .. MaxSeq /\ navs' \subseteq Nav /\ failed' \in BOOLEAN
<1>1. seq + 1 \in 1 .. MaxSeq
  BY BoundAssumption DEF TypeOK, AskFor
<1>2. Ask(seq + 1, dir) \in Nav
  BY <1>1 DEF Ask, Nav
<1> QED
  BY <1>1, <1>2 DEF TypeOK, AskFor, Nav

LEMMA RefreshedType ==
  ASSUME TypeOK, Refreshed
  PROVE  seq' \in 1 .. MaxSeq /\ navs' \subseteq Nav /\ failed' \in BOOLEAN /\ overtaken' \in BOOLEAN
<1>1. CASE current = None
  BY <1>1 DEF Refreshed, TypeOK, Nav, navVars
<1>2. CASE current # None
  BY <1>2, AskForType DEF Refreshed, TypeOK
<1> QED
  BY <1>1, <1>2

LEMMA TypeNext == TypeOK /\ [Next]_vars => TypeOK'
<1> SUFFICES ASSUME TypeOK, [Next]_vars PROVE TypeOK'
  OBVIOUS
<1> USE DEF tableVars, navVars
<1>1. ASSUME NEW dir \in Dirs, Navigate(dir) PROVE TypeOK'
  BY <1>1, AskForType DEF Navigate, TypeOK, Nav
<1>2. CASE Refresh
  BY <1>2, RefreshedType DEF Refresh, TypeOK, Nav
<1>3. ASSUME NEW n \in navs, Serve(n) PROVE TypeOK'
  <2>1. n \in Nav
    BY DEF TypeOK, Nav
  <2>2. [n EXCEPT !.ver = version] \in Nav
    BY <2>1 DEF TypeOK, Nav
  <2> QED
    BY <1>3, <2>2 DEF Serve, TypeOK, Nav
<1>4. ASSUME NEW n \in navs, Arrived(n) PROVE TypeOK'
  <2>1. n \in Nav
    BY DEF TypeOK, Nav
  <2>2. CASE Show(n)
    <3>1. current' \in Dirs /\ rows' \subseteq Paths /\ shown' \in Nat
          /\ ticks' = {} /\ selected' = {} /\ marks' \subseteq rows'
      BY <2>1, <2>2 DEF Show, Nav, Paths
    <3> QED
      BY <1>4, <3>1 DEF Arrived, TypeOK
  <2>3. CASE UNCHANGED tableVars
    BY <1>4, <2>3 DEF Arrived, TypeOK, Show
  <2> QED
    BY <1>4, <2>2, <2>3 DEF Arrived
<1>5. ASSUME NEW p \in rows, Tick(p) PROVE TypeOK'
  BY <1>5 DEF Tick, TypeOK
<1>6. ASSUME NEW on \in BOOLEAN, SelectAll(on) PROVE TypeOK'
  BY <1>6 DEF SelectAll, TypeOK
<1>7. CASE ToClipboard
  <2>1. PICK action \in {"copy", "move"}, items \in SUBSET Paths : SetClipboard(action, items)
    BY <1>7 DEF ToClipboard, TypeOK
  <2> QED
    BY <2>1 DEF SetClipboard, TypeOK
<1>8. CASE ClearClipboard
  BY <1>8 DEF ClearClipboard, ClearedClip, NoClip, TypeOK
<1>9. CASE OpenTransfer \/ CloseTransfer
  BY <1>9 DEF OpenTransfer, CloseTransfer, TypeOK
<1>10. ASSUME NEW o \in Ops, NEW at \in {"asking", "sent"}, NEW kind \in Kinds,
              NEW items \in SUBSET Paths, Begin(o, at, kind, items)
       PROVE  TypeOK'
  <2>1. [Unasked EXCEPT !.at = at, !.kind = kind, !.items = items] \in Row
    BY DEF Unasked, Row
  <2> QED
    BY <1>10, <2>1 DEF Begin, TypeOK, Row
<1>11. ASSUME NEW o \in Ops, Paste(o) \/ SubmitTransfer(o) \/ AskDelete(o) \/ Edit(o)
       PROVE  TypeOK'
  <2>1. dialog \in SUBSET Paths /\ {} \in SUBSET Paths
    BY DEF TypeOK
  <2> QED
    BY <1>10, <1>11, <2>1 DEF Paste, SubmitTransfer, AskDelete, Edit, Kinds
<1>12. ASSUME NEW o \in Ops, AnswerDialog(o) PROVE TypeOK'
  <2>1. [op[o] EXCEPT !.at = "sent"] \in Row /\ Over \in Row
    BY DEF TypeOK, Row, Over, Unasked, Kinds
  <2> QED
    BY <1>12, <2>1 DEF AnswerDialog, TypeOK, Row
<1>13. ASSUME NEW o \in Ops, Done(o) PROVE TypeOK'
  <2>1. PICK at \in {"ok", "error"}, change \in {0, 1} :
           /\ version' = version + change
           /\ op' = [op EXCEPT ![o].at = at, ![o].ver = version + change]
    BY <1>13 DEF Done
  <2>2. op[o] \in Row /\ version + change \in Nat
    BY DEF TypeOK, Row
  <2>3. [op[o] EXCEPT !.at = at, !.ver = version + change] \in Row
    BY <2>2 DEF Row
  <2>4. op' = [op EXCEPT ![o] = [op[o] EXCEPT !.at = at, !.ver = version + change]]
    BY <2>1, <2>2 DEF TypeOK, Row
  <2>5. op' \in [Ops -> Row]
    BY <2>3, <2>4 DEF TypeOK, Row
  <2> QED
    BY <1>13, <2>1, <2>2, <2>5 DEF Done, TypeOK, Row
<1>14. ASSUME NEW o \in Ops, Answered(o) PROVE TypeOK'
  <2>1. Over \in Row
    BY DEF Row, Over, Unasked, Kinds
  <2>2. op' \in [Ops -> Row]
    BY <1>14, <2>1 DEF Answered, TypeOK, Row
  <2>3. clip' \in [action : {"none", "copy", "move"}, items : SUBSET Paths]
        /\ marks' \subseteq Paths /\ selected' \subseteq Paths /\ dialog' \subseteq Paths
        /\ mine' \in Nat
    <3>1. op[o].ver \in Nat
      BY DEF TypeOK
    <3>2. NoClip \in [action : {"none", "copy", "move"}, items : SUBSET Paths]
      BY DEF NoClip
    <3>3. CASE op[o].at = "ok"
      <4>1. (clip' = NoClip /\ marks' = {}) \/ UNCHANGED <<clip, marks>>
        BY <1>14, <3>3 DEF Answered, Settles, ClearedClip
      <4>2. selected' \in {{}, selected} /\ dialog' \in {{}, dialog} /\ mine' = op[o].ver
        BY <1>14, <3>3 DEF Answered, Settles
      <4> QED
        BY <3>1, <3>2, <4>1, <4>2 DEF TypeOK
    <3> QED
      BY <1>14, <3>3 DEF Answered, TypeOK
  <2>4. seq' \in 1 .. MaxSeq /\ navs' \subseteq Nav /\ failed' \in BOOLEAN /\ overtaken' \in BOOLEAN
    BY <1>14, RefreshedType DEF Answered, TypeOK, Nav
  <2> QED
    BY <1>14, <2>2, <2>3, <2>4 DEF Answered, TypeOK, Nav, Row
<1>15. CASE UNCHANGED vars
  BY <1>15 DEF vars, TypeOK
<1> QED
  BY <1>1, <1>2, <1>3, <1>4, <1>5, <1>6, <1>7, <1>8, <1>9, <1>11, <1>12, <1>13, <1>14, <1>15 DEF Next

\* The listing, the clipboard, the listings on their way and the operations keep
\* their types.
THEOREM TypeCorrect == Spec => []TypeOK
  BY TypeInit, TypeNext, PTL DEF Spec

-----------------------------------------------------------------------------
(* What is shown is meant. *)

LEMMA ShownNext == TypeOK /\ WhatIsShownIsMeant /\ [Next]_vars => WhatIsShownIsMeant'
<1> SUFFICES ASSUME TypeOK, WhatIsShownIsMeant, [Next]_vars PROVE WhatIsShownIsMeant'
  OBVIOUS
<1> USE DEF WhatIsShownIsMeant, Cut, tableVars
<1>1. ASSUME NEW n \in navs, Arrived(n) PROVE WhatIsShownIsMeant'
  <2>1. CASE Show(n)
    BY <1>1, <2>1 DEF Arrived, Show
  <2>2. CASE UNCHANGED tableVars
    BY <1>1, <2>2 DEF Arrived
  <2> QED
    BY <1>1, <2>1, <2>2 DEF Arrived
<1>2. ASSUME NEW p \in rows, Tick(p) PROVE WhatIsShownIsMeant'
  BY <1>2 DEF Tick
<1>3. ASSUME NEW on \in BOOLEAN, SelectAll(on) PROVE WhatIsShownIsMeant'
  BY <1>3 DEF SelectAll
<1>4. CASE ToClipboard
  <2>1. PICK action \in {"copy", "move"}, items \in SUBSET Paths : SetClipboard(action, items)
    BY <1>4 DEF ToClipboard, TypeOK
  <2> QED
    BY <2>1 DEF SetClipboard
<1>5. CASE ClearClipboard
  BY <1>5 DEF ClearClipboard, ClearedClip, NoClip
<1>6. ASSUME NEW o \in Ops, Answered(o) PROVE WhatIsShownIsMeant'
  <2>1. UNCHANGED <<rows, ticks>> /\ selected' \in {{}, selected}
    BY <1>6 DEF Answered, Settles
  <2>2. ClearedClip \/ UNCHANGED <<clip, marks>>
    BY <1>6 DEF Answered, Settles
  <2> QED
    BY <2>1, <2>2 DEF ClearedClip, NoClip
<1>7. CASE UNCHANGED <<rows, ticks, marks, selected, clip>>
  BY <1>7
<1> QED
  BY <1>1, <1>2, <1>3, <1>4, <1>5, <1>6, <1>7
     DEF Next, Navigate, Refresh, Serve, OpenTransfer, CloseTransfer, Paste, SubmitTransfer,
         AskDelete, Edit, Begin, AnswerDialog, Done, vars

\* The buttons act on what the rows show.
THEOREM ShownIsMeant == Spec => []WhatIsShownIsMeant
<1>1. Init => WhatIsShownIsMeant
  BY DEF Init, WhatIsShownIsMeant, Cut, NoClip
<1> QED
  BY <1>1, TypeInit, TypeNext, ShownNext, PTL DEF Spec

-----------------------------------------------------------------------------
(* What the parts of the invariant need of each other. *)

LEMMA EmptyNext ==
  TypeOK /\ WhatIsShownIsMeant /\ NothingBeforeAListing /\ [Next]_vars => NothingBeforeAListing'
<1> SUFFICES ASSUME TypeOK, WhatIsShownIsMeant, NothingBeforeAListing, [Next]_vars,
                    current' = None
             PROVE  /\ rows' = {} /\ dialog' = {}
                    /\ \A o \in Ops : op'[o].at \in {"idle", "done"}
  BY DEF NothingBeforeAListing
<1> USE NoneAssumption DEF WhatIsShownIsMeant, NothingBeforeAListing, tableVars
<1>1. ASSUME NEW n \in navs, Show(n) PROVE FALSE
  <2>1. n.target \in Dirs \cup {None}
    BY DEF TypeOK
  <2> QED
    BY <1>1, <2>1 DEF Show
<1>2. current = None
  BY <1>1 DEF Next, Navigate, Refresh, Serve, Arrived, Tick, SelectAll, ToClipboard, SetClipboard,
              ClearClipboard, OpenTransfer, CloseTransfer, Paste, SubmitTransfer, AskDelete, Edit,
              Begin, AnswerDialog, Done, Answered, vars
<1>3. rows = {} /\ selected = {} /\ dialog = {} /\ \A o \in Ops : op[o].at \in {"idle", "done"}
  BY <1>2
<1>4. UNCHANGED rows
  BY <1>1 DEF Next, Navigate, Refresh, Serve, Arrived, Tick, SelectAll, ToClipboard, SetClipboard,
              ClearClipboard, OpenTransfer, CloseTransfer, Paste, SubmitTransfer, AskDelete, Edit,
              Begin, AnswerDialog, Done, Answered, vars
<1>5. UNCHANGED <<op, dialog>>
  BY <1>1, <1>2, <1>3
     DEF Next, Navigate, Refresh, Serve, Arrived, Tick, SelectAll, ToClipboard, SetClipboard,
         ClearClipboard, OpenTransfer, CloseTransfer, Paste, SubmitTransfer, AskDelete, Edit,
         Begin, AnswerDialog, Done, Answered, vars
<1> QED
  BY <1>3, <1>4, <1>5

\* A step leaves the listings alone, or asks for one, or concerns one of them.
LEMMA NavSteps ==
  ASSUME TypeOK, [Next]_vars
  PROVE  \/ UNCHANGED <<navs, seq>>
         \/ \E dir : AskFor(dir)
         \/ \E n \in navs : (Serve(n) \/ Arrived(n)) /\ seq' = seq
<1> USE DEF navVars
<1>1. ASSUME Refreshed PROVE UNCHANGED <<navs, seq>> \/ \E dir : AskFor(dir)
  BY <1>1 DEF Refreshed
<1>2. ASSUME NEW o \in Ops, Answered(o)
      PROVE  UNCHANGED <<navs, seq>> \/ \E dir : AskFor(dir)
  BY <1>1, <1>2 DEF Answered
<1>3. ASSUME NEW n \in navs, Serve(n) \/ Arrived(n) PROVE seq' = seq
  BY <1>3 DEF Serve, Arrived
<1> QED
  BY <1>1, <1>2, <1>3
     DEF Next, Navigate, Refresh, Tick, SelectAll, ToClipboard, SetClipboard,
         ClearClipboard, OpenTransfer, CloseTransfer, Paste, SubmitTransfer, AskDelete, Edit,
         Begin, AnswerDialog, Done, vars

LEMMA NumberedNext == TypeOK /\ ListingsAreNumbered /\ [Next]_vars => ListingsAreNumbered'
<1> SUFFICES ASSUME TypeOK, ListingsAreNumbered, [Next]_vars PROVE ListingsAreNumbered'
  OBVIOUS
<1> USE DEF ListingsAreNumbered
<1>1. seq \in Nat /\ \A n \in navs : n.seq \in Nat
  BY DEF TypeOK
<1>2. ASSUME NEW dir, AskFor(dir) PROVE ListingsAreNumbered'
  <2>1. Ask(seq + 1, dir).seq = seq + 1
    BY DEF Ask
  <2> QED
    BY <1>1, <1>2, <2>1 DEF AskFor
<1>3. ASSUME NEW n \in navs, Serve(n), seq' = seq PROVE ListingsAreNumbered'
  <2>1. [n EXCEPT !.ver = version].seq = n.seq
    BY DEF TypeOK
  <2> QED
    BY <1>1, <1>3, <2>1 DEF Serve
<1>4. ASSUME NEW n \in navs, Arrived(n), seq' = seq PROVE ListingsAreNumbered'
  BY <1>1, <1>4 DEF Arrived
<1> QED
  BY <1>2, <1>3, <1>4, NavSteps

LEMMA VersionNext == TypeOK /\ NoVersionAhead /\ [Next]_vars => NoVersionAhead'
<1> SUFFICES ASSUME TypeOK, NoVersionAhead, [Next]_vars PROVE NoVersionAhead'
  OBVIOUS
<1> USE DEF NoVersionAhead
<1>1. version \in Nat /\ mine \in Nat /\ \A o \in Ops : op[o].ver \in Nat
  BY DEF TypeOK
<1>2. ASSUME NEW o \in Ops, NEW at, NEW kind, NEW items, Begin(o, at, kind, items)
      PROVE  NoVersionAhead'
  <2>1. op'[o].ver = 0 /\ \A x \in Ops \ {o} : op'[x] = op[x]
    BY <1>2 DEF Begin, TypeOK, Unasked
  <2> QED
    BY <1>1, <1>2, <2>1 DEF Begin
<1>3. ASSUME NEW o \in Ops, AnswerDialog(o) PROVE NoVersionAhead'
  <2>1. op'[o].ver \in {0, op[o].ver} /\ \A x \in Ops \ {o} : op'[x] = op[x]
    BY <1>3 DEF AnswerDialog, TypeOK, Over, Unasked
  <2> QED
    BY <1>1, <1>3, <2>1 DEF AnswerDialog
<1>4. ASSUME NEW o \in Ops, Done(o) PROVE NoVersionAhead'
  <2>1. PICK at \in {"ok", "error"}, change \in {0, 1} :
           /\ version' = version + change
           /\ op' = [op EXCEPT ![o].at = at, ![o].ver = version + change]
    BY <1>4 DEF Done
  <2>2. op'[o].ver = version' /\ \A x \in Ops \ {o} : op'[x] = op[x]
    BY <2>1 DEF TypeOK
  <2>3. mine' = mine
    BY <1>4 DEF Done
  <2>4. version' \in Nat /\ version \leq version'
    BY <1>1, <2>1
  <2>5. \A x \in Ops : op'[x].ver \leq version'
    BY <1>1, <2>2, <2>4
  <2> QED
    BY <1>1, <2>3, <2>4, <2>5
<1>5. ASSUME NEW o \in Ops, Answered(o) PROVE NoVersionAhead'
  <2>1. op'[o].ver = 0 /\ \A x \in Ops \ {o} : op'[x] = op[x]
    BY <1>5 DEF Answered, TypeOK, Over, Unasked
  <2>2. mine' \in {mine, op[o].ver} /\ version' = version
    BY <1>5 DEF Answered
  <2> QED
    BY <1>1, <2>1, <2>2
<1>6. CASE UNCHANGED <<op, version, mine>>
  BY <1>6
<1>7. ASSUME NEW o \in Ops, Paste(o) \/ SubmitTransfer(o) \/ AskDelete(o) \/ Edit(o)
      PROVE  NoVersionAhead'
  BY <1>2, <1>7 DEF Paste, SubmitTransfer, AskDelete, Edit
<1> QED
  BY <1>3, <1>4, <1>5, <1>6, <1>7
     DEF Next, Navigate, Refresh, Serve, Arrived, Tick, SelectAll, ToClipboard, SetClipboard,
         ClearClipboard, OpenTransfer, CloseTransfer, vars

-----------------------------------------------------------------------------
(* However listings are delayed. *)

\* A listing that was just asked for is the last one.
LEMMA AskedIsLast ==
  ASSUME TypeOK, ListingsAreNumbered, NEW dir, AskFor(dir)
  PROVE  /\ ~AtRest'
         /\ \A n \in navs' : n.seq = seq' => n.ver = 0 /\ n.target = dir
<1>1. Ask(seq + 1, dir).seq = seq + 1 /\ Ask(seq + 1, dir).ver = 0
      /\ Ask(seq + 1, dir).target = dir
  BY DEF Ask
<1>2. seq \in Nat /\ \A n \in navs : n.seq \in Nat /\ n.seq \leq seq
  BY DEF TypeOK, ListingsAreNumbered
<1>3. seq' = seq + 1 /\ navs' = navs \cup {Ask(seq + 1, dir)}
  BY DEF AskFor
<1>4. \A n \in navs : n.seq # seq'
  BY <1>2, <1>3
<1> QED
  BY <1>1, <1>3, <1>4 DEF AtRest

\* A refresh keeps the promise: it asks for the directory that is shown.
LEMMA RefreshedKeeps ==
  ASSUME TypeOK, ListingsAreNumbered, Refreshed, current # None, UNCHANGED <<current, asked>>
  PROVE  Promise'
<1>1. AskFor(current) /\ (overtaken' \/ asked \in {None, current})
  BY DEF Refreshed
<1>2. ~AtRest' /\ \A n \in navs' : n.seq = seq' => n.ver = 0 /\ n.target = current
  BY <1>1, AskedIsLast
<1> QED
  BY <1>1, <1>2 DEF Promise, TheLastListingIsRight, TheLastWishIsShown, OwnChangesShow

LEMMA PromiseNext == TypeOK /\ Late /\ Promise /\ [Next]_vars => Promise'
<1> SUFFICES ASSUME TypeOK, Late, Promise, [Next]_vars PROVE Promise'
  OBVIOUS
<1> USE DEF tableVars, navVars
<1>1. /\ seq \in Nat /\ version \in Nat /\ mine \in Nat /\ mine \leq version
      /\ \A n \in navs : n.seq \in Nat /\ n.ver \in Nat
      /\ \A m, n \in navs : m.seq = n.seq => m = n
  BY DEF TypeOK, Late, ListingsAreNumbered, NoVersionAhead
<1>2. ASSUME NEW dir \in Dirs, Navigate(dir) PROVE Promise'
  <2>1. ~AtRest' /\ \A n \in navs' : n.seq = seq' => n.ver = 0 /\ n.target = dir
    BY <1>2, AskedIsLast DEF Navigate, Late
  <2> QED
    BY <1>2, <2>1
       DEF Navigate, Promise, TheLastListingIsRight, TheLastWishIsShown, OwnChangesShow
<1>3. CASE Refresh
  BY <1>3, RefreshedKeeps DEF Refresh, Late
<1>4. ASSUME NEW n \in navs, Serve(n) PROVE Promise'
  <2> DEFINE m == [n EXCEPT !.ver = version]
  <2>1. m.seq = n.seq /\ m.target = n.target /\ m.ver = version
    BY DEF TypeOK
  <2>2. navs' = (navs \ {n}) \cup {m} /\ UNCHANGED <<current, asked, shown, seq, overtaken, failed, mine>>
    BY <1>4 DEF Serve
  <2>3. AtRest' = AtRest
    BY <2>1, <2>2 DEF AtRest
  <2> HIDE DEF m
  <2>4. TheLastListingIsRight'
    BY <1>1, <2>1, <2>2 DEF Promise, TheLastListingIsRight
  <2> QED
    BY <2>2, <2>3, <2>4 DEF Promise, TheLastWishIsShown, OwnChangesShow
<1>5. ASSUME NEW n \in navs, Arrived(n) PROVE Promise'
  <2>1. navs' = navs \ {n} /\ n.ver # 0 /\ UNCHANGED <<seq, overtaken, mine>>
    BY <1>5 DEF Arrived
  <2>2. CASE n.seq # seq /\ UNCHANGED <<current, shown, asked, failed>>
    <3>1. AtRest' = AtRest
      BY <2>1, <2>2 DEF AtRest
    <3> QED
      BY <2>1, <2>2, <3>1 DEF Promise, TheLastListingIsRight, TheLastWishIsShown, OwnChangesShow
  <2>3. CASE n.seq = seq /\ Show(n) /\ UNCHANGED <<asked, failed>>
    <3>1. n.ver >= mine /\ (overtaken \/ asked \in {None, n.target})
      BY <2>1, <2>3 DEF Promise, TheLastListingIsRight
    <3>2. shown' = n.ver /\ (n.target = None \/ current' = n.target)
      BY <2>3 DEF Show
    <3> QED
      BY <1>1, <2>1, <2>3, <3>1, <3>2
         DEF Promise, TheLastListingIsRight, TheLastWishIsShown, OwnChangesShow
  <2>4. CASE n.seq = seq /\ failed' = TRUE /\ asked' = current /\ UNCHANGED tableVars
    BY <1>1, <2>1, <2>4 DEF Promise, TheLastListingIsRight, TheLastWishIsShown, OwnChangesShow
  <2> QED
    BY <1>5, <2>2, <2>3, <2>4 DEF Arrived
<1>6. CASE UNCHANGED <<current, shown, navs, seq, overtaken, failed, mine, asked>>
  BY <1>6 DEF Promise, TheLastListingIsRight, TheLastWishIsShown, OwnChangesShow, AtRest
<1>7. ASSUME NEW o \in Ops, Answered(o) PROVE Promise'
  <2>1. current # None
    BY <1>7 DEF Answered, Late, NothingBeforeAListing
  <2>2. UNCHANGED <<current, shown, asked>>
    BY <1>7 DEF Answered
  <2>3. CASE Refreshed
    BY <2>1, <2>2, <2>3, RefreshedKeeps DEF Late
  <2>4. CASE ~Refreshed
    BY <1>6, <1>7, <2>2, <2>4 DEF Answered
  <2> QED
    BY <2>3, <2>4
<1> QED
  BY <1>2, <1>3, <1>4, <1>5, <1>6, <1>7
     DEF Next, Tick, SelectAll, ToClipboard, SetClipboard, ClearClipboard, OpenTransfer,
         CloseTransfer, Paste, SubmitTransfer, AskDelete, Edit, Begin, AnswerDialog, Done, vars

-----------------------------------------------------------------------------

LEMMA IInvInit == Init => IInv
<1> SUFFICES ASSUME Init PROVE WhatIsShownIsMeant /\ Late /\ Promise
  BY TypeInit DEF IInv
<1>1. Ask(1, None).seq = 1 /\ Ask(1, None).ver = 0 /\ Ask(1, None).target = None
  BY DEF Ask
<1>2. \A o \in Ops : op[o].at = "idle" /\ op[o].ver = 0
  BY DEF Init, Unasked
<1>3. navs = {Ask(1, None)} /\ seq = 1
  BY DEF Init
<1>4. WhatIsShownIsMeant /\ NothingBeforeAListing /\ NoVersionAhead
  BY <1>2 DEF Init, WhatIsShownIsMeant, Cut, NoClip, NothingBeforeAListing, NoVersionAhead
<1>5. ListingsAreNumbered /\ ~AtRest
  BY <1>1, <1>3 DEF ListingsAreNumbered, AtRest
<1>6. TheLastListingIsRight
  BY <1>1, <1>3 DEF Init, TheLastListingIsRight
<1> QED
  BY <1>4, <1>5, <1>6 DEF Late, Promise, TheLastWishIsShown, OwnChangesShow

LEMMA IInvHolds == Spec => []IInv
<1>1. IInv /\ [Next]_vars => IInv'
  BY TypeNext, ShownNext, EmptyNext, NumberedNext, VersionNext, PromiseNext DEF IInv, Late
<1> QED
  BY <1>1, IInvInit, PTL DEF Spec

\* The listing that stays is of the directory the user asked for last.
THEOREM LastWishIsShown == Spec => []TheLastWishIsShown
<1>1. IInv => TheLastWishIsShown
  BY DEF IInv, Promise
<1> QED
  BY <1>1, IInvHolds, PTL

\* No late listing hides what the user just did.
THEOREM OwnChangesAreShown == Spec => []OwnChangesShow
<1>1. IInv => OwnChangesShow
  BY DEF IInv, Promise
<1> QED
  BY <1>1, IInvHolds, PTL
-----------------------------------------------------------------------------
(* The progress card *)

LEMMA CardTypeInit == CardInit => CardTypeOK
<1>. SUFFICES ASSUME CardInit PROVE CardTypeOK
  OBVIOUS
<1>1. /\ left \in [Uploads -> 0 .. Unsent] /\ status \in [Tasks -> Statuses]
      /\ request \in [Own -> {"idle", "waiting", "ok", "error", "done"}]
      /\ cancels \in [Tasks -> {"none", "asked", "served"}]
  <2>1. Unsent \in 0 .. Unsent
    BY FilesAssumption DEF Unsent
  <2>. QED  BY <2>1 DEF CardInit, Statuses
<1>. QED  BY <1>1 DEF CardInit, CardTypeOK, Reasons

CardTypes == /\ card \in BOOLEAN /\ button \in BOOLEAN /\ hide \in BOOLEAN
             /\ active \in Tasks \cup {NoTask} /\ poll \in Own \cup {NoTask}
             /\ why \in Reasons

\* The status of a task that can be heard of.
LEMMA SeenFacts ==
    ASSUME CardTypeOK, NEW t \in Tasks, NEW s \in Seen(t)
    PROVE  s = "running" \/ s \in Ended
  BY DEF CardTypeOK, Seen, Statuses, Ended

LEMMA HandleKeeps ==
    ASSUME CardTypes, CardAndTaskAgree, NEW t \in Tasks,
           NEW s, s = "running" \/ s \in Ended, Handle(t, s)
    PROVE  CardTypes' /\ CardAndTaskAgree'
<1>. USE DEF CardTypes, CardAndTaskAgree
<1>1. CASE active \notin {NoTask, t}
  BY <1>1 DEF Handle, cardVars
<1>2. CASE active \in {NoTask, t} /\ s \in Ended
  <2>1. s # "running"
    BY <1>2 DEF Ended
  <2>2. /\ active' = active /\ card' = TRUE /\ poll' = NoTask /\ hide' = TRUE
        /\ why' = why /\ button' = (s = "running" \/ ~card)
    BY <1>2, <2>1 DEF Handle, HideSoon
  <2>. QED  BY <2>2
<1>3. CASE active \in {NoTask, t} /\ s = "running"
  <2>1. s \notin Ended
    BY <1>3 DEF Ended
  <2>2. /\ active' = t /\ card' = TRUE /\ poll' = poll /\ hide' = (hide /\ card)
        /\ why' = (IF active = NoTask THEN "adopted" ELSE why)
        /\ button' = (s = "running" \/ ~card)
    BY <1>3, <2>1 DEF Handle
  <2>3. why' \in Reasons
    BY <2>2 DEF Reasons
  <2>4. card' \in BOOLEAN /\ button' \in BOOLEAN /\ hide' \in BOOLEAN
    BY <2>2, Zenon
  <2>5. poll # NoTask => active = poll /\ poll = t /\ card /\ ~hide
    BY <1>3
  <2>6. poll' # NoTask => active' = poll' /\ card' /\ ~hide'
    BY <2>2, <2>5, Zenon
  <2>. QED  BY <2>2, <2>3, <2>4, <2>6
<1>. QED  BY <1>1, <1>2, <1>3

\* What the page does with its card, its task and its timers.
LEMMA CardSteps ==
    ASSUME CardTypeOK, CardAndTaskAgree, Page
    PROVE  CardTypes' /\ CardAndTaskAgree'
<1>. USE DEF CardTypes, CardAndTaskAgree
<1>0. CardTypes /\ Own \subseteq Tasks /\ NoTask \notin Own
  BY NamesAssumption DEF CardTypeOK, Tasks
<1>1. CASE HideFires
  BY <1>0, <1>1 DEF HideFires, Reasons
<1>2. CASE PollTick
  BY <1>0, <1>2 DEF PollTick
<1>3. ASSUME NEW t \in Own, Track(t) PROVE CardTypes' /\ CardAndTaskAgree'
  BY <1>0, <1>3 DEF Track, ShowTaskProgress, Reasons
<1>4. ASSUME NEW t \in Own, RequestAnswered(t) PROVE CardTypes' /\ CardAndTaskAgree'
  BY <1>0, <1>4 DEF RequestAnswered, HideSoon
<1>5. ASSUME NEW t \in Own, NEW s \in Seen(t), PollAnswered(t, s)
      PROVE  CardTypes' /\ CardAndTaskAgree'
  <2>1. CASE s \in Ended /\ active \notin {NoTask, t}
    BY <1>0, <1>5, <2>1 DEF PollAnswered, Reasons
  <2>2. CASE Handle(t, s)
    BY <1>0, <1>5, <2>2, SeenFacts, HandleKeeps
  <2>. QED  BY <1>5, <2>1, <2>2 DEF PollAnswered
<1>6. ASSUME NEW t \in Own, PollFails(t) PROVE CardTypes' /\ CardAndTaskAgree'
  BY <1>0, <1>6 DEF PollFails, cardVars
<1>7. ASSUME NEW t \in Tasks, NEW s \in Seen(t), Heard(t, s)
      PROVE  CardTypes' /\ CardAndTaskAgree'
  BY <1>0, <1>7, SeenFacts, HandleKeeps DEF Heard
<1>8. CASE ClickCancel
  <2>1. /\ UNCHANGED <<card, active, why>> /\ button' = FALSE
        /\ \/ poll' = NoTask /\ hide' = TRUE
           \/ UNCHANGED <<poll, hide>>
    BY <1>8 DEF ClickCancel, HideSoon
  <2>2. CASE poll' = NoTask /\ hide' = TRUE
    BY <1>0, <2>1, <2>2, Zenon
  <2>3. CASE UNCHANGED <<poll, hide>>
    BY <1>0, <2>1, <2>3, Zenon
  <2>. QED  BY <2>1, <2>2, <2>3
<1>9. ASSUME NEW t \in Tasks, CancelAnswered(t) PROVE CardTypes' /\ CardAndTaskAgree'
  <2>1. UNCHANGED <<active, poll>>
    BY <1>9 DEF CancelAnswered
  <2>2. CASE UNCHANGED <<card, button, hide, why>>
    BY <1>0, <2>1, <2>2, Zenon
  <2>3. CASE ~card /\ card' = TRUE /\ button' = TRUE /\ hide' = FALSE /\ why' = "late cancel"
    <3>1. why' \in Reasons
      BY <2>3 DEF Reasons
    <3>. QED  BY <1>0, <2>1, <2>3, <3>1, Zenon
  <2>4. CASE button' = TRUE /\ UNCHANGED <<card, hide, why>>
    BY <1>0, <2>1, <2>4, Zenon
  <2>. QED  BY <1>9, <2>2, <2>3, <2>4 DEF CancelAnswered, ShowTaskProgress
<1>10. ASSUME NEW u \in Uploads, NEW n \in 1 .. MaxFiles, StartUpload(u, n)
       PROVE  CardTypes' /\ CardAndTaskAgree'
  BY <1>0, <1>10 DEF StartUpload, ShowTaskProgress
<1>11. ASSUME NEW u \in Uploads, UploadProgress(u) PROVE CardTypes' /\ CardAndTaskAgree'
  BY <1>0, <1>11 DEF UploadProgress, ShowTaskProgress
<1>12. ASSUME NEW u \in Uploads, FileSent(u) PROVE CardTypes' /\ CardAndTaskAgree'
  <2>1. CASE left[u] > 1 /\ ~cancelled
    BY <1>0, <1>12, <2>1 DEF FileSent
  <2>2. CASE ~ (left[u] > 1 /\ ~cancelled)
    <3>1. /\ poll' = NoTask /\ hide' = TRUE /\ UNCHANGED <<active, why>>
          /\ card' = (card \/ ~cancelled)
          /\ button' = (button \/ (~card /\ ~cancelled))
      BY <1>12, <2>2 DEF FileSent, HideSoon
    <3>2. card' \in BOOLEAN /\ button' \in BOOLEAN /\ (card => card')
      BY <3>1, Zenon
    <3>. QED  BY <1>0, <3>1, <3>2
  <2>. QED  BY <2>1, <2>2
<1>. QED
  BY <1>1, <1>2, <1>3, <1>4, <1>5, <1>6, <1>7, <1>8, <1>9, <1>10, <1>11, <1>12
  DEF Page

LEMMA CardTypeNext ==
    ASSUME CardTypeOK, CardAndTaskAgree, CardNext
    PROVE  CardTypeOK'
<1>. USE DEF CardTypeOK
<1>0. /\ Own \subseteq Tasks /\ MaxFiles \in Nat \ {0} /\ Unsent \in Nat
      /\ 1 .. MaxFiles \subseteq 0 .. Unsent /\ 0 \in 0 .. Unsent
  BY FilesAssumption DEF Tasks, Unsent
<1>1. CASE Server
  <2>1. UNCHANGED <<cardVars, uploadVars, polls>>
    BY <1>1 DEF Server, Starts, Ends, ServeCancel, Answers
  <2>2. status' \in [Tasks -> Statuses]
    BY <1>1 DEF Server, Starts, Ends, ServeCancel, Answers, Is, Statuses, Ended
  <2>3. /\ request' \in [Own -> {"idle", "waiting", "ok", "error", "done"}]
        /\ cancels' \in [Tasks -> {"none", "asked", "served"}]
    BY <1>1 DEF Server, Starts, Ends, ServeCancel, Answers
  <2>. QED  BY <2>1, <2>2, <2>3 DEF cardVars, uploadVars
<1>2. CASE Page
  <2>1. UNCHANGED status
    BY <1>2 DEF Page, HideFires, PollTick, Track, RequestAnswered, PollAnswered,
        PollFails, Heard, ClickCancel, CancelAnswered, StartUpload, UploadProgress, FileSent
  <2>2. request' \in [Own -> {"idle", "waiting", "ok", "error", "done"}]
    BY <1>2 DEF Page, HideFires, PollTick, Track, RequestAnswered, PollAnswered,
        PollFails, Heard, ClickCancel, CancelAnswered, StartUpload, UploadProgress, FileSent
  <2>3. cancels' \in [Tasks -> {"none", "asked", "served"}]
    BY <1>2 DEF Page, HideFires, PollTick, Track, RequestAnswered, PollAnswered,
        PollFails, Heard, ClickCancel, CancelAnswered, StartUpload, UploadProgress, FileSent
  <2>4. polls' \subseteq Own
    BY <1>2 DEF Page, HideFires, PollTick, Track, RequestAnswered, PollAnswered,
        PollFails, Heard, ClickCancel, CancelAnswered, StartUpload, UploadProgress, FileSent
  <2>5. xhr' \in Uploads \cup {NoTask} /\ cancelled' \in BOOLEAN
    BY <1>2 DEF Page, HideFires, PollTick, Track, RequestAnswered, PollAnswered,
        PollFails, Heard, ClickCancel, CancelAnswered, StartUpload, UploadProgress, FileSent,
        uploadVars
  <2>6. left' \in [Uploads -> 0 .. Unsent]
    <3>1. ASSUME NEW u \in Uploads, FileSent(u) PROVE left' \in [Uploads -> 0 .. Unsent]
      <4>1. left[u] > 1 => left[u] - 1 \in 0 .. Unsent
        BY <1>0
      <4>. QED  BY <1>0, <3>1, <4>1 DEF FileSent
    <3>2. ASSUME NEW u \in Uploads, NEW n \in 1 .. MaxFiles, StartUpload(u, n)
          PROVE  left' \in [Uploads -> 0 .. Unsent]
      BY <1>0, <3>2 DEF StartUpload
    <3>3. CASE ClickCancel
      BY <1>0, <3>3 DEF ClickCancel, uploadVars
    <3>. QED
      BY <1>2, <3>1, <3>2, <3>3 DEF Page, HideFires, PollTick, Track, RequestAnswered,
          PollAnswered, PollFails, Heard, CancelAnswered, UploadProgress, uploadVars
  <2>7. CardTypes'
    BY <1>2, CardSteps
  <2>. QED  BY <2>1, <2>2, <2>3, <2>4, <2>5, <2>6, <2>7 DEF CardTypes
<1>. QED  BY <1>1, <1>2 DEF CardNext

LEMMA CardInvHolds == CardSpec => [](CardTypeOK /\ CardAndTaskAgree)
<1>1. CardInit => CardAndTaskAgree
  BY DEF CardInit, CardAndTaskAgree
<1>2. CardTypeOK /\ CardAndTaskAgree /\ [CardNext]_pageVars
      => (CardTypeOK /\ CardAndTaskAgree)'
  <2>. SUFFICES ASSUME CardTypeOK, CardAndTaskAgree, [CardNext]_pageVars
                PROVE  CardTypeOK' /\ CardAndTaskAgree'
    OBVIOUS
  <2>1. CASE UNCHANGED pageVars
    BY <2>1 DEF pageVars, cardVars, uploadVars, CardTypeOK, CardAndTaskAgree
  <2>2. CASE Server
    <3>1. UNCHANGED cardVars
      BY <2>2 DEF Server, Starts, Ends, ServeCancel, Answers
    <3>. QED  BY <2>2, <3>1, CardTypeNext DEF CardNext, cardVars, CardAndTaskAgree
  <2>3. CASE Page
    BY <2>3, CardSteps, CardTypeNext DEF CardNext
  <2>. QED  BY <2>1, <2>2, <2>3 DEF CardNext
<1>. QED  BY CardTypeInit, <1>1, <1>2, PTL DEF CardSpec

\* Every variable of the progress card stays in its range.
THEOREM CardTypeCorrect == CardSpec => []CardTypeOK
  BY CardInvHolds, PTL

\* A task that is polled is the one on the card and no timer of an earlier task
\* is about to take the card away; a hidden card has no task (trackTask,
\* handleFileTaskProgress, hideTaskProgress, cancelCurrentTask, the uploads).
THEOREM CardAndTaskStayTogether == CardSpec => []CardAndTaskAgree
  BY CardInvHolds, PTL
=============================================================================
