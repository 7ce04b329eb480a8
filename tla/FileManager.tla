------------------------------- MODULE FileManager -------------------------------
(***************************************************************************)
(* The file manager of the page (static/js/components/files.js): the       *)
(* listing it shows, the selection, the clipboard, the transfer dialog and *)
(* the operations it asks of the server.                                   *)
(*                                                                         *)
(* A step is what a handler runs between two awaits.  The server is        *)
(* reduced to a version that every change raises; a listing carries the    *)
(* version it was read at, and what is in it is left open.                 *)
(***************************************************************************)
EXTENDS Naturals

CONSTANTS
    Dirs,       \* the directories the user visits
    Names,      \* names of items in a directory
    Ops,        \* operations, each once
    None,       \* no directory, no item
    MaxSeq      \* bound: how many listings are asked for

ASSUME NoneAssumption == None \notin Dirs
ASSUME BoundAssumption == MaxSeq \in Nat \ {0}

VARIABLES
    current,    \* currentPath
    rows,       \* the paths of the rows of the table
    ticks,      \* the rows whose checkbox is checked
    marks,      \* the rows that look cut
    selected,   \* selectedItems
    clip,       \* clipboard
    dialog,     \* transferModalItems, {} when the dialog is closed
    seq,        \* _navigationSequence
    navs,       \* listings that were asked for and have not arrived
    op,         \* operation -> where it is
    version,    \* the server's version: one more with every change
    shown,      \* the version of the rows
    mine,       \* the version after the last operation answered as done
    asked,      \* the directory the user asked for last, None: the default one
    overtaken,  \* a refresh was asked for while that one was on its way
    failed      \* the listing asked for last failed

tableVars  == <<current, rows, ticks, marks, selected, shown>>
navVars    == <<seq, navs, overtaken, failed>>
serverVars == <<version>>
vars == <<tableVars, navVars, clip, dialog, op, version, mine, asked>>

Paths    == Dirs \X Names
NoClip   == [action |-> "none", items |-> {}]
Kinds    == {"paste copy", "paste move", "transfer copy", "transfer move", "delete", "edit", "upload"}
Unasked  == [at |-> "idle", kind |-> "edit", items |-> {}, ver |-> 0]
Over     == [Unasked EXCEPT !.at = "done"]

TypeOK ==
    /\ current \in Dirs \cup {None}
    /\ rows \subseteq Paths /\ ticks \subseteq Paths /\ marks \subseteq Paths
    /\ selected \subseteq Paths /\ dialog \subseteq Paths
    /\ clip \in [action : {"none", "copy", "move"}, items : SUBSET Paths]
    /\ seq \in 1 .. MaxSeq
    /\ navs \subseteq [seq : 1 .. MaxSeq, target : Dirs \cup {None},
                       ver : Nat]
    /\ op \in [Ops -> [at : {"idle", "asking", "sent", "ok", "error", "done"}, kind : Kinds,
                       items : SUBSET Paths, ver : Nat]]
    /\ version \in Nat /\ shown \in Nat /\ mine \in Nat
    /\ asked \in Dirs \cup {None}
    /\ overtaken \in BOOLEAN /\ failed \in BOOLEAN

Ask(s, dir) == [seq |-> s, target |-> dir, ver |-> 0]

\* init: the default directory is asked for.
Init ==
    /\ current = None
    /\ rows = {} /\ ticks = {} /\ marks = {} /\ selected = {}
    /\ clip = NoClip
    /\ dialog = {}
    /\ seq = 1
    /\ navs = {Ask(1, None)}
    /\ op = [o \in Ops |-> Unasked]
    /\ version = 1
    /\ shown = 0 /\ mine = 0
    /\ asked = None
    /\ overtaken = FALSE
    /\ failed = FALSE

-----------------------------------------------------------------------------
(* Listings *)

\* navigate: another listing is asked for, and only it will be shown.
AskFor(dir) ==
    /\ seq < MaxSeq
    /\ seq' = seq + 1
    /\ navs' = navs \cup {Ask(seq + 1, dir)}
    /\ failed' = FALSE

\* The user opens a directory: a row, a breadcrumb, a storage chip.
Navigate(dir) ==
    /\ AskFor(dir)
    /\ asked' = dir
    /\ overtaken' = FALSE
    /\ UNCHANGED <<tableVars, clip, dialog, op, version, mine>>

\* refresh: the directory that is shown, whatever is on its way.
Refreshed ==
    IF current = None
    THEN UNCHANGED navVars
    ELSE /\ AskFor(current)
         /\ overtaken' = (overtaken \/ asked \notin {None, current}
                          \/ (asked = None /\ \E n \in navs : n.seq = seq /\ n.target = None))

\* The refresh button, hidden files, a storage_update, new roots.
Refresh ==
    /\ current # None
    /\ Refreshed
    /\ UNCHANGED <<tableVars, clip, dialog, op, version, mine, asked>>

\* The server reads the directory.
Serve(n) ==
    /\ n.ver = 0
    /\ navs' = (navs \ {n}) \cup {[n EXCEPT !.ver = version]}
    /\ UNCHANGED <<tableVars, seq, overtaken, failed, clip, dialog, op, version, mine, asked>>

Cut == IF clip.action = "move" THEN clip.items ELSE {}

\* Mutant: the selection outlives the rows it was made in.
Show_KeepSelection(n) ==
    \E dir \in IF n.target = None THEN Dirs ELSE {n.target} :
        /\ current' = dir
        /\ rows' \in SUBSET ({dir} \X Names)
        /\ ticks' = {}
        /\ marks' = Cut \cap rows'
        /\ shown' = n.ver
        /\ UNCHANGED selected

\* The rows of the listing, with nothing selected.
Show(n) ==
    \E dir \in IF n.target = None THEN Dirs ELSE {n.target} :
        /\ current' = dir
        /\ rows' \in SUBSET ({dir} \X Names)
        /\ ticks' = {}
        /\ marks' = Cut \cap rows'
        /\ shown' = n.ver
        /\ selected' = {}

\* Mutant: whichever listing arrives is shown.
Arrived_Any(n) ==
    /\ n.ver # 0
    /\ navs' = navs \ {n}
    /\ \/ Show(n) /\ UNCHANGED <<asked, failed>>
       \/ failed' = TRUE /\ asked' = current /\ UNCHANGED tableVars
    /\ UNCHANGED <<seq, overtaken, clip, dialog, op, version, mine>>

\* A listing arrives, or an error instead of it: it matters only if no other was
\* asked for since.
Arrived(n) ==
    /\ n.ver # 0
    /\ navs' = navs \ {n}
    /\ \/ n.seq # seq /\ UNCHANGED <<tableVars, asked, failed>>
       \/ n.seq = seq /\ Show(n) /\ UNCHANGED <<asked, failed>>
       \/ n.seq = seq /\ failed' = TRUE /\ asked' = current /\ UNCHANGED tableVars
    /\ UNCHANGED <<seq, overtaken, clip, dialog, op, version, mine>>

-----------------------------------------------------------------------------
(* Selection, clipboard, transfer dialog *)

Tick(p) ==
    /\ p \in rows
    /\ ticks' = (ticks \ {p}) \cup ({p} \ ticks)
    /\ selected' = IF p \in ticks THEN selected \ {p} ELSE selected \cup {p}
    /\ UNCHANGED <<current, rows, marks, shown, navVars, clip, dialog, op, version, mine, asked>>

\* The checkbox of the header, as it is or after it was cleared by a new listing.
SelectAll(on) ==
    /\ ticks' = IF on THEN rows ELSE {}
    /\ selected' = IF on THEN selected \cup rows ELSE selected \ rows
    /\ UNCHANGED <<current, rows, marks, shown, navVars, clip, dialog, op, version, mine, asked>>

\* setClipboard marks the rows that were cut.
SetClipboard(action, items) ==
    /\ clip' = [action |-> action, items |-> items]
    /\ marks' = IF action = "move" THEN items \cap rows ELSE {}
    /\ UNCHANGED <<current, rows, ticks, selected, shown, navVars, dialog, op, version, mine, asked>>

\* The selection, or the item of one row, is copied or cut.
ToClipboard ==
    \E action \in {"copy", "move"} :
        \/ selected # {} /\ SetClipboard(action, selected)
        \/ \E p \in rows : SetClipboard(action, {p})

ClearedClip ==
    /\ clip' = NoClip
    /\ marks' = {}

\* Escape, or the button of the clipboard bar.
ClearClipboard ==
    /\ clip # NoClip
    /\ ClearedClip
    /\ UNCHANGED <<current, rows, ticks, selected, shown, navVars, dialog, op, version, mine, asked>>

OpenTransfer ==
    /\ selected # {}
    /\ dialog = {}
    /\ dialog' = selected
    /\ UNCHANGED <<tableVars, navVars, clip, op, version, mine, asked>>

CloseTransfer ==
    /\ dialog # {}
    /\ dialog' = {}
    /\ UNCHANGED <<tableVars, navVars, clip, op, version, mine, asked>>

-----------------------------------------------------------------------------
(* Operations *)

Busy(kinds) == \E o \in Ops : op[o].kind \in kinds /\ op[o].at \in {"asking", "sent", "ok", "error"}

\* Only of a transfer it matters later which items it is about.
Begin(o, at, kind, items) ==
    /\ op[o].at = "idle"
    /\ op' = [op EXCEPT ![o] = [Unasked EXCEPT !.at = at, !.kind = kind, !.items = items]]
    /\ UNCHANGED <<tableVars, navVars, clip, dialog, version, mine, asked>>

\* executePaste: Ctrl+V does not ask whether another paste is at work.
Paste(o) ==
    /\ clip # NoClip
    /\ current # None
    /\ Begin(o, "sent", IF clip.action = "copy" THEN "paste copy" ELSE "paste move", {})

\* handleTransferSubmit: its button is disabled while another one is at work.
SubmitTransfer(o) ==
    /\ dialog # {}
    /\ ~Busy({"transfer copy", "transfer move"})
    /\ \E kind \in {"transfer copy", "transfer move"} : Begin(o, "sent", kind, dialog)

\* confirmDelete: asks first, for the selection or for one row.
AskDelete(o) ==
    /\ ~Busy({"delete"})
    /\ rows # {} \/ selected # {}
    /\ Begin(o, "asking", "delete", {})

\* promptNewFolder, promptRename, handleFilesUpload.
Edit(o) ==
    /\ current # None
    /\ \E kind \in {"edit", "upload"} : Begin(o, "sent", kind, {})

AnswerDialog(o) ==
    /\ op[o].at = "asking"
    /\ \E answer \in {[op[o] EXCEPT !.at = "sent"], Over} : op' = [op EXCEPT ![o] = answer]
    /\ UNCHANGED <<tableVars, navVars, clip, dialog, version, mine, asked>>

\* The server does it, or fails before or after a change.
Done(o) ==
    /\ op[o].at = "sent"
    /\ \E at \in {"ok", "error"}, change \in {0, 1} :
          /\ at = "ok" => change = 1
          /\ version' = version + change
          /\ op' = [op EXCEPT ![o].at = at, ![o].ver = version + change]
    /\ UNCHANGED <<tableVars, navVars, clip, dialog, mine, asked>>

\* What the answer of a finished operation does to selection, clipboard, dialog.
\* A move that was pasted clears the clipboard, whatever is on it by now.
Settles(o) ==
    LET kind == op[o].kind
        cuts == \/ kind = "paste move"
                \/ kind = "transfer move" /\ clip.items \cap op[o].items # {}
    IN  /\ IF cuts THEN ClearedClip ELSE UNCHANGED <<clip, marks>>
        /\ selected' = IF kind \in {"transfer copy", "transfer move", "delete"} THEN {} ELSE selected
        /\ dialog' = IF kind \in {"transfer copy", "transfer move"} THEN {} ELSE dialog

\* Mutant: a finished operation does not refresh the listing.
Answered_NoRefresh(o) ==
    /\ op[o].at \in {"ok", "error"}
    /\ op' = [op EXCEPT ![o] = Over]
    /\ IF op[o].at = "ok"
       THEN /\ Settles(o)
            /\ mine' = op[o].ver
            /\ UNCHANGED navVars
       ELSE /\ UNCHANGED <<clip, marks, selected, dialog, mine>>
            /\ IF op[o].kind = "upload" THEN Refreshed ELSE UNCHANGED navVars
    /\ UNCHANGED <<current, rows, ticks, shown, version, asked>>

\* The answer: a finished operation is followed by a refresh, a failed one only if
\* it is an upload.
Answered(o) ==
    /\ op[o].at \in {"ok", "error"}
    /\ op' = [op EXCEPT ![o] = Over]
    /\ IF op[o].at = "ok"
       THEN /\ Settles(o)
            /\ mine' = op[o].ver
            /\ Refreshed
       ELSE /\ UNCHANGED <<clip, marks, selected, dialog, mine>>
            /\ IF op[o].kind = "upload" THEN Refreshed ELSE UNCHANGED navVars
    /\ UNCHANGED <<current, rows, ticks, shown, version, asked>>

-----------------------------------------------------------------------------

Next ==
    \/ \E dir \in Dirs : Navigate(dir)
    \/ Refresh
    \/ \E n \in navs : Serve(n) \/ Arrived(n)
    \/ \E p \in rows : Tick(p)
    \/ \E on \in BOOLEAN : SelectAll(on)
    \/ ToClipboard \/ ClearClipboard \/ OpenTransfer \/ CloseTransfer
    \/ \E o \in Ops :
          \/ Paste(o) \/ SubmitTransfer(o) \/ AskDelete(o) \/ Edit(o)
          \/ AnswerDialog(o) \/ Done(o) \/ Answered(o)

Spec == Init /\ [][Next]_vars

-----------------------------------------------------------------------------

\* What the buttons act on is what the rows show: only rows with a checked box are
\* selected, and the rows that look cut are those a paste would move.
WhatIsShownIsMeant ==
    /\ selected \subseteq ticks
    /\ ticks \subseteq rows
    /\ marks = Cut \cap rows

AtRest == \A n \in navs : n.seq # seq

\* However listings are delayed, the one that stays is of the directory the user
\* asked for last, unless a refresh asked for the old one while it was on its way.
TheLastWishIsShown == AtRest => asked \in {None, current} \/ overtaken

\* Once a finished operation is answered and nothing is on its way, the rows are
\* not older than its effect: no late listing hides what the user just did.
OwnChangesShow == AtRest => shown >= mine \/ failed
=============================================================================
