------------------------------ MODULE FileStore ------------------------------
(***************************************************************************)
(* The file service (app/services/file_service.py) and the upload handler  *)
(* (app/routers/files.py) on the disk: copy, move, delete, extract, rename, *)
(* make a directory, upload.  One request is served at a time; what may    *)
(* come between any two of its steps is its cancellation, an error of the  *)
(* file system or the end of the process.                                  *)
(*                                                                         *)
(* A path is a directory and a name.  What is there is nothing, a file or  *)
(* a directory with files below it: the leaves, each a relative path.  A   *)
(* plain file has the one leaf Self.  A leaf may be a symbolic link, which  *)
(* leads to a place of its own: what is written to it goes there.  The      *)
(* directories on the way to a leaf are left out, and with them links to    *)
(* directories below an item, and so are the number of chunks of a file,    *)
(* attributes and progress reports.                                         *)
(***************************************************************************)
EXTENDS Naturals, Sequences, FiniteSets

CONSTANTS
    Dirs,       \* the directories requests name as places
    DeviceOf,   \* the device each is on
    Names,      \* the names of items
    CopyOf,     \* name -> the name with "_copy" appended, for names short
                \* enough to have one within Names
    Inner,      \* the relative paths of files below a directory
    Self,       \* the only leaf of a plain file
    Contents,   \* what the files hold at first
    Links,      \* the symbolic links,
    LeadsTo,    \* and where each leads: a path and a leaf of what is there
    Trees,      \* the disks a request may find
    MaxSources, \* bound: the items one request names
    MaxJobs     \* bound: requests

\* What else a leaf may hold: no file, a file being written, one left behind half
\* written by a failure, what an upload or an archive put.
Absent  == "absent"
Partial == "partial"
Broken  == "broken"
Fresh   == "fresh"

Paths  == Dirs \X Names
Leaves == Inner \cup {Self}
Bodies == Contents \cup Links \cup {Absent, Partial, Broken, Fresh}
Stems  == DOMAIN CopyOf   \* bound: requests to copy or move name these only

Entry   == [kind : {"none", "file", "dir"}, files : [Leaves -> Bodies]]
Nothing == [kind |-> "none", files |-> [l \in Leaves |-> Absent]]

\* A regular file is there; symbolic links below a directory are not copied.
IsFile(e, l) == e.files[l] # Absent /\ e.files[l] \notin Links
FilesOf(e)   == {l \in Leaves : IsFile(e, l)}
Present(e)   == {l \in Leaves : e.files[l] # Absent}

\* A directory has no leaf Self, a file no other, nothing has none.
WellFormed(e) ==
    /\ e.kind = "file" <=> e.files[Self] # Absent
    /\ e.kind # "dir" => \A l \in Inner : e.files[l] = Absent

\* No link leads to a link.  An item that is a link itself, a link at the top, is
\* resolved by validate_path, so that the request is one for what it leads to,
\* but for an item with a suffixed name: bound: links at the top are there only.
LinksEnd(p, e) ==
    \A l \in Leaves : e.files[l] \in Links =>
        IF l = Self THEN p[2] \notin Stems /\ \A k \in Links : LeadsTo[k] # <<p, Self>>
        ELSE \A k \in Links : LeadsTo[k][2] # l

ASSUME FileStoreAssumption ==
    /\ Dirs # {} /\ Names # {} /\ Self \notin Inner
    /\ Stems \subseteq Names
    /\ CopyOf \in [Stems -> Names]
    /\ \A n \in Stems : CopyOf[n] # n
    /\ Trees \subseteq [Paths -> Entry]
    /\ \A t \in Trees, p \in Paths :
          /\ WellFormed(t[p]) /\ LinksEnd(p, t[p])
          /\ \A l \in Leaves : t[p].files[l] # Partial
    /\ LeadsTo \in [Links -> Paths \X Leaves]
    /\ MaxSources \in Nat /\ MaxJobs \in Nat
    /\ (Contents \cup Links) \cap {Absent, Partial, Broken, Fresh} = {}
    /\ Contents \cap Links = {}

VARIABLES
    fs,         \* the disk
    kind,       \* the request being served, or the last one
    srcs,       \* its sources
    dest,       \* its destination directory
    phase,      \* how far it is
    at,         \* the index of the source being worked on
    tgt,        \* the path being written, kept from one phase to the next
    todo,       \* the files still to copy or unpack
    leaf,       \* the file being written
    cancelled,  \* its task's cancellation was accepted
    result,     \* how the call of the file service ended
    before,     \* history: the disk when the request arrived
    jobs        \* requests so far

reqVars  == <<kind, srcs, dest, before, jobs>>
stepVars == <<phase, at, tgt, todo, leaf, result>>
vars     == <<fs, reqVars, stepVars, cancelled>>

Kinds   == {"none", "copy", "move", "delete", "extract", "rename", "mkdir", "upload"}
Phases  == {"idle", "planning", "item", "copying", "writing", "removing",
            "unpacking", "storing"}
Results == {"none", "ok", "cancelled", "error", "crashed"}

NoPath == <<CHOOSE d \in Dirs : TRUE, CHOOSE n \in Names : TRUE>>

Init ==
    /\ fs \in Trees
    /\ before = fs
    /\ kind = "none" /\ srcs = <<>> /\ dest = NoPath[1]
    /\ phase = "idle" /\ at = 1 /\ tgt = NoPath /\ todo = {} /\ leaf = Self
    /\ cancelled = FALSE /\ result = "none" /\ jobs = 0

-----------------------------------------------------------------------------
(* The disk *)

Exists(p) == fs[p].kind # "none"

\* A link at the top, and the item it leads to.
IsLink(p)  == fs[p].files[Self] \in Links
Landing(p) == IF IsLink(p) THEN LeadsTo[fs[p].files[Self]][1] ELSE p

Put(p, e) == fs' = [fs EXCEPT ![p] = e]

\* Where the leaf l of p is: open(dst, "wb") follows a link.
Spot(p, l) == IF fs[p].files[l] \in Links THEN LeadsTo[fs[p].files[l]] ELSE <<p, l>>

\* A file can be written there: no directory is in its place, and the directory
\* it is to be in is there.
CanWrite(p, l) ==
    LET s == Spot(p, l) IN
    IF s[2] = Self THEN fs[s[1]].kind # "dir" ELSE fs[s[1]].kind = "dir"

\* e with b written to its leaf l.
With(e, l, b) == [kind  |-> IF l = Self THEN "file" ELSE "dir",
                  files |-> [e.files EXCEPT ![l] = b]]

\* The disk with b written to the file at the place s.
WrittenAt(s, b) == [fs EXCEPT ![s[1]] = With(@, s[2], b)]

Write(p, l, b) == fs' = WrittenAt(Spot(p, l), b)

\* e without its leaf l: a file is gone then, a directory is still there.
Without(e, l) == [kind  |-> IF l = Self THEN "none" ELSE e.kind,
                  files |-> [e.files EXCEPT ![l] = Absent]]

MakeDir(e) == [e EXCEPT !.kind = "dir"]

-----------------------------------------------------------------------------
(* Requests and their ends *)

Src         == srcs[at]
DestPath(p) == <<dest, p[2]>>                \* dest_dir / src.name
CopyPath(p) == <<dest, CopyOf[p[2]]>>        \* dest_dir / stem_copy.suffix

Arrive(k, ss, p, ph) ==
    /\ phase = "idle"
    /\ jobs < MaxJobs
    /\ jobs' = jobs + 1
    /\ before' = fs
    /\ kind' = k /\ srcs' = ss /\ dest' = p[1] /\ phase' = ph
    /\ at' = 1 /\ todo' = {} /\ tgt' = p /\ leaf' = Self
    /\ cancelled' = FALSE /\ result' = "none"
    /\ UNCHANGED fs

Sources == UNION {[1..n -> Dirs \X Stems] : n \in 1..MaxSources}

\* copy and move name a destination directory; tgt is set for each item.
RequestTransfer ==
    \E ss \in Sources, d \in Dirs :
        \/ Arrive("copy", ss, <<d, ss[1][2]>>, "planning")
        \/ Arrive("move", ss, <<d, ss[1][2]>>, "item")

RequestDelete == \E ss \in Sources : Arrive("delete", ss, ss[1], "item")

\* extract_archive names the archive and a directory to make; rename, mkdir
\* and upload the path to make.
RequestOther ==
    \E s \in Dirs \X Stems, t \in Paths :
        \/ ~IsLink(t) /\ Arrive("extract", <<s>>, t, "item")
        \/ ~IsLink(t) /\ s[1] = t[1] /\ Arrive("rename", <<s>>, t, "item")
        \/ s = t /\ \E k \in {"mkdir", "upload"} : Arrive(k, <<s>>, t, "item")

\* POST /tasks/{task_id}/cancel while the worker runs.
Cancel == /\ phase # "idle"
          /\ kind \in {"copy", "move", "extract"}
          /\ ~cancelled
          /\ cancelled' = TRUE
          /\ UNCHANGED <<fs, reqVars, stepVars>>

End(r) == /\ phase' = "idle" /\ result' = r /\ todo' = {}
          /\ UNCHANGED <<reqVars, at, tgt, leaf, cancelled>>

Refuse == End("error") /\ UNCHANGED fs

Goto(ph) == /\ phase' = ph
            /\ UNCHANGED <<reqVars, at, leaf, result, cancelled>>

NextSource == /\ phase' = "item" /\ at' = at + 1
              /\ UNCHANGED <<reqVars, tgt, todo, leaf, result, cancelled>>

AtItem(k) == phase = "item" /\ kind = k /\ at <= Len(srcs)

AllDone == /\ phase = "item" /\ at > Len(srcs)
           /\ End("ok")
           /\ UNCHANGED fs

\* The poll before each item: TaskCancelledException.
StopAtItem == /\ AtItem("copy") \/ AtItem("move")
              /\ cancelled
              /\ End("cancelled")
              /\ UNCHANGED fs

-----------------------------------------------------------------------------
(* copy_items, and move_items across devices *)

\* Every source has to be there before the first is copied.
Plan == /\ phase = "planning"
        /\ IF \A i \in 1..Len(srcs) : Exists(srcs[i])
           THEN Goto("item") /\ UNCHANGED <<fs, tgt, todo>>
           ELSE Refuse

\* The copy of Src to t starts: a directory is made if need be, or merged into;
\* a link to a directory will do.
BeginCopy(t) ==
    IF fs[Src].kind = "dir"
    THEN IF fs[Landing(t)].kind = "file"
            \/ (IsLink(t) /\ ~(LeadsTo[fs[t].files[Self]][2] = Self /\ Exists(Landing(t))))
         THEN Refuse
         ELSE /\ Put(Landing(t), MakeDir(fs[Landing(t)]))
              /\ tgt' = Landing(t)
              /\ todo' = FilesOf(fs[Src])
              /\ Goto("copying")
    ELSE /\ tgt' = t
         /\ todo' = FilesOf(fs[Src])
         /\ Goto("copying")
         /\ UNCHANGED fs

\* Mutant: the destination is not looked at.
CopyItem_Unchecked == AtItem("copy") /\ ~cancelled /\ BeginCopy(DestPath(Src))

\* The suffixed name is taken without looking whether it is taken already.
CopyItem ==
    /\ AtItem("copy")
    /\ ~cancelled
    /\ BeginCopy(IF Exists(DestPath(Src)) THEN CopyPath(Src) ELSE DestPath(Src))

\* os.replace on one device, else copy_items followed by the removal.
MoveItem ==
    /\ AtItem("move")
    /\ ~cancelled
    /\ IF ~Exists(Src) \/ Exists(DestPath(Src))
       THEN Refuse
       ELSE IF DeviceOf[Src[1]] = DeviceOf[dest]
       THEN /\ fs' = [fs EXCEPT ![Src] = Nothing, ![DestPath(Src)] = fs[Src]]
            /\ NextSource
       ELSE BeginCopy(DestPath(Src))

\* Mutant: a move goes on to its removal when the copying stops.
StopInWalk_Removes == /\ phase = "copying" /\ cancelled /\ kind = "move"
                      /\ Goto("removing") /\ UNCHANGED <<fs, tgt, todo>>

\* The poll in the walk through a directory; what was copied stays.
StopInWalk == /\ phase = "copying"
              /\ cancelled
              /\ fs[Src].kind = "dir"
              /\ End("cancelled")
              /\ UNCHANGED fs

\* _copy_file_chunked opens both files, which empties the destination.  Files
\* below a directory are polled for first, a plain file is not.
OpenFile == /\ phase = "copying"
            /\ \E l \in todo :
                  IF ~CanWrite(tgt, l)
                  THEN Refuse
                  ELSE /\ l # Self => ~cancelled
                       /\ Write(tgt, l, Partial)
                       /\ leaf' = l /\ phase' = "writing"
                       /\ UNCHANGED <<reqVars, at, tgt, todo, result, cancelled>>

\* What is read of the file being copied: nothing, if it is itself the one that
\* was emptied.
Read == IF fs[Src].files[leaf] = Partial THEN Broken ELSE fs[Src].files[leaf]

\* Mutant: the end of the file is not noticed.
FinishFile_Again == /\ phase = "writing" /\ ~cancelled
                    /\ Goto("copying") /\ UNCHANGED <<fs, tgt, todo>>

\* The last chunk: nobody had cancelled when it was polled for.
FinishFile == /\ phase = "writing"
              /\ ~cancelled
              /\ Write(tgt, leaf, Read)
              /\ todo' = todo \ {leaf}
              /\ tgt' = tgt
              /\ Goto("copying")

\* TaskCancelledException before a chunk: the file is removed, if that works.  Of
\* a link the link is, and what was written behind it stays.
StopInFile == /\ phase = "writing"
              /\ cancelled
              /\ \/ fs' = [WrittenAt(Spot(tgt, leaf), Broken) EXCEPT
                             ![tgt] = Without(@, leaf)]
                 \/ Write(tgt, leaf, Broken)
              /\ End("cancelled")

\* The item is copied; a move looks for a cancellation before it removes.
ItemCopied ==
    /\ phase = "copying"
    /\ todo = {}
    /\ CASE kind = "copy" -> NextSource
         [] kind = "move" /\ cancelled -> End("cancelled")
         [] OTHER -> Goto("removing") /\ UNCHANGED <<tgt, todo>>
    /\ UNCHANGED fs

-----------------------------------------------------------------------------
(* delete_items, and the removal that ends a move across devices *)

DeleteItem == /\ AtItem("delete")
              /\ IF Exists(Src)
                 THEN Goto("removing") /\ UNCHANGED <<fs, tgt, todo>>
                 ELSE Refuse

\* rmtree removes what is below in any order, the directory last.
RemoveLeaf == /\ phase = "removing"
              /\ fs[Src].kind = "dir"
              /\ \E l \in Present(fs[Src]) : Put(Src, Without(fs[Src], l))
              /\ UNCHANGED <<reqVars, stepVars, cancelled>>

\* Mutant: rmtree(ignore_errors=True), and nothing could be removed.
RemoveItem_Ignores == phase = "removing" /\ NextSource /\ UNCHANGED fs

RemoveItem == /\ phase = "removing"
              /\ fs[Src].kind = "dir" => Present(fs[Src]) = {}
              /\ Put(Src, Nothing)
              /\ NextSource

-----------------------------------------------------------------------------
(* extract_archive, rename_item, create_directory, upload_file *)

\* The directory is made before the archive is opened.  No member may end up
\* outside of it, and resolve() looks at the links that are there.
Unpack == /\ AtItem("extract")
          /\ IF ~Exists(Src) \/ fs[tgt].kind = "file"
             THEN Refuse
             ELSE /\ Put(tgt, MakeDir(fs[tgt]))
                  /\ \/ /\ fs[Src].kind = "file"
                        /\ todo' \in SUBSET {l \in Inner : Spot(tgt, l)[1] = tgt}
                        /\ tgt' = tgt /\ Goto("unpacking")
                     \/ /\ fs[Src].kind = "file" => \E l \in Inner : Spot(tgt, l)[1] # tgt
                        /\ End("error")

\* A member is written to what has its path, through a link too (zip, tar), or
\* takes its place (7z).
PutMember(l, b) == \/ CanWrite(tgt, l) /\ Write(tgt, l, b)
                   \/ Put(tgt, With(fs[tgt], l, b))

UnpackMember ==
    /\ phase = "unpacking"
    /\ ~cancelled
    /\ \E l \in todo : /\ PutMember(l, Fresh)
                       /\ todo' = todo \ {l}
    /\ UNCHANGED <<reqVars, phase, at, tgt, leaf, result, cancelled>>

\* Some member that was to come is left half written.
HalfUnpacked == \E l \in todo : PutMember(l, Broken)

\* zip and tar are polled before each member; 7z is killed in the middle.
StopUnpacking == /\ phase = "unpacking"
                 /\ cancelled
                 /\ UNCHANGED fs \/ HalfUnpacked
                 /\ End("cancelled")

Unpacked == /\ phase = "unpacking"
            /\ todo = {}
            /\ End("ok")
            /\ UNCHANGED fs

Rename == /\ AtItem("rename")
          /\ IF ~Exists(Src) \/ Exists(tgt)
             THEN Refuse
             ELSE /\ fs' = [fs EXCEPT ![Src] = Nothing, ![tgt] = fs[Src]]
                  /\ End("ok")

Mkdir == /\ AtItem("mkdir")
         /\ IF Exists(tgt)
            THEN Refuse
            ELSE Put(tgt, MakeDir(Nothing)) /\ End("ok")

\* upload_file empties a file that is there already.
OpenUpload == /\ AtItem("upload")
              /\ IF fs[tgt].kind = "dir"
                 THEN Refuse
                 ELSE /\ Write(tgt, Self, Partial)
                      /\ Goto("storing")
                      /\ UNCHANGED <<tgt, todo>>

Stored == /\ phase = "storing"
          /\ Write(tgt, Self, Fresh)
          /\ End("ok")

-----------------------------------------------------------------------------
(* Failures *)

\* An OSError, a lost upload or the end of the process, between any two steps.
Break(r) == /\ phase # "idle"
            /\ CASE phase \in {"writing", "storing"} ->
                        Write(tgt, leaf, Broken)
                 [] phase = "unpacking" -> UNCHANGED fs \/ HalfUnpacked
                 [] OTHER -> UNCHANGED fs
            /\ End(r)

Copying == Plan \/ CopyItem \/ StopInWalk \/ OpenFile \/ FinishFile
           \/ StopInFile \/ ItemCopied
Work    == \/ Copying \/ MoveItem \/ StopAtItem \/ AllDone
           \/ DeleteItem \/ RemoveLeaf \/ RemoveItem
           \/ Unpack \/ UnpackMember \/ StopUnpacking \/ Unpacked
           \/ Rename \/ Mkdir \/ OpenUpload \/ Stored
Request == RequestTransfer \/ RequestDelete \/ RequestOther

Next == Request \/ Cancel \/ Work \/ Break("error") \/ Break("crashed")

SafetySpec == Init /\ [][Next]_vars

\* A worker thread is scheduled; the files it has to go through are finite.
Spec == SafetySpec /\ WF_vars(Work)

-----------------------------------------------------------------------------
(* Properties *)

\* Every variable stays in its range, and entries stay well formed.
TypeOK ==
    /\ fs \in [Paths -> Entry] /\ before \in [Paths -> Entry]
    /\ \A p \in Paths : WellFormed(fs[p]) /\ LinksEnd(p, fs[p])
    /\ kind \in Kinds /\ phase \in Phases /\ result \in Results
    /\ dest \in Dirs /\ tgt \in Paths
    /\ todo \subseteq Leaves /\ leaf \in Leaves
    /\ srcs \in Seq(Dirs \X Stems) /\ at \in 1..Len(srcs) + 1
    /\ cancelled \in BOOLEAN /\ jobs \in 0..MaxJobs

\* All files of the item orig are in e, whole.
Holds(e, orig) == /\ e.kind = orig.kind
                  /\ \A l \in FilesOf(orig) : e.files[l] = orig.files[l]

\* An item being moved is at every moment either untouched where it was or
\* whole where it is to go, however often and wherever the move is cancelled,
\* fails or is cut off: move_items removes only after copy_items returned and
\* the last poll found no cancellation.
ItemStaysWhole ==
    kind = "move" =>
        \A i \in 1..Len(srcs) :
            \/ before[srcs[i]].kind = "none"
            \/ fs[srcs[i]] = before[srcs[i]]
            \/ Holds(fs[DestPath(srcs[i])], before[srcs[i]])

\* A half-written file is the one being written now, or was left by a failure:
\* a cancelled copy or move removes the file it was in the middle of.
NoStrayPartial ==
    \A p \in Paths, l \in Leaves :
        fs[p].files[l] = Partial =>
            /\ phase \in {"writing", "storing"}
            /\ <<p, l>> = Spot(tgt, leaf)

\* What a request may change.  A copy may change what has a suffixed name, or is
\* behind a link of that name: the code does not look whether the name is free.
Targets  == {DestPath(srcs[i]) : i \in 1..Len(srcs)}
Suffixed == {CopyPath(srcs[i]) : i \in 1..Len(srcs)}
Free     == {p \in Paths : before[p].kind = "none"}
Landings == {LeadsTo[before[p].files[Self]][1] :
                p \in {q \in Suffixed : before[q].files[Self] \in Links}}
MayTouch ==
    CASE kind = "copy"   -> (Targets \cap Free) \cup Suffixed \cup Landings
      [] kind = "move"   -> (Targets \cap Free) \cup {srcs[i] : i \in 1..Len(srcs)}
      [] kind = "delete" -> {srcs[i] : i \in 1..Len(srcs)}
      [] kind = "rename" -> ({tgt} \cap Free) \cup {srcs[i] : i \in 1..Len(srcs)}
      [] kind = "mkdir"  -> {tgt} \cap Free
      [] OTHER           -> {tgt}

\* The files elsewhere that links at these places lead a copy to.
Reached ==
    IF kind # "copy" THEN {}
    ELSE {LeadsTo[k] : k \in {before[p].files[l] : p \in Suffixed \cup Landings,
                                                l \in Leaves} \cap Links}

\* Nothing a request did not ask to change changes, also when it is cancelled
\* or fails, but for the files that links below a suffixed name lead to: copies
\* and moves look for an item in the way before they write, and an archive is
\* not unpacked out of its directory.
TheRestIsUntouched ==
    \A p \in Paths \ MayTouch :
        /\ <<p, Self>> \notin Reached => fs[p].kind = before[p].kind
        /\ \A l \in Leaves : <<p, l>> \notin Reached => fs[p].files[l] = before[p].files[l]

\* No two sources have one name or one suffixed name ("x_copy." and "x._copy"
\* have), no suffixed name is that of a source or of a target, and no link there
\* leads to any of these.
Apart ==
    /\ \A i, j \in 1..Len(srcs) :
          /\ i # j => srcs[i][2] # srcs[j][2] /\ CopyPath(srcs[i]) # CopyPath(srcs[j])
          /\ CopyPath(srcs[i]) # srcs[j]
          /\ CopyPath(srcs[i]) # DestPath(srcs[j])
    /\ Landings = {}
    /\ \A s \in Reached, i \in 1..Len(srcs) :
          s[1] \notin {srcs[i], DestPath(srcs[i]), CopyPath(srcs[i])}

\* What is answered as done is done: moved items are at the destination and no
\* longer at their source, deleted ones are gone, copied ones are in both
\* places, as long as the suffixed names do not run into each other.
DoneMeansDone ==
    result = "ok" =>
        /\ kind = "move" => \A i \in 1..Len(srcs) :
              ~Exists(srcs[i]) /\ Holds(fs[DestPath(srcs[i])], before[srcs[i]])
        /\ kind = "delete" => \A i \in 1..Len(srcs) : ~Exists(srcs[i])
        /\ kind = "copy" /\ Apart => \A i \in 1..Len(srcs) :
              /\ fs[srcs[i]] = before[srcs[i]]
              /\ \E t \in {DestPath(srcs[i]), CopyPath(srcs[i])} :
                    \A l \in FilesOf(before[srcs[i]]) :
                       fs[t].files[l] \in {before[srcs[i]].files[l]} \cup Links

\* Every request comes to an end, with or without cancellations and failures.
EveryRequestEnds == phase # "idle" ~> phase = "idle"
=============================================================================
