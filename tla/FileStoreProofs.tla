--------------------------- MODULE FileStoreProofs ---------------------------
(***************************************************************************)
(* Safety of the file service for every tree, every set of paths and       *)
(* requests of every length.                                               *)
(***************************************************************************)
EXTENDS FileStore, TLAPS

Index == 1..Len(srcs)

AtWork == phase \in {"copying", "writing", "removing", "unpacking", "storing"}

\* Which request each phase belongs to; a phase on an item has one.
PhaseInv ==
    /\ phase = "planning" => kind = "copy"
    /\ phase \in {"copying", "writing"} => kind \in {"copy", "move"}
    /\ phase = "removing"  => kind \in {"move", "delete"}
    /\ phase = "unpacking" => kind = "extract"
    /\ phase = "storing"   => kind = "upload"
    /\ AtWork => at \in Index
    /\ kind = "none" => phase = "idle"

\* Entries that are well formed, and whose links lead to no link.
Tidy(d) == \A p \in Paths : WellFormed(d[p]) /\ LinksEnd(p, d[p])
USE DEF Tidy

\* A copy takes nothing away and makes no link while it goes on, and the file
\* being written can be.
CopyInv ==
    /\ kind = "copy" /\ phase \in {"item", "copying", "writing"} =>
          /\ \A i \in Index : Exists(srcs[i])
          /\ \A p \in Paths : before[p].kind # "none" => Exists(p)
          /\ \A p \in Paths, l \in Leaves :
                fs[p].files[l] \in Links => before[p].files[l] = fs[p].files[l]
    /\ phase = "planning" => fs = before
    /\ phase \in {"copying", "writing"} => todo \subseteq FilesOf(fs[Src])
    /\ phase = "writing" => leaf \in todo /\ CanWrite(tgt, leaf)

\* Entries stay well formed when a file is unpacked or stored.
OtherInv ==
    /\ phase = "unpacking" => /\ fs[tgt].kind = "dir"
                              /\ todo \subseteq Inner
                              /\ \A l \in todo : Spot(tgt, l)[1] = tgt
    /\ phase = "storing" => fs[tgt].kind = "file"
    /\ kind = "upload" => leaf = Self /\ tgt[2] \in Stems

\* A move across devices: its source is as it was until all of it is at the
\* destination, which was free and holds no link that a write could follow.
MoveInv ==
    kind = "move" =>
        /\ phase \in {"item", "copying", "writing"} =>
              \A p \in Paths : p[1] # dest =>
                  fs[p] = before[p] \/ fs[p] = Nothing
        /\ phase = "removing" =>
              \A p \in Paths \ {Src} : p[1] # dest =>
                  fs[p] = before[p] \/ fs[p] = Nothing
        /\ phase \in {"copying", "writing", "removing"} =>
              Src[1] # dest /\ tgt = DestPath(Src)
        /\ phase \in {"copying", "writing"} =>
              /\ Exists(Src)
              /\ \A l \in FilesOf(fs[Src]) \ todo :
                    fs[tgt].files[l] = fs[Src].files[l]
              /\ \A l \in Leaves : fs[tgt].files[l] \notin Links
              /\ todo = {} => fs[tgt].kind = fs[Src].kind
              /\ before[tgt].kind = "none"
              /\ \A i \in Index : DestPath(srcs[i]) = tgt =>
                    before[srcs[i]].kind = "none" \/ fs[srcs[i]] = before[srcs[i]]
        /\ phase = "removing" => Holds(fs[tgt], before[Src])

\* What is written or removed may be touched.
TouchInv ==
    /\ phase \in {"copying", "writing", "unpacking", "storing"} => tgt \in MayTouch
    /\ phase = "removing" => Src \in MayTouch

IInv == /\ TypeOK /\ Tidy(before) /\ PhaseInv /\ CopyInv /\ OtherInv /\ MoveInv /\ TouchInv
        /\ ItemStaysWhole /\ NoStrayPartial /\ TheRestIsUntouched

-----------------------------------------------------------------------------
(* The operators on entries *)

\* The marks differ from each other, from every content and from every link.
LEMMA BodyFacts ==
    /\ Contents \subseteq Bodies
    /\ {Absent, Partial, Broken, Fresh} \subseteq Bodies
    /\ Absent # Partial /\ Absent # Broken /\ Absent # Fresh
    /\ Partial # Broken /\ Partial # Fresh
    /\ Absent \notin Links /\ Partial \notin Links
    /\ Broken \notin Links /\ Fresh \notin Links
BY FileStoreAssumption DEF Bodies, Absent, Partial, Broken, Fresh

\* What a write does to an entry, leaf by leaf.
LEMMA WithFacts ==
    ASSUME NEW e \in Entry, NEW l \in Leaves, NEW b \in Bodies
    PROVE  /\ With(e, l, b) \in Entry
           /\ With(e, l, b).kind = IF l = Self THEN "file" ELSE "dir"
           /\ With(e, l, b).files[l] = b
           /\ \A m \in Leaves \ {l} : With(e, l, b).files[m] = e.files[m]
BY DEF With, Entry

\* What a removal does to an entry, leaf by leaf.
LEMMA WithoutFacts ==
    ASSUME NEW e \in Entry, NEW l \in Leaves
    PROVE  /\ Without(e, l) \in Entry
           /\ Without(e, l).kind = IF l = Self THEN "none" ELSE e.kind
           /\ Without(e, l).files[l] = Absent
           /\ \A m \in Leaves \ {l} : Without(e, l).files[m] = e.files[m]
BY BodyFacts DEF Without, Entry

\* Entries are the same if their kinds and leaves are.
LEMMA SameEntry ==
    ASSUME NEW e \in Entry, NEW f \in Entry, e.kind = f.kind,
           \A l \in Leaves : e.files[l] = f.files[l]
    PROVE  e = f
<1>1. e.files = f.files
  BY DEF Entry
<1> QED
  BY <1>1 DEF Entry

\* A directory is made with nothing in it, or is there already.
LEMMA MakeDirFacts ==
    ASSUME NEW e \in Entry
    PROVE  /\ MakeDir(e) \in Entry
           /\ MakeDir(e).kind = "dir"
           /\ MakeDir(e).files = e.files
BY DEF MakeDir, Entry

\* The empty entry is well formed.
LEMMA NothingFacts == /\ Nothing \in Entry
                      /\ Nothing.kind = "none"
                      /\ \A l \in Leaves : Nothing.files[l] = Absent
                      /\ WellFormed(Nothing)
                      /\ \A p \in Paths : LinksEnd(p, Nothing)
BY FileStoreAssumption, BodyFacts DEF Nothing, Entry, WellFormed, LinksEnd, Leaves

\* Fewer links end where more do.
LEMMA FewerLinks ==
    ASSUME NEW p \in Paths, NEW e, NEW f, LinksEnd(p, e),
           \A l \in Leaves : f.files[l] \in Links => f.files[l] = e.files[l]
    PROVE  LinksEnd(p, f)
BY DEF LinksEnd

\* An item of a name that requests use is no link, wherever it goes.
LEMMA MovedLinks ==
    ASSUME NEW p \in Paths, NEW q \in Paths, NEW e, LinksEnd(p, e), p[2] \in Stems
    PROVE  LinksEnd(q, e) /\ e.files[Self] \notin Links
BY DEF LinksEnd, Leaves

\* An entry is well formed again after a write of the right kind.
LEMMA WithWellFormed ==
    ASSUME NEW e \in Entry, WellFormed(e), NEW l \in Leaves, NEW b \in Bodies, b # Absent,
           l = Self => e.kind # "dir", l # Self => e.kind = "dir"
    PROVE  WellFormed(With(e, l, b))
<1>1. Self \in Leaves /\ Inner \subseteq Leaves /\ Self \notin Inner
  BY FileStoreAssumption DEF Leaves
<1>2. CASE l = Self
  BY <1>1, <1>2, WithFacts DEF WellFormed
<1>3. CASE l # Self
  BY <1>1, <1>3, WithFacts DEF WellFormed
<1> QED BY <1>2, <1>3

\* And after the removal of a file.
LEMMA WithoutWellFormed ==
    ASSUME NEW e \in Entry, WellFormed(e), NEW l \in Leaves,
           l = Self => e.kind # "dir", l # Self => e.kind = "dir"
    PROVE  WellFormed(Without(e, l))
<1>1. Self \in Leaves /\ Inner \subseteq Leaves /\ Self \notin Inner
  BY FileStoreAssumption DEF Leaves
<1>2. CASE l = Self
  BY <1>1, <1>2, WithoutFacts, BodyFacts DEF WellFormed
<1>3. CASE l # Self
  BY <1>1, <1>3, WithoutFacts, BodyFacts DEF WellFormed
<1> QED BY <1>2, <1>3

\* And after a directory is made.
LEMMA MakeDirWellFormed ==
    ASSUME NEW e \in Entry, WellFormed(e), e.kind # "file"
    PROVE  WellFormed(MakeDir(e))
BY MakeDirFacts DEF WellFormed

\* A file is written where no link is, and where its leaf is unless that is one.
LEMMA SpotFacts ==
    ASSUME TypeOK, NEW p \in Paths, NEW l \in Leaves
    PROVE  /\ Spot(p, l) \in Paths \X Leaves
           /\ fs[Spot(p, l)[1]].files[Spot(p, l)[2]] \notin Links
           /\ fs[p].files[l] \notin Links => Spot(p, l) = <<p, l>>
<1>1. CASE fs[p].files[l] \notin Links
  BY <1>1 DEF Spot
<1>2. CASE fs[p].files[l] \in Links
  <2> DEFINE k == fs[p].files[l]
  <2>1. k \in Links /\ Spot(p, l) = LeadsTo[k]
    BY <1>2 DEF Spot
  <2> HIDE DEF k
  <2>2. PICK q \in Paths, m \in Leaves : LeadsTo[k] = <<q, m>>
    BY <2>1, FileStoreAssumption
  <2>3. LinksEnd(q, fs[q])
    BY <2>2 DEF TypeOK
  <2>4. fs[q].files[m] \notin Links
    BY <2>1, <2>2, <2>3 DEF LinksEnd
  <2> QED
    BY <1>2, <2>1, <2>2, <2>4
<1> QED
  BY <1>1, <1>2

\* What a write does to the disk: at the place s, and nowhere else.
LEMMA WriteFacts ==
    ASSUME TypeOK, NEW p \in Paths, NEW l \in Leaves,
           NEW b \in Bodies \ ({Absent} \cup Links),
           CanWrite(p, l), Write(p, l, b), NEW s, s = Spot(p, l)
    PROVE  /\ s \in Paths \X Leaves
           /\ fs' \in [Paths -> Entry] /\ Tidy(fs')
           /\ fs'[s[1]].files[s[2]] = b
           /\ fs[s[1]].files[s[2]] \notin Links
           /\ \A q \in Paths, m \in Leaves :
                 <<q, m>> # s => fs'[q].files[m] = fs[q].files[m]
           /\ \A q \in Paths \ {s[1]} : fs'[q] = fs[q]
           /\ fs'[s[1]].kind = IF s[2] = Self THEN "file" ELSE "dir"
           /\ s[2] # Self => fs'[s[1]].kind = fs[s[1]].kind
           /\ \A q \in Paths : fs[q].kind # "none" => fs'[q].kind # "none"
           /\ s = IF fs'[p].files[l] \in Links THEN LeadsTo[fs'[p].files[l]] ELSE <<p, l>>
<1>1. PICK q \in Paths, m \in Leaves : s = <<q, m>>
  BY SpotFacts
<1>2. /\ fs[q].files[m] \notin Links
      /\ fs[p].files[l] \notin Links => s = <<p, l>>
  <2>1. Spot(p, l)[1] = q /\ Spot(p, l)[2] = m
    BY <1>1
  <2> QED
    BY <2>1, SpotFacts
<1>3. IF m = Self THEN fs[q].kind # "dir" ELSE fs[q].kind = "dir"
  BY <1>1 DEF CanWrite
<1>4. fs' = [fs EXCEPT ![q] = With(fs[q], m, b)]
  BY <1>1 DEF Write, WrittenAt, TypeOK
<1>5. fs[q] \in Entry /\ WellFormed(fs[q]) /\ LinksEnd(q, fs[q])
  BY DEF TypeOK
<1>6. /\ With(fs[q], m, b) \in Entry
      /\ WellFormed(With(fs[q], m, b)) /\ LinksEnd(q, With(fs[q], m, b))
  <2>1. With(fs[q], m, b) \in Entry /\ WellFormed(With(fs[q], m, b))
    BY <1>3, <1>5, WithFacts, WithWellFormed
  <2>2. \A n \in Leaves : With(fs[q], m, b).files[n] \in Links =>
                            With(fs[q], m, b).files[n] = fs[q].files[n]
    BY <1>5, WithFacts
  <2> QED
    BY <1>5, <2>1, <2>2, FewerLinks
<1>7. /\ fs' \in [Paths -> Entry]
      /\ fs'[q] = With(fs[q], m, b)
      /\ \A r \in Paths \ {q} : fs'[r] = fs[r]
  BY <1>4, <1>6 DEF TypeOK
<1>8. Tidy(fs')
  BY <1>6, <1>7 DEF TypeOK
<1>9. /\ fs'[q].files[m] = b /\ fs'[q].kind = IF m = Self THEN "file" ELSE "dir"
      /\ \A n \in Leaves \ {m} : fs'[q].files[n] = fs[q].files[n]
  BY <1>5, <1>7, WithFacts
<1>10. \A r \in Paths, n \in Leaves : <<r, n>> # s => fs'[r].files[n] = fs[r].files[n]
  BY <1>1, <1>7, <1>9
<1>11. s = IF fs'[p].files[l] \in Links THEN LeadsTo[fs'[p].files[l]] ELSE <<p, l>>
  <2>1. CASE fs[p].files[l] \in Links
    BY <1>1, <1>2, <1>10, <2>1 DEF Spot
  <2>2. CASE fs[p].files[l] \notin Links
    BY <1>1, <1>2, <1>9, <2>2
  <2> QED
    BY <2>1, <2>2
<1>12. \A r \in Paths : fs[r].kind # "none" => fs'[r].kind # "none"
  BY <1>7, <1>9
<1> QED
  BY <1>1, <1>2, <1>3, <1>7, <1>8, <1>9, <1>10, <1>11, <1>12

-----------------------------------------------------------------------------
(* Paths and requests *)

\* The paths a request names and the ones it derives from them are paths.
LEMMA PathFacts ==
    ASSUME TypeOK, NEW i \in Index
    PROVE  /\ srcs[i] \in Paths
           /\ DestPath(srcs[i]) \in Paths /\ DestPath(srcs[i])[1] = dest
           /\ CopyPath(srcs[i]) \in Paths /\ CopyPath(srcs[i])[1] = dest
           /\ CopyPath(srcs[i]) # srcs[i]
           /\ srcs[i][1] = dest => DestPath(srcs[i]) = srcs[i]
BY FileStoreAssumption DEF TypeOK, Index, Paths, DestPath, CopyPath, Stems

\* What a request may touch is settled when it arrives.
LEMMA SameRequest ==
    ASSUME UNCHANGED <<kind, srcs, dest, before>>,
           tgt' = tgt \/ kind \in {"copy", "move", "delete"}
    PROVE  MayTouch' = MayTouch /\ Reached' = Reached
<1>1. Suffixed' = Suffixed /\ Landings' = Landings
  BY DEF Suffixed, Landings, CopyPath
<1>2. Targets' = Targets /\ Free' = Free
  BY DEF Targets, Free, DestPath
<1>3. Reached' = Reached
  BY <1>1 DEF Reached
<1> QED
  BY <1>1, <1>2, <1>3 DEF MayTouch

\* The first state satisfies the invariant.
LEMMA InitInv == Init => IInv
<1> SUFFICES ASSUME Init PROVE IInv
  OBVIOUS
<1>1. fs \in [Paths -> Entry] /\ before = fs
  BY FileStoreAssumption DEF Init
<1>2. Tidy(fs) /\ \A p \in Paths, l \in Leaves : fs[p].files[l] # Partial
  BY FileStoreAssumption DEF Init
<1>3. NoPath \in Paths /\ NoPath[1] \in Dirs
  BY FileStoreAssumption DEF NoPath, Paths
<1>4. TypeOK
  <2>1. srcs \in Seq(Dirs \X Stems) /\ Len(srcs) = 0
    BY DEF Init
  <2>2. at \in 1..Len(srcs) + 1 /\ jobs \in 0..MaxJobs
    BY <2>1, FileStoreAssumption DEF Init
  <2> QED
    BY <1>1, <1>2, <1>3, <2>1, <2>2 DEF Init, TypeOK, Kinds, Phases, Results, Leaves
<1>5. NoStrayPartial /\ TheRestIsUntouched /\ ItemStaysWhole
  BY <1>1, <1>2 DEF Init, NoStrayPartial, TheRestIsUntouched, ItemStaysWhole
<1>6. PhaseInv /\ CopyInv /\ OtherInv /\ MoveInv /\ TouchInv
  BY DEF Init, PhaseInv, AtWork, CopyInv, OtherInv, MoveInv, TouchInv
<1> QED
  BY <1>1, <1>2, <1>4, <1>5, <1>6 DEF IInv

-----------------------------------------------------------------------------
(* Steps that leave the disk alone *)

\* A request arrives on a disk without half-written files.
LEMMA ArriveInv ==
    ASSUME IInv, NEW k \in Kinds \ {"none"}, NEW ss \in Seq(Dirs \X Stems), Len(ss) > 0,
           NEW p \in Paths, NEW ph \in {"planning", "item"},
           ph = "planning" <=> k = "copy", k = "upload" => p[2] \in Stems,
           Arrive(k, ss, p, ph)
    PROVE  IInv'
<1> USE DEF IInv
<1>1. TypeOK'
  <2>1. at' \in 1..Len(srcs') + 1 /\ jobs' \in 0..MaxJobs
    BY FileStoreAssumption DEF Arrive, TypeOK
  <2>2. p[1] \in Dirs
    BY DEF Paths
  <2> QED
    BY <2>1, <2>2 DEF Arrive, TypeOK, Kinds, Phases, Results, Leaves
<1>2. NoStrayPartial' /\ TheRestIsUntouched' /\ ItemStaysWhole'
  <2>1. phase = "idle" /\ fs' = fs /\ before' = fs
    BY DEF Arrive
  <2>2. NoStrayPartial' /\ ItemStaysWhole'
    BY <2>1 DEF Arrive, NoStrayPartial, ItemStaysWhole
  <2>3. TheRestIsUntouched'
    BY <2>1 DEF TheRestIsUntouched
  <2> QED
    BY <2>2, <2>3
<1>3. PhaseInv' /\ CopyInv' /\ OtherInv' /\ TouchInv'
  BY DEF Arrive, PhaseInv, AtWork, CopyInv, OtherInv, TouchInv
<1>4. MoveInv'
  BY DEF Arrive, MoveInv
<1>5. Tidy(before')
  BY DEF Arrive, TypeOK
<1> QED
  BY <1>1, <1>2, <1>3, <1>4, <1>5

\* A request ends without touching the disk.
LEMMA EndInv ==
    ASSUME IInv, NEW r \in Results, End(r), UNCHANGED fs,
           phase \notin {"writing", "storing"}
    PROVE  IInv'
<1> USE DEF IInv
<1>1. TypeOK'
  BY DEF End, reqVars, TypeOK, Phases
<1>2. MayTouch' = MayTouch /\ Reached' = Reached
  BY SameRequest DEF End, reqVars
<1>3. NoStrayPartial' /\ TheRestIsUntouched'
  BY <1>2 DEF End, reqVars, NoStrayPartial, TheRestIsUntouched
<1>4. ItemStaysWhole'
  BY DEF End, reqVars, ItemStaysWhole, DestPath
<1>5. PhaseInv' /\ CopyInv' /\ OtherInv' /\ TouchInv' /\ MoveInv'
  BY DEF End, reqVars, PhaseInv, AtWork, CopyInv, OtherInv, TouchInv, MoveInv
<1>6. Tidy(before')
  BY DEF End, reqVars
<1> QED
  BY <1>1, <1>3, <1>4, <1>5, <1>6

\* A cancellation is only noted.
LEMMA CancelInv == ASSUME IInv, Cancel PROVE IInv'
<1> USE DEF IInv
<1>1. MayTouch' = MayTouch /\ Reached' = Reached
  BY SameRequest DEF Cancel, reqVars, stepVars
<1>2. TypeOK' /\ Tidy(before') /\ NoStrayPartial' /\ TheRestIsUntouched' /\ ItemStaysWhole'
  BY <1>1 DEF Cancel, reqVars, stepVars, TypeOK, NoStrayPartial, TheRestIsUntouched,
              ItemStaysWhole, DestPath, Spot
<1>3. PhaseInv' /\ CopyInv' /\ OtherInv' /\ TouchInv' /\ MoveInv'
  BY <1>1 DEF Cancel, reqVars, stepVars, PhaseInv, AtWork, Index, CopyInv, OtherInv,
              TouchInv, MoveInv, Src, DestPath, Exists, Spot, CanWrite
<1> QED
  BY <1>2, <1>3

\* The plan is checked and the first item is next.
LEMMA PlanInv == ASSUME IInv, Plan PROVE IInv'
<1>1. CASE \A i \in Index : Exists(srcs[i])
  <2> USE DEF IInv
  <2> DEFINE G == Goto("item") /\ UNCHANGED <<fs, tgt, todo>>
  <2>1. phase = "planning" /\ kind = "copy" /\ G
    BY <1>1 DEF Plan, Index, PhaseInv
  <2>2. MayTouch' = MayTouch /\ Reached' = Reached
    BY <2>1, SameRequest DEF Goto, reqVars
  <2>3. TypeOK' /\ Tidy(before') /\ NoStrayPartial' /\ TheRestIsUntouched' /\ ItemStaysWhole'
    BY <2>1, <2>2 DEF Goto, reqVars, TypeOK, Phases, NoStrayPartial,
                      TheRestIsUntouched, ItemStaysWhole
  <2>4. CopyInv'
    BY <1>1, <2>1 DEF Goto, reqVars, CopyInv, Index, Exists
  <2>5. PhaseInv' /\ OtherInv' /\ TouchInv' /\ MoveInv'
    BY <2>1 DEF Goto, reqVars, PhaseInv, AtWork, OtherInv, TouchInv, MoveInv
  <2> QED
    BY <2>3, <2>4, <2>5
<1>2. CASE ~\A i \in Index : Exists(srcs[i])
  BY <1>2, EndInv DEF Plan, Refuse, Results, Index
<1> QED
  BY <1>1, <1>2

\* The step from one item to the next, with the disk as it is.
LEMMA NextSourceInv ==
    ASSUME IInv, NextSource, UNCHANGED fs, kind = "copy", phase = "copying"
    PROVE  IInv'
<1> USE DEF IInv
<1>1. MayTouch' = MayTouch /\ Reached' = Reached
  BY SameRequest DEF NextSource, reqVars
<1>2. at + 1 \in 1..Len(srcs) + 1
  BY DEF TypeOK, PhaseInv, AtWork, Index
<1>3. TypeOK' /\ Tidy(before') /\ NoStrayPartial' /\ TheRestIsUntouched' /\ ItemStaysWhole'
  BY <1>1, <1>2 DEF NextSource, reqVars, TypeOK, Phases, NoStrayPartial,
                    TheRestIsUntouched, ItemStaysWhole
<1>4. PhaseInv' /\ CopyInv' /\ OtherInv' /\ TouchInv' /\ MoveInv'
  BY DEF NextSource, reqVars, PhaseInv, AtWork, Index, CopyInv, Exists, OtherInv,
         TouchInv, MoveInv
<1> QED
  BY <1>3, <1>4

\* All of an item is copied: in a move, all of it is at the destination.
LEMMA ItemCopiedInv == ASSUME IInv, ItemCopied PROVE IInv'
<1> USE DEF IInv
<1>1. phase = "copying" /\ todo = {} /\ UNCHANGED fs /\ kind \in {"copy", "move"}
  BY DEF ItemCopied, PhaseInv
<1>2. CASE kind = "copy"
  BY <1>1, <1>2, NextSourceInv DEF ItemCopied
<1>3. CASE kind = "move" /\ cancelled
  BY <1>1, <1>3, EndInv DEF ItemCopied, Results
<1>4. CASE kind = "move" /\ ~cancelled
  <2>1. Goto("removing") /\ UNCHANGED <<tgt, todo>>
    BY <1>4 DEF ItemCopied
  <2>2. MayTouch' = MayTouch /\ Reached' = Reached
    BY <2>1, SameRequest DEF Goto, reqVars
  <2>3. TypeOK' /\ Tidy(before') /\ NoStrayPartial' /\ TheRestIsUntouched' /\ ItemStaysWhole'
    BY <1>1, <2>1, <2>2 DEF Goto, reqVars, TypeOK, Phases, NoStrayPartial,
                      TheRestIsUntouched, ItemStaysWhole, DestPath
  <2>4. PhaseInv' /\ CopyInv' /\ OtherInv'
    BY <1>1, <1>4, <2>1 DEF Goto, reqVars, PhaseInv, AtWork, Index, CopyInv, OtherInv
  <2>5. at \in Index /\ Src \in Paths /\ fs[Src] = before[Src]
    BY <1>1, <1>4, PathFacts, NothingFacts
       DEF PhaseInv, AtWork, MoveInv, Src, Exists
  <2>6. Holds(fs[tgt], before[Src])
    BY <1>1, <1>4, <2>5 DEF MoveInv, Holds, FilesOf
  <2>7. MoveInv'
    BY <1>1, <1>4, <2>1, <2>5, <2>6 DEF Goto, reqVars, MoveInv, Src, DestPath, Index
  <2>8. Src \in MayTouch
    BY <1>4, <2>5 DEF MayTouch, Src, Index
  <2>9. TouchInv'
    BY <2>1, <2>2, <2>8 DEF Goto, reqVars, TouchInv, Src
  <2> QED
    BY <2>3, <2>4, <2>7, <2>9
<1> QED
  BY <1>1, <1>2, <1>3, <1>4

\* A deletion turns to its next item.
LEMMA DeleteItemInv == ASSUME IInv, DeleteItem PROVE IInv'
<1> USE DEF IInv
<1>1. phase = "item" /\ kind = "delete" /\ at \in Index
  BY DEF DeleteItem, AtItem, TypeOK, Index
<1>2. CASE Exists(Src)
  <2>1. Goto("removing") /\ UNCHANGED <<fs, tgt, todo>>
    BY <1>2 DEF DeleteItem
  <2>2. MayTouch' = MayTouch /\ Reached' = Reached /\ Src \in MayTouch
    BY <1>1, <2>1, SameRequest DEF Goto, reqVars, MayTouch, Src, Index
  <2>3. TypeOK' /\ Tidy(before') /\ NoStrayPartial' /\ TheRestIsUntouched' /\ ItemStaysWhole'
    BY <1>1, <2>1, <2>2 DEF Goto, reqVars, TypeOK, Phases, NoStrayPartial,
                      TheRestIsUntouched, ItemStaysWhole
  <2>4. PhaseInv' /\ CopyInv' /\ OtherInv' /\ MoveInv'
    BY <1>1, <2>1 DEF Goto, reqVars, PhaseInv, AtWork, Index, CopyInv, OtherInv, MoveInv
  <2>5. TouchInv'
    BY <2>1, <2>2 DEF Goto, reqVars, TouchInv, Src
  <2> QED
    BY <2>3, <2>4, <2>5
<1>3. CASE ~Exists(Src)
  BY <1>1, <1>3, EndInv DEF DeleteItem, Refuse, Results
<1> QED
  BY <1>2, <1>3

-----------------------------------------------------------------------------
(* Steps that change one path *)

\* A step that puts a well-formed entry at q changes nothing else.
LEMMA PutFacts ==
    ASSUME TypeOK, NEW q \in Paths, NEW e \in Entry, WellFormed(e), Put(q, e),
           \A l \in Leaves : e.files[l] \in Links => e.files[l] = fs[q].files[l]
    PROVE  /\ fs' \in [Paths -> Entry] /\ Tidy(fs')
           /\ fs'[q] = e
           /\ \A p \in Paths \ {q} : fs'[p] = fs[p]
<1>1. LinksEnd(q, e)
  BY FewerLinks DEF TypeOK
<1> QED
  BY <1>1 DEF TypeOK, Put

\* What is not to be touched is not, if q may be.
LEMMA RestPut ==
    ASSUME TheRestIsUntouched, NEW q \in MayTouch,
           \A p \in Paths \ {q} : fs'[p] = fs[p],
           MayTouch' = MayTouch, Reached' = Reached, before' = before
    PROVE  TheRestIsUntouched'
BY DEF TheRestIsUntouched

\* Nothing is reached through links but by a copy.
LEMMA OnlyCopiesReach == kind # "copy" => Reached = {}
BY DEF Reached

\* A free path that is a target may be touched.
LEMMA FreeTarget ==
    ASSUME IInv, kind \in {"copy", "move"}, phase = "item", NEW i \in Index,
           ~Exists(DestPath(srcs[i]))
    PROVE  DestPath(srcs[i]) \in MayTouch
<1>1. DestPath(srcs[i]) \in Paths
  BY PathFacts DEF IInv
<1>2. DestPath(srcs[i]) \in Targets
  BY DEF Targets, Index
<1>3. DestPath(srcs[i]) \notin MayTouch => DestPath(srcs[i]) \in Free
  <2>1. CASE kind = "copy"
    BY <1>1, <2>1 DEF IInv, CopyInv, Free
  <2>2. CASE kind = "move"
    BY <1>1, <2>2, OnlyCopiesReach DEF IInv, TheRestIsUntouched, Free, Exists
  <2> QED
    BY <2>1, <2>2
<1> QED
  BY <1>2, <1>3 DEF MayTouch

\* The source of a move that can go on is as it was, outside the destination.
LEMMA MoveSource ==
    ASSUME IInv, kind = "move", phase = "item", at \in Index,
           Exists(Src), ~Exists(DestPath(Src))
    PROVE  /\ Src \in Paths /\ Src[1] # dest /\ Src # DestPath(Src)
           /\ fs[Src] = before[Src]
           /\ \A i \in Index : srcs[i] = DestPath(Src) => before[srcs[i]].kind = "none"
           /\ \A i \in Index : DestPath(srcs[i]) = DestPath(Src) =>
                  before[srcs[i]].kind = "none" \/ fs[srcs[i]] = before[srcs[i]]
           /\ before[DestPath(Src)].kind = "none"
<1> USE DEF IInv
<1>1. Src \in Paths /\ DestPath(Src) \in Paths /\ Src[1] # dest /\ Src # DestPath(Src)
  BY PathFacts DEF Src, Exists
<1>2. fs[Src] = before[Src]
  BY <1>1, NothingFacts DEF MoveInv, Exists
<1>3. \A i \in Index : DestPath(srcs[i]) = DestPath(Src) =>
                  before[srcs[i]].kind = "none" \/ fs[srcs[i]] = before[srcs[i]]
  BY DEF ItemStaysWhole, Index, Holds, Exists
<1>4. \A i \in Index : srcs[i] = DestPath(Src) => DestPath(srcs[i]) = DestPath(Src)
  BY PathFacts, <1>1 DEF DestPath
<1>5. \A i \in Index : srcs[i] = DestPath(Src) => before[srcs[i]].kind = "none"
  BY <1>3, <1>4 DEF Exists
<1>6. before[DestPath(Src)].kind = "none"
  <2>1. CASE DestPath(Src) \in MayTouch
    BY <2>1, <1>5 DEF MayTouch, Free, Index
  <2>2. CASE DestPath(Src) \notin MayTouch
    BY <1>1, <2>2, OnlyCopiesReach DEF TheRestIsUntouched, Exists
  <2> QED
    BY <2>1, <2>2
<1> QED
  BY <1>1, <1>2, <1>3, <1>5, <1>6

\* A source that is being moved is no link.
LEMMA MoveLinks ==
    ASSUME TypeOK, at \in Index
    PROVE  Src \in Paths /\ fs[Src].files[Self] \notin Links
<1>1. Src \in Paths /\ Src[2] \in Stems
  BY PathFacts DEF Src, TypeOK, Index
<1> QED
  BY <1>1, MovedLinks DEF TypeOK

\* The copy of a move starts, to a free path.
LEMMA BeginMoveInv ==
    ASSUME IInv, kind = "move", phase = "item", at \in Index,
           Exists(Src), ~Exists(DestPath(Src)), BeginCopy(DestPath(Src))
    PROVE  IInv'
<1> USE DEF IInv
<1> DEFINE t == DestPath(Src)
<1>1. /\ Src \in Paths /\ t \in Paths /\ t \in MayTouch /\ t # Src /\ t[1] = dest
      /\ fs[t] \in Entry /\ fs[Src] \in Entry /\ WellFormed(fs[t]) /\ WellFormed(fs[Src])
      /\ LinksEnd(t, fs[t]) /\ fs[t].kind = "none"
  BY PathFacts, FreeTarget DEF Src, TypeOK, Exists
<1>2. \A l \in Leaves : fs[t].files[l] = Absent
  BY <1>1 DEF WellFormed, Leaves
<1>3. ~IsLink(t) /\ Landing(t) = t
  BY <1>2, BodyFacts DEF IsLink, Landing, Leaves
<1> HIDE DEF t
<1>4. /\ IF fs[Src].kind = "dir" THEN Put(t, MakeDir(fs[t])) ELSE UNCHANGED fs
      /\ tgt' = t /\ todo' = FilesOf(fs[Src]) /\ Goto("copying")
  BY <1>1, <1>3 DEF BeginCopy, t
<1>5. /\ fs' \in [Paths -> Entry] /\ Tidy(fs')
      /\ \A p \in Paths \ {t} : fs'[p] = fs[p]
      /\ fs'[t].files = fs[t].files
      /\ fs'[t].kind = IF fs[Src].kind = "dir" THEN "dir" ELSE fs[t].kind
  <2>1. CASE fs[Src].kind = "dir"
    <3>1. /\ MakeDir(fs[t]) \in Entry /\ Put(t, MakeDir(fs[t]))
          /\ WellFormed(MakeDir(fs[t])) /\ MakeDir(fs[t]).files = fs[t].files
      BY <1>1, <1>4, <2>1, MakeDirFacts, MakeDirWellFormed
    <3> QED
      BY <1>1, <2>1, <3>1, PutFacts, MakeDirFacts
  <2>2. CASE fs[Src].kind # "dir"
    BY <1>4, <2>2 DEF TypeOK
  <2> QED
    BY <2>1, <2>2
<1>6. UNCHANGED <<kind, srcs, dest, before, at, jobs, leaf, result, cancelled>>
      /\ phase' = "copying"
  BY <1>4 DEF Goto, reqVars
<1>7. MayTouch' = MayTouch /\ Reached' = Reached
  BY <1>6, SameRequest
<1>8. TheRestIsUntouched'
  BY <1>1, <1>5, <1>6, <1>7, RestPut
<1>9. TypeOK' /\ Tidy(before')
  BY <1>1, <1>4, <1>5, <1>6 DEF TypeOK, Phases, FilesOf
<1>10. NoStrayPartial'
  BY <1>5 DEF NoStrayPartial
<1>11. PhaseInv' /\ OtherInv' /\ TouchInv'
  BY <1>1, <1>4, <1>6, <1>7 DEF PhaseInv, AtWork, Index, OtherInv, TouchInv
<1>12. Src' = Src /\ fs'[Src] = fs[Src]
  BY <1>1, <1>5, <1>6 DEF Src
<1>13. CopyInv'
  BY <1>4, <1>6, <1>12 DEF CopyInv
<1>14. /\ \A i \in Index : srcs[i] = t => before[srcs[i]].kind = "none"
       /\ \A i \in Index : DestPath(srcs[i]) = t =>
              before[srcs[i]].kind = "none" \/ fs[srcs[i]] = before[srcs[i]]
       /\ Src[1] # dest /\ fs[Src] = before[Src] /\ before[t].kind = "none"
  BY MoveSource DEF t
<1>15. /\ \A i \in Index : srcs[i] \in Paths /\ DestPath(srcs[i]) \in Paths
       /\ \A i \in Index : srcs[i] # t => fs'[srcs[i]] = fs[srcs[i]]
       /\ \A i \in Index : DestPath(srcs[i]) # t =>
             fs'[DestPath(srcs[i])] = fs[DestPath(srcs[i])]
  BY <1>5, PathFacts
<1>16. ItemStaysWhole'
  BY <1>6, <1>14, <1>15 DEF ItemStaysWhole, Index, DestPath
<1>17. FilesOf(fs[Src]) = {} => fs[Src].kind = "dir"
  BY <1>1, MoveLinks DEF FilesOf, IsFile, WellFormed, Leaves, Entry, Exists
<1>18. \A p \in Paths : p[1] # dest => fs'[p] = before[p] \/ fs'[p] = Nothing
  BY <1>1, <1>5 DEF MoveInv
<1>19. \A i \in Index : DestPath(srcs[i]) = t =>
            before[srcs[i]].kind = "none" \/ fs'[srcs[i]] = before[srcs[i]]
  BY <1>14, <1>15
<1>20. MoveInv'
  BY <1>2, <1>4, <1>5, <1>6, <1>12, <1>14, <1>17, <1>18, <1>19, BodyFacts
     DEF MoveInv, Exists, DestPath, Index, t
<1> QED
  BY <1>8, <1>9, <1>10, <1>11, <1>13, <1>16, <1>20

\* The copy of an item starts, to a free path, to one with the suffixed name, or
\* to the directory that a link of that name leads to.
LEMMA BeginCopyInv ==
    ASSUME IInv, kind = "copy", phase = "item", at \in Index, NEW t \in Paths,
           t \in MayTouch, t \in Suffixed \/ ~Exists(t), BeginCopy(t)
    PROVE  IInv'
<1> USE DEF IInv
<1>1. Src \in Paths /\ Exists(Src)
  BY PathFacts DEF Src, CopyInv
<1>2. CASE Refuse
  BY <1>2, EndInv DEF Refuse, Results
<1>3. CASE ~Refuse
  <2> DEFINE u == IF fs[Src].kind = "dir" THEN Landing(t) ELSE t
  <2>1. u \in Paths /\ u \in MayTouch
    <3>1. CASE ~IsLink(t)
      BY <3>1 DEF Landing
    <3>2. CASE IsLink(t)
      <4>1. fs[t].files[Self] \in Links /\ Self \in Leaves
        BY <3>2 DEF IsLink, Leaves
      <4>2. before[t].files[Self] = fs[t].files[Self]
        BY <4>1 DEF CopyInv
      <4>3. t \in Suffixed
        BY <4>1, FileStoreAssumption DEF TypeOK, WellFormed, Exists, Leaves
      <4>4. Landing(t) \in Landings /\ Landing(t) \in Paths
        BY <3>2, <4>1, <4>2, <4>3, FileStoreAssumption DEF Landing, Landings
      <4> QED
        BY <4>4 DEF MayTouch
    <3> QED
      BY <3>1, <3>2
  <2> HIDE DEF u
  <2>2. /\ IF fs[Src].kind = "dir" THEN fs[u].kind # "file" /\ Put(u, MakeDir(fs[u]))
           ELSE UNCHANGED fs
        /\ tgt' = u /\ todo' = FilesOf(fs[Src]) /\ Goto("copying")
    BY <1>3 DEF BeginCopy, u
  <2>3. /\ fs[u] \in Entry /\ fs[Src] \in Entry /\ WellFormed(fs[u]) /\ WellFormed(fs[Src])
        /\ LinksEnd(u, fs[u])
    BY <1>1, <2>1 DEF TypeOK
  <2>4. /\ fs' \in [Paths -> Entry] /\ Tidy(fs')
        /\ \A p \in Paths \ {u} : fs'[p] = fs[p]
        /\ \A p \in Paths : fs'[p].files = fs[p].files
        /\ \A p \in Paths : fs[p].kind # "none" => fs'[p].kind # "none"
    <3>1. CASE fs[Src].kind = "dir"
      <4>1. /\ MakeDir(fs[u]) \in Entry /\ Put(u, MakeDir(fs[u]))
            /\ WellFormed(MakeDir(fs[u])) /\ MakeDir(fs[u]).files = fs[u].files
        BY <2>2, <2>3, <3>1, MakeDirFacts, MakeDirWellFormed
      <4> QED
        BY <2>1, <2>3, <4>1, PutFacts, MakeDirFacts
    <3>2. CASE fs[Src].kind # "dir"
      BY <2>2, <3>2 DEF TypeOK
    <3> QED
      BY <3>1, <3>2
  <2>5. UNCHANGED <<kind, srcs, dest, before, at, jobs, leaf, result, cancelled>>
        /\ phase' = "copying"
    BY <2>2 DEF Goto, reqVars
  <2>6. MayTouch' = MayTouch /\ Reached' = Reached
    BY <2>5, SameRequest
  <2>7. TheRestIsUntouched'
    BY <2>1, <2>4, <2>5, <2>6, RestPut
  <2>8. TypeOK' /\ Tidy(before')
    BY <2>1, <2>2, <2>4, <2>5 DEF TypeOK, Phases, FilesOf
  <2>9. NoStrayPartial'
    BY <2>4 DEF NoStrayPartial
  <2>10. PhaseInv' /\ OtherInv' /\ TouchInv' /\ MoveInv' /\ ItemStaysWhole'
    BY <2>1, <2>2, <2>5, <2>6
       DEF PhaseInv, AtWork, Index, OtherInv, TouchInv, MoveInv, ItemStaysWhole
  <2>11. Src' = Src /\ FilesOf(fs'[Src]) = FilesOf(fs[Src])
    BY <1>1, <2>4, <2>5 DEF Src, FilesOf, IsFile
  <2>12. \A i \in Index : srcs[i] \in Paths
    BY PathFacts
  <2>13. CopyInv'
    BY <2>2, <2>4, <2>5, <2>11, <2>12 DEF CopyInv, Index, Exists
  <2> QED
    BY <2>7, <2>8, <2>9, <2>10, <2>13
<1> QED
  BY <1>2, <1>3

\* copy_items turns to its next item: to the free path, or to the suffixed one.
LEMMA CopyItemInv == ASSUME IInv, CopyItem PROVE IInv'
<1> USE DEF IInv
<1>1. phase = "item" /\ kind = "copy" /\ at \in Index
  BY DEF CopyItem, AtItem, TypeOK, Index
<1>2. /\ DestPath(Src) \in Paths /\ CopyPath(Src) \in Paths
      /\ CopyPath(Src) \in Suffixed
  BY <1>1, PathFacts DEF Src, Suffixed, Index
<1>3. CASE Exists(DestPath(Src))
  BY <1>1, <1>2, <1>3, BeginCopyInv DEF CopyItem, MayTouch
<1>4. CASE ~Exists(DestPath(Src))
  <2>1. DestPath(Src) \in MayTouch
    BY <1>1, <1>4, FreeTarget DEF Src
  <2> QED
    BY <1>1, <1>2, <1>4, <2>1, BeginCopyInv DEF CopyItem
<1> QED
  BY <1>3, <1>4

\* An item is moved at once, on its device.
LEMMA ReplaceInv ==
    ASSUME IInv, AtItem("move"), Exists(Src), ~Exists(DestPath(Src)),
           fs' = [fs EXCEPT ![Src] = Nothing, ![DestPath(Src)] = fs[Src]], NextSource
    PROVE  IInv'
<1> USE DEF IInv
<1> DEFINE t == DestPath(Src)
<1>1. phase = "item" /\ kind = "move" /\ at \in Index
  BY DEF AtItem, TypeOK, Index
<1>2. Src \in Paths /\ t \in Paths /\ t[1] = dest
  BY <1>1, PathFacts DEF Src
<1>3. /\ Src[1] # dest /\ Src # t /\ fs[Src] = before[Src]
      /\ \A i \in Index : srcs[i] = t => before[srcs[i]].kind = "none"
      /\ \A i \in Index : DestPath(srcs[i]) = t =>
             before[srcs[i]].kind = "none" \/ fs[srcs[i]] = before[srcs[i]]
  BY <1>1, MoveSource
<1>4. /\ fs' \in [Paths -> Entry]
      /\ fs'[Src] = Nothing /\ fs'[t] = fs[Src] /\ Src[2] \in Stems
      /\ \A p \in Paths \ {Src, t} : fs'[p] = fs[p]
  BY <1>1, <1>2, <1>3, NothingFacts DEF TypeOK, Src, Index
<1>5. Tidy(fs')
  BY <1>2, <1>4, NothingFacts, MovedLinks DEF TypeOK
<1>6. UNCHANGED <<kind, srcs, dest, before>> /\ at' = at + 1 /\ phase' = "item"
  BY DEF NextSource, reqVars
<1>7. MayTouch' = MayTouch /\ Reached' = Reached /\ t \in MayTouch /\ Src \in MayTouch
  BY <1>1, <1>6, SameRequest, FreeTarget DEF MayTouch, Src, Index
<1>8. TypeOK'
  <2>1. at' \in 1..Len(srcs') + 1
    BY <1>1, <1>6 DEF TypeOK, Index
  <2> QED
    BY <1>4, <1>5, <1>6, <2>1 DEF NextSource, reqVars, TypeOK, Phases
<1>9. TheRestIsUntouched'
  BY <1>4, <1>6, <1>7 DEF TheRestIsUntouched
<1>10. NoStrayPartial'
  BY <1>1, <1>2, <1>4, NothingFacts, BodyFacts DEF NoStrayPartial
<1>11. ItemStaysWhole'
  <2> SUFFICES ASSUME NEW i \in Index
               PROVE  \/ before[srcs[i]].kind = "none"
                      \/ fs'[srcs[i]] = before[srcs[i]]
                      \/ Holds(fs'[DestPath(srcs[i])], before[srcs[i]])
    BY <1>6 DEF ItemStaysWhole, Index, DestPath
  <2>1. srcs[i] \in Paths /\ DestPath(srcs[i]) \in Paths /\ DestPath(srcs[i])[1] = dest
    BY PathFacts
  <2>2. CASE srcs[i] = Src
    BY <1>3, <1>4, <2>2 DEF Holds
  <2>3. CASE srcs[i] # Src
    BY <1>1, <1>3, <1>4, <2>1, <2>3 DEF ItemStaysWhole, Index
  <2> QED
    BY <2>2, <2>3
<1>12. MoveInv'
  <2>1. \A p \in Paths : p[1] # dest => fs'[p] = before[p] \/ fs'[p] = Nothing
    BY <1>1, <1>2, <1>4 DEF MoveInv
  <2> QED
    BY <1>6, <2>1 DEF MoveInv
<1>13. PhaseInv' /\ Tidy(before') /\ CopyInv' /\ OtherInv' /\ TouchInv'
  BY <1>1, <1>6 DEF PhaseInv, AtWork, CopyInv, OtherInv, TouchInv
<1> QED
  BY <1>8, <1>9, <1>10, <1>11, <1>12, <1>13

\* move_items turns to its next item: refused, replaced or copied.
LEMMA MoveItemInv == ASSUME IInv, MoveItem PROVE IInv'
<1> USE DEF IInv
<1>1. phase = "item" /\ kind = "move" /\ at \in Index /\ Src \in Paths
  BY PathFacts DEF MoveItem, AtItem, TypeOK, Index, Src
<1>2. CASE ~Exists(Src) \/ Exists(DestPath(Src))
  BY <1>1, <1>2, EndInv DEF MoveItem, Refuse, Results
<1>3. CASE Exists(Src) /\ ~Exists(DestPath(Src))
  <2>1. CASE DeviceOf[Src[1]] = DeviceOf[dest]
    BY <1>3, <2>1, ReplaceInv DEF MoveItem
  <2>2. CASE DeviceOf[Src[1]] # DeviceOf[dest]
    BY <1>1, <1>3, <2>2, BeginMoveInv DEF MoveItem
  <2> QED
    BY <2>1, <2>2
<1> QED
  BY <1>2, <1>3

-----------------------------------------------------------------------------
(* Files being copied *)

\* While an item is copied, changes at its target cost no other item anything.
LEMMA MoveKept ==
    ASSUME IInv, kind = "move", phase \in {"copying", "writing"},
           UNCHANGED <<kind, srcs, dest, before>>,
           \A p \in Paths \ {tgt} : fs'[p] = fs[p]
    PROVE  /\ ItemStaysWhole'
           /\ \A p \in Paths : p[1] # dest => fs'[p] = before[p] \/ fs'[p] = Nothing
           /\ \A i \in Index : DestPath(srcs[i]) = tgt =>
                  before[srcs[i]].kind = "none" \/ fs'[srcs[i]] = before[srcs[i]]
<1> USE DEF IInv
<1>1. at \in Index /\ tgt[1] = dest
  BY DEF PhaseInv, AtWork, MoveInv, DestPath
<1>2. \A i \in Index : srcs[i] \in Paths /\ DestPath(srcs[i]) \in Paths
  BY PathFacts
<1>3. \A i \in Index : srcs[i] = tgt => before[srcs[i]].kind = "none"
  BY DEF MoveInv
<1>4. \A i \in Index : DestPath(srcs[i]) = tgt =>
                  before[srcs[i]].kind = "none" \/ fs[srcs[i]] = before[srcs[i]]
  BY DEF MoveInv
<1>5. ItemStaysWhole'
  BY <1>2, <1>3, <1>4 DEF ItemStaysWhole, Index, DestPath
<1>6. \A p \in Paths : p[1] # dest => fs'[p] = before[p] \/ fs'[p] = Nothing
  BY <1>1 DEF MoveInv
<1>7. \A i \in Index : DestPath(srcs[i]) = tgt =>
                  before[srcs[i]].kind = "none" \/ fs'[srcs[i]] = before[srcs[i]]
  BY <1>2, <1>3, <1>4
<1> QED
  BY <1>5, <1>6, <1>7

\* A write below the path being copied to stays there, or is one to a file that
\* may be reached.
LEMMA SpotReached ==
    ASSUME IInv, phase \in {"copying", "writing"}, NEW l \in Leaves
    PROVE  /\ Spot(tgt, l) = <<tgt, l>> \/ Spot(tgt, l) \in Reached
           /\ kind = "move" => Spot(tgt, l) = <<tgt, l>>
<1> USE DEF IInv
<1>1. kind \in {"copy", "move"} /\ tgt \in Paths /\ tgt \in MayTouch
  BY DEF PhaseInv, TypeOK, TouchInv
<1>2. CASE fs[tgt].files[l] \notin Links
  BY <1>1, <1>2, SpotFacts
<1>3. CASE fs[tgt].files[l] \in Links
  <2>1. kind = "copy"
    BY <1>1, <1>3 DEF MoveInv
  <2>2. before[tgt].files[l] = fs[tgt].files[l]
    BY <1>1, <1>3, <2>1 DEF CopyInv
  <2>3. tgt \notin Free
    BY <1>1, <1>3, <2>2, BodyFacts DEF Free, WellFormed, Leaves
  <2>4. tgt \in Suffixed \cup Landings
    BY <1>1, <2>1, <2>3 DEF MayTouch
  <2>5. Spot(tgt, l) = LeadsTo[before[tgt].files[l]]
    BY <1>3, <2>2 DEF Spot
  <2>6. LeadsTo[before[tgt].files[l]] \in Reached
    BY <1>3, <2>1, <2>2, <2>4 DEF Reached
  <2> QED
    BY <2>1, <2>5, <2>6
<1> QED
  BY <1>2, <1>3

\* Nothing but what may be touched or reached is changed by a write to it.
LEMMA RestWrite ==
    ASSUME TheRestIsUntouched, NEW s \in Paths \X Leaves,
           s[1] \in MayTouch \/ s \in Reached,
           \A q \in Paths, m \in Leaves : <<q, m>> # s => fs'[q].files[m] = fs[q].files[m],
           \A q \in Paths \ {s[1]} : fs'[q] = fs[q],
           s[2] # Self => fs'[s[1]].kind = fs[s[1]].kind,
           MayTouch' = MayTouch, Reached' = Reached, before' = before
    PROVE  TheRestIsUntouched'
<1> SUFFICES ASSUME NEW p \in Paths \ MayTouch
             PROVE  /\ <<p, Self>> \notin Reached => fs'[p].kind = before[p].kind
                    /\ \A l \in Leaves : <<p, l>> \notin Reached =>
                                         fs'[p].files[l] = before[p].files[l]
  BY DEF TheRestIsUntouched
<1>1. /\ <<p, Self>> \notin Reached => fs[p].kind = before[p].kind
      /\ \A l \in Leaves : <<p, l>> \notin Reached => fs[p].files[l] = before[p].files[l]
  BY DEF TheRestIsUntouched
<1>2. p # s[1] \/ s \in Reached
  OBVIOUS
<1>3. PICK q \in Paths, m \in Leaves : s = <<q, m>>
  OBVIOUS
<1>4. ASSUME <<p, Self>> \notin Reached PROVE fs'[p].kind = fs[p].kind
  BY <1>2, <1>3, <1>4
<1>5. ASSUME NEW l \in Leaves, <<p, l>> \notin Reached
      PROVE  fs'[p].files[l] = fs[p].files[l]
  BY <1>2, <1>3, <1>5
<1> QED
  BY <1>1, <1>4, <1>5

\* A write to a file of the target, and what it leaves as it was.
LEMMA FileFacts ==
    ASSUME IInv, phase \in {"copying", "writing"}, NEW l \in todo, CanWrite(tgt, l),
           NEW b \in Bodies \ ({Absent} \cup Links), Write(tgt, l, b),
           UNCHANGED <<reqVars, at, tgt>>, NEW s, s = Spot(tgt, l)
    PROVE  /\ l \in Leaves /\ s \in Paths \X Leaves
           /\ fs' \in [Paths -> Entry] /\ Tidy(fs') /\ Tidy(before')
           /\ fs'[s[1]].files[s[2]] = b
           /\ \A q \in Paths, m \in Leaves :
                 <<q, m>> # s => fs'[q].files[m] = fs[q].files[m]
           /\ \A q \in Paths \ {s[1]} : fs'[q] = fs[q]
           /\ IF s[2] = Self THEN fs'[s[1]].kind # "dir" ELSE fs'[s[1]].kind = "dir"
           /\ s = IF fs'[tgt].files[l] \in Links THEN LeadsTo[fs'[tgt].files[l]] ELSE <<tgt, l>>
           /\ l = Self => fs[Src].kind = "file" /\ todo = {Self}
           /\ l # Self => fs[Src].kind = "dir"
           /\ Src' = Src /\ Src \in Paths
           /\ FilesOf(fs[Src]) \subseteq FilesOf(fs'[Src])
           /\ MayTouch' = MayTouch /\ Reached' = Reached /\ TheRestIsUntouched'
           /\ kind = "copy" =>
                /\ \A i \in Index : Exists(srcs[i])'
                /\ \A p \in Paths : before[p].kind # "none" => fs'[p].kind # "none"
                /\ \A p \in Paths, m \in Leaves :
                      fs'[p].files[m] \in Links => before[p].files[m] = fs'[p].files[m]
           /\ kind = "move" =>
                /\ s = <<tgt, l>> /\ Src # tgt /\ fs'[Src] = fs[Src]
                /\ \A p \in Paths \ {tgt} : fs'[p] = fs[p]
                /\ fs'[tgt].kind = IF l = Self THEN "file" ELSE "dir"
<1> USE DEF IInv
<1>1. /\ Src \in Paths /\ tgt \in Paths /\ l \in Leaves /\ at \in Index
      /\ fs[Src] \in Entry /\ WellFormed(fs[Src])
      /\ todo \subseteq FilesOf(fs[Src]) /\ tgt \in MayTouch
      /\ kind \in {"copy", "move"}
  BY PathFacts DEF TypeOK, CopyInv, PhaseInv, AtWork, Src, TouchInv
<1>2. /\ s \in Paths \X Leaves
      /\ fs' \in [Paths -> Entry] /\ Tidy(fs')
      /\ fs'[s[1]].files[s[2]] = b
      /\ fs[s[1]].files[s[2]] \notin Links
      /\ \A q \in Paths, m \in Leaves : <<q, m>> # s => fs'[q].files[m] = fs[q].files[m]
      /\ \A q \in Paths \ {s[1]} : fs'[q] = fs[q]
      /\ fs'[s[1]].kind = IF s[2] = Self THEN "file" ELSE "dir"
      /\ s[2] # Self => fs'[s[1]].kind = fs[s[1]].kind
      /\ \A q \in Paths : fs[q].kind # "none" => fs'[q].kind # "none"
      /\ s = IF fs'[tgt].files[l] \in Links THEN LeadsTo[fs'[tgt].files[l]] ELSE <<tgt, l>>
  BY <1>1, WriteFacts
<1>3. /\ l = Self => fs[Src].kind = "file" /\ todo = {Self}
      /\ l # Self => fs[Src].kind = "dir"
  BY <1>1 DEF FilesOf, IsFile, WellFormed, Leaves
<1>4. Src' = Src /\ MayTouch' = MayTouch /\ Reached' = Reached
  BY SameRequest DEF reqVars, Src
<1>5. s \in Paths \X Leaves /\ fs'[s[1]].files[s[2]] = b
  BY <1>2
<1>6. ASSUME NEW p \in Paths, NEW n \in Leaves
      PROVE  fs'[p].files[n] = fs[p].files[n] \/ fs'[p].files[n] = b
  <2>1. CASE <<p, n>> = s
    <3>1. s[1] = p /\ s[2] = n
      BY <2>1
    <3> QED
      BY <1>5, <3>1
  <2>2. CASE <<p, n>> # s
    BY <1>2, <2>2
  <2> QED
    BY <2>1, <2>2
<1>7. FilesOf(fs[Src]) \subseteq FilesOf(fs'[Src])
  BY <1>1, <1>6 DEF FilesOf, IsFile
<1>8. TheRestIsUntouched'
  <2>1. s[1] \in MayTouch \/ s \in Reached
    BY <1>1, SpotReached
  <2> QED
    BY <1>2, <1>4, <2>1, RestWrite DEF reqVars
<1>9. ASSUME kind = "copy"
      PROVE  /\ \A i \in Index : Exists(srcs[i])'
             /\ \A p \in Paths : before[p].kind # "none" => fs'[p].kind # "none"
             /\ \A p \in Paths, n \in Leaves :
                   fs'[p].files[n] \in Links => before[p].files[n] = fs'[p].files[n]
  <2>1. /\ \A i \in Index : Exists(srcs[i]) /\ srcs[i] \in Paths
        /\ \A p \in Paths : before[p].kind # "none" => Exists(p)
        /\ \A p \in Paths, n \in Leaves :
              fs[p].files[n] \in Links => before[p].files[n] = fs[p].files[n]
    BY <1>9, PathFacts DEF CopyInv
  <2>2. \A i \in Index : Exists(srcs[i])'
    BY <1>2, <2>1 DEF Exists, reqVars
  <2>3. \A p \in Paths : before[p].kind # "none" => fs'[p].kind # "none"
    BY <1>2, <2>1 DEF Exists
  <2>4. \A p \in Paths, n \in Leaves :
           fs'[p].files[n] \in Links => before[p].files[n] = fs'[p].files[n]
    BY <1>6, <2>1
  <2> QED
    BY <2>2, <2>3, <2>4
<1>10. ASSUME kind = "move"
       PROVE  /\ s = <<tgt, l>> /\ Src # tgt /\ fs'[Src] = fs[Src]
              /\ \A p \in Paths \ {tgt} : fs'[p] = fs[p]
              /\ fs'[tgt].kind = IF l = Self THEN "file" ELSE "dir"
  <2>1. s = <<tgt, l>>
    BY <1>1, <1>10, SpotReached
  <2>2. Src # tgt
    BY <1>1, <1>10, PathFacts DEF MoveInv, Src
  <2>3. s[1] = tgt /\ s[2] = l
    BY <2>1
  <2> QED
    BY <1>1, <1>2, <2>1, <2>2, <2>3
<1>11. Tidy(before')
  BY DEF reqVars
<1> QED
  BY <1>1, <1>2, <1>3, <1>4, <1>7, <1>8, <1>9, <1>10, <1>11

\* A file is opened for writing.
LEMMA OpenFileInv == ASSUME IInv, OpenFile PROVE IInv'
<1> USE DEF IInv
<1>1. PICK l \in todo :
          IF ~CanWrite(tgt, l) THEN Refuse
          ELSE /\ Write(tgt, l, Partial)
               /\ leaf' = l /\ phase' = "writing"
               /\ UNCHANGED <<reqVars, at, tgt, todo, result, cancelled>>
  BY DEF OpenFile
<1>2. phase = "copying" /\ kind \in {"copy", "move"} /\ at \in Index
  BY DEF OpenFile, PhaseInv, AtWork
<1>3. CASE ~CanWrite(tgt, l)
  BY <1>1, <1>2, <1>3, EndInv DEF Refuse, Results
<1>4. CASE CanWrite(tgt, l)
  <2>1. /\ Write(tgt, l, Partial) /\ leaf' = l /\ phase' = "writing"
        /\ UNCHANGED <<kind, srcs, dest, before, jobs, at, tgt, todo, result, cancelled>>
        /\ UNCHANGED reqVars
    BY <1>1, <1>4 DEF reqVars
  <2>2. Partial \in Bodies \ ({Absent} \cup Links)
    BY BodyFacts
  <2> DEFINE s == Spot(tgt, l)
  <2>3. /\ l \in Leaves /\ s \in Paths \X Leaves
        /\ fs' \in [Paths -> Entry] /\ Tidy(fs') /\ Tidy(before')
        /\ fs'[s[1]].files[s[2]] = Partial
        /\ \A q \in Paths, m \in Leaves :
              <<q, m>> # s => fs'[q].files[m] = fs[q].files[m]
        /\ \A q \in Paths \ {s[1]} : fs'[q] = fs[q]
        /\ IF s[2] = Self THEN fs'[s[1]].kind # "dir" ELSE fs'[s[1]].kind = "dir"
        /\ s = IF fs'[tgt].files[l] \in Links THEN LeadsTo[fs'[tgt].files[l]] ELSE <<tgt, l>>
        /\ Src' = Src /\ Src \in Paths /\ FilesOf(fs[Src]) \subseteq FilesOf(fs'[Src])
        /\ MayTouch' = MayTouch /\ Reached' = Reached /\ TheRestIsUntouched'
    BY <1>2, <1>4, <2>1, <2>2, FileFacts
  <2>4. /\ kind = "copy" =>
             /\ \A i \in Index : Exists(srcs[i])'
             /\ \A p \in Paths : before[p].kind # "none" => fs'[p].kind # "none"
             /\ \A p \in Paths, m \in Leaves :
                   fs'[p].files[m] \in Links => before[p].files[m] = fs'[p].files[m]
        /\ kind = "move" =>
             /\ s = <<tgt, l>> /\ Src # tgt /\ fs'[Src] = fs[Src]
             /\ \A p \in Paths \ {tgt} : fs'[p] = fs[p]
    BY <1>2, <1>4, <2>1, <2>2, FileFacts
  <2>5. Spot(tgt, leaf)' = s /\ CanWrite(tgt, leaf)'
    BY <2>1, <2>3 DEF CanWrite, Spot
  <2> HIDE DEF s
  <2>6. TypeOK'
    BY <2>1, <2>3 DEF TypeOK, Phases
  <2>7. NoStrayPartial'
    BY <1>2, <2>1, <2>3, <2>5 DEF NoStrayPartial
  <2>8. PhaseInv' /\ OtherInv' /\ TouchInv'
    BY <1>2, <2>1, <2>3 DEF PhaseInv, AtWork, Index, OtherInv, TouchInv
  <2>9. CopyInv'
    BY <1>2, <2>1, <2>3, <2>4, <2>5 DEF CopyInv, Index, Exists
  <2>10. ItemStaysWhole' /\ MoveInv'
    <3>1. CASE kind = "copy"
      BY <2>1, <3>1 DEF ItemStaysWhole, MoveInv
    <3>2. CASE kind = "move"
      <4>1. /\ ItemStaysWhole'
            /\ \A p \in Paths : p[1] # dest => fs'[p] = before[p] \/ fs'[p] = Nothing
            /\ \A i \in Index : DestPath(srcs[i]) = tgt =>
                  before[srcs[i]].kind = "none" \/ fs'[srcs[i]] = before[srcs[i]]
        BY <1>2, <2>1, <2>4, <3>2, MoveKept
      <4>2. /\ \A m \in Leaves : fs'[tgt].files[m] \notin Links
            /\ \A m \in FilesOf(fs[Src]) \ todo : fs'[tgt].files[m] = fs[Src].files[m]
        <5>1. tgt \in Paths /\ fs'[tgt].files[l] = Partial
          BY <2>3, <2>4, <3>2 DEF TypeOK
        <5>2. \A m \in Leaves \ {l} : fs'[tgt].files[m] = fs[tgt].files[m]
          BY <2>3, <2>4, <3>2, <5>1
        <5> QED
          BY <1>1, <1>2, <3>2, <5>1, <5>2, BodyFacts DEF MoveInv, FilesOf
      <4> QED
        BY <1>2, <2>1, <2>3, <2>4, <3>2, <4>1, <4>2 DEF MoveInv, Exists, DestPath, Index
    <3> QED
      BY <1>2, <3>1, <3>2
  <2> QED
    BY <2>3, <2>6, <2>7, <2>8, <2>9, <2>10
<1> QED
  BY <1>3, <1>4

\* What is read of a file is what it holds, or what is left of one copied onto
\* itself.
LEMMA ReadFacts ==
    ASSUME IInv, phase = "writing"
    PROVE  /\ Read \in Bodies \ ({Absent} \cup Links) /\ Read # Partial
           /\ Spot(tgt, leaf)[1] # Src => Read = fs[Src].files[leaf]
<1> USE DEF IInv
<1>1. /\ leaf \in FilesOf(fs[Src]) /\ leaf \in Leaves /\ Src \in Paths /\ fs[Src] \in Entry
  BY PathFacts DEF CopyInv, PhaseInv, AtWork, TypeOK, Src
<1>2. fs[Src].files[leaf] \in Bodies \ ({Absent} \cup Links)
  BY <1>1 DEF FilesOf, IsFile, Entry
<1>3. fs[Src].files[leaf] = Partial => Spot(tgt, leaf)[1] = Src
  BY <1>1 DEF NoStrayPartial
<1> QED
  BY <1>2, <1>3, BodyFacts DEF Read

\* A file is copied to its end.
LEMMA FinishFileInv == ASSUME IInv, FinishFile PROVE IInv'
<1> USE DEF IInv
<1>1. /\ phase = "writing" /\ kind \in {"copy", "move"} /\ at \in Index /\ leaf \in todo
      /\ CanWrite(tgt, leaf) /\ todo \subseteq FilesOf(fs[Src]) /\ tgt \in Paths
  BY DEF FinishFile, PhaseInv, AtWork, CopyInv, TypeOK
<1>2. /\ Write(tgt, leaf, Read) /\ todo' = todo \ {leaf} /\ phase' = "copying"
      /\ UNCHANGED <<kind, srcs, dest, before, jobs, at, tgt, leaf, result, cancelled>>
      /\ UNCHANGED reqVars
  BY DEF FinishFile, Goto, reqVars
<1>3. Read \in Bodies \ ({Absent} \cup Links) /\ Read # Partial
  BY <1>1, ReadFacts
<1> DEFINE s == Spot(tgt, leaf)
<1>4. /\ leaf \in Leaves /\ s \in Paths \X Leaves
      /\ fs' \in [Paths -> Entry] /\ Tidy(fs') /\ Tidy(before')
      /\ fs'[s[1]].files[s[2]] = Read
      /\ \A q \in Paths, m \in Leaves :
            <<q, m>> # s => fs'[q].files[m] = fs[q].files[m]
      /\ leaf = Self => fs[Src].kind = "file"
      /\ leaf # Self => fs[Src].kind = "dir"
      /\ Src' = Src /\ Src \in Paths /\ FilesOf(fs[Src]) \subseteq FilesOf(fs'[Src])
      /\ MayTouch' = MayTouch /\ Reached' = Reached /\ TheRestIsUntouched'
  BY <1>1, <1>2, <1>3, FileFacts
<1>5. /\ kind = "copy" =>
           /\ \A i \in Index : Exists(srcs[i])'
           /\ \A p \in Paths : before[p].kind # "none" => fs'[p].kind # "none"
           /\ \A p \in Paths, m \in Leaves :
                 fs'[p].files[m] \in Links => before[p].files[m] = fs'[p].files[m]
      /\ kind = "move" =>
           /\ s = <<tgt, leaf>> /\ Src # tgt /\ fs'[Src] = fs[Src]
           /\ \A p \in Paths \ {tgt} : fs'[p] = fs[p]
           /\ fs'[tgt].kind = IF leaf = Self THEN "file" ELSE "dir"
  BY <1>1, <1>2, <1>3, FileFacts
<1>6. TypeOK'
  BY <1>2, <1>4 DEF TypeOK, Phases
<1>7. NoStrayPartial'
  <2> SUFFICES ASSUME NEW p \in Paths, NEW m \in Leaves, fs'[p].files[m] = Partial
               PROVE  FALSE
    BY DEF NoStrayPartial
  <2> HIDE DEF s
  <2>1. <<p, m>> # s
    BY <1>3, <1>4
  <2>2. fs[p].files[m] = Partial
    BY <1>4, <2>1
  <2> QED
    BY <2>1, <2>2 DEF NoStrayPartial, s
<1> HIDE DEF s
<1>8. PhaseInv' /\ OtherInv' /\ TouchInv'
  BY <1>1, <1>2, <1>4 DEF PhaseInv, AtWork, Index, OtherInv, TouchInv
<1>9. CopyInv'
  BY <1>1, <1>2, <1>4, <1>5 DEF CopyInv, Index, Exists
<1>10. ItemStaysWhole' /\ MoveInv'
  <2>1. CASE kind = "copy"
    BY <1>2, <2>1 DEF ItemStaysWhole, MoveInv
  <2>2. CASE kind = "move"
    <3>1. /\ ItemStaysWhole'
          /\ \A p \in Paths : p[1] # dest => fs'[p] = before[p] \/ fs'[p] = Nothing
          /\ \A i \in Index : DestPath(srcs[i]) = tgt =>
                before[srcs[i]].kind = "none" \/ fs'[srcs[i]] = before[srcs[i]]
      BY <1>1, <1>2, <1>5, <2>2, MoveKept
    <3>2. Read = fs[Src].files[leaf]
      BY <1>1, <1>5, <2>2, ReadFacts DEF s
    <3>3. /\ \A m \in Leaves : fs'[tgt].files[m] \notin Links
          /\ \A m \in FilesOf(fs[Src]) \ todo' : fs'[tgt].files[m] = fs[Src].files[m]
      <4>1. fs'[tgt].files[leaf] = Read
        BY <1>4, <1>5, <2>2
      <4>2. \A m \in Leaves \ {leaf} : fs'[tgt].files[m] = fs[tgt].files[m]
        BY <1>1, <1>4, <1>5, <2>2
      <4> QED
        BY <1>1, <1>2, <1>3, <2>2, <3>2, <4>1, <4>2 DEF MoveInv, FilesOf
    <3> QED
      BY <1>1, <1>2, <1>4, <1>5, <2>2, <3>1, <3>3 DEF MoveInv, Exists, DestPath, Index
  <2> QED
    BY <1>1, <2>1, <2>2
<1> QED
  BY <1>4, <1>6, <1>7, <1>8, <1>9, <1>10

\* A request ends with a change of the disk that left nothing half written.
LEMMA EndDisk ==
    ASSUME IInv, NEW r \in Results, End(r), fs' \in [Paths -> Entry], Tidy(fs'),
           \A p \in Paths, l \in Leaves : fs'[p].files[l] # Partial,
           TheRestIsUntouched', ItemStaysWhole'
    PROVE  IInv'
<1> USE DEF IInv
<1>1. TypeOK' /\ Tidy(before') /\ NoStrayPartial'
  BY DEF End, reqVars, TypeOK, Phases, NoStrayPartial
<1>2. PhaseInv' /\ CopyInv' /\ OtherInv' /\ TouchInv' /\ MoveInv'
  BY DEF End, reqVars, PhaseInv, AtWork, CopyInv, OtherInv, TouchInv, MoveInv
<1> QED
  BY <1>1, <1>2

\* Once the file being written is not half written any more, nothing is.
LEMMA NoneLeft ==
    ASSUME IInv, phase = "writing", NEW b, b # Partial, NEW s, s = Spot(tgt, leaf),
           fs'[s[1]].files[s[2]] = b,
           \A q \in Paths, m \in Leaves : <<q, m>> # s => fs'[q].files[m] = fs[q].files[m]
    PROVE  \A q \in Paths, m \in Leaves : fs'[q].files[m] # Partial
<1> SUFFICES ASSUME NEW q \in Paths, NEW m \in Leaves, fs'[q].files[m] = Partial
             PROVE  FALSE
  OBVIOUS
<1>1. <<q, m>> # s
  OBVIOUS
<1>2. fs[q].files[m] = Partial
  BY <1>1
<1> QED
  BY <1>1, <1>2 DEF IInv, NoStrayPartial

\* A copy fails in the middle of a file, which stays.
LEMMA BreakFileInv ==
    ASSUME IInv, phase = "writing", Write(tgt, leaf, Broken),
           NEW r \in Results, End(r)
    PROVE  IInv'
<1> USE DEF IInv
<1>1. /\ kind \in {"copy", "move"} /\ leaf \in todo /\ CanWrite(tgt, leaf)
      /\ Broken \in Bodies \ ({Absent} \cup Links) /\ Broken # Partial
  BY BodyFacts DEF PhaseInv, CopyInv
<1>2. UNCHANGED <<kind, srcs, dest, before, at, tgt>> /\ UNCHANGED reqVars
  BY DEF End, reqVars
<1> DEFINE s == Spot(tgt, leaf)
<1>3. /\ fs' \in [Paths -> Entry] /\ Tidy(fs')
      /\ fs'[s[1]].files[s[2]] = Broken
      /\ \A q \in Paths, m \in Leaves :
            <<q, m>> # s => fs'[q].files[m] = fs[q].files[m]
      /\ TheRestIsUntouched'
      /\ kind = "move" => \A p \in Paths \ {tgt} : fs'[p] = fs[p]
  BY <1>1, <1>2, FileFacts
<1>4. \A p \in Paths, l \in Leaves : fs'[p].files[l] # Partial
  BY <1>1, <1>3, NoneLeft
<1>5. ItemStaysWhole'
  <2>1. CASE kind = "copy"
    BY <1>2, <2>1 DEF ItemStaysWhole
  <2>2. CASE kind = "move"
    BY <1>2, <1>3, <2>2, MoveKept
  <2> QED
    BY <1>1, <2>1, <2>2
<1> QED
  BY <1>3, <1>4, <1>5, EndDisk

\* A copy is cancelled in the middle of a file, which is removed; of a link the
\* link is, and what it led to stays half written.
LEMMA StopInFileInv == ASSUME IInv, StopInFile PROVE IInv'
<1> USE DEF IInv
<1>1. phase = "writing" /\ End("cancelled") /\ "cancelled" \in Results
  BY DEF StopInFile, Results
<1> DEFINE s == Spot(tgt, leaf)
           d == WrittenAt(s, Broken)
<1>2. CASE Write(tgt, leaf, Broken)
  BY <1>1, <1>2, BreakFileInv
<1>3. CASE fs' = [d EXCEPT ![tgt] = Without(@, leaf)]
  <2>1. /\ kind \in {"copy", "move"} /\ leaf \in todo /\ leaf \in Leaves /\ tgt \in Paths
        /\ fs[tgt] \in Entry /\ WellFormed(fs[tgt]) /\ CanWrite(tgt, leaf)
        /\ tgt \in MayTouch /\ Broken \in Bodies /\ Broken # Absent
        /\ Broken # Partial /\ Broken \notin Links
    BY <1>1, BodyFacts DEF PhaseInv, CopyInv, TypeOK, TouchInv
  <2>2. /\ s \in Paths \X Leaves /\ fs[s[1]].files[s[2]] \notin Links
        /\ fs[tgt].files[leaf] \notin Links => s = <<tgt, leaf>>
        /\ s = <<tgt, leaf>> \/ s \in Reached
        /\ kind = "move" => s = <<tgt, leaf>>
    BY <1>1, <2>1, SpotFacts, SpotReached
  <2>3. PICK q \in Paths, m \in Leaves : s = <<q, m>>
    BY <2>2
  <2>4. /\ fs[q] \in Entry /\ WellFormed(fs[q]) /\ LinksEnd(q, fs[q])
        /\ m = Self => fs[q].kind # "dir"
        /\ m # Self => fs[q].kind = "dir"
    BY <2>1, <2>3 DEF TypeOK, CanWrite
  <2> DEFINE e == With(fs[q], m, Broken)
  <2>5. /\ e \in Entry /\ WellFormed(e) /\ e.files[m] = Broken
        /\ e.kind = IF m = Self THEN "file" ELSE "dir"
        /\ \A n \in Leaves \ {m} : e.files[n] = fs[q].files[n]
        /\ m # Self => e.kind = fs[q].kind
    BY <2>1, <2>4, WithFacts, WithWellFormed
  <2>6. d = [fs EXCEPT ![q] = e]
    BY <2>3 DEF WrittenAt
  <2> HIDE DEF d, e
  <2>7. d[tgt] \in Entry /\ WellFormed(d[tgt])
        /\ (leaf = Self => d[tgt].kind # "dir") /\ (leaf # Self => d[tgt].kind = "dir")
    <3>1. CASE q = tgt
      BY <2>1, <2>2, <2>3, <2>4, <2>5, <2>6, <3>1, FileStoreAssumption
         DEF TypeOK, WellFormed, Leaves
    <3>2. CASE q # tgt
      <4>1. d[tgt] = fs[tgt] /\ fs[tgt].files[leaf] \in Links
        BY <2>1, <2>2, <2>3, <2>6, <3>2 DEF TypeOK
      <4>2. /\ leaf = Self => fs[tgt].kind # "dir"
            /\ leaf # Self => fs[tgt].kind = "dir"
        BY <2>1, <4>1, BodyFacts, FileStoreAssumption DEF WellFormed, Leaves
      <4> QED
        BY <2>1, <4>1, <4>2
    <3> QED
      BY <3>1, <3>2
  <2> DEFINE w == Without(d[tgt], leaf)
  <2>8. /\ w \in Entry /\ WellFormed(w) /\ w.files[leaf] = Absent
        /\ \A n \in Leaves \ {leaf} : w.files[n] = d[tgt].files[n]
    BY <2>1, <2>7, WithoutFacts, WithoutWellFormed
  <2>9. fs' = [d EXCEPT ![tgt] = w]
    BY <1>3
  <2> HIDE DEF w
  <2>10. /\ fs' \in [Paths -> Entry]
         /\ \A p \in Paths : WellFormed(fs'[p])
         /\ fs'[tgt] = w
         /\ \A p \in Paths \ {tgt, q} : fs'[p] = fs[p]
         /\ q # tgt => fs'[q] = e
    BY <2>1, <2>3, <2>5, <2>6, <2>8, <2>9 DEF TypeOK
  <2>11. ASSUME NEW p \in Paths, NEW n \in Leaves
         PROVE  \/ fs'[p].files[n] = fs[p].files[n] /\ <<p, n>> # s
                \/ fs'[p].files[n] \in {Absent, Broken} /\ <<p, n>> \in {s, <<tgt, leaf>>}
    <3>1. CASE p # tgt
      BY <2>3, <2>5, <2>10, <3>1
    <3>2. CASE p = tgt /\ n = leaf
      BY <2>8, <2>10, <3>2
    <3>3. CASE p = tgt /\ n # leaf /\ q = tgt
      BY <2>1, <2>3, <2>5, <2>6, <2>8, <2>10, <3>3 DEF TypeOK
    <3>4. CASE p = tgt /\ n # leaf /\ q # tgt
      BY <2>1, <2>3, <2>6, <2>8, <2>10, <3>4 DEF TypeOK
    <3> QED
      BY <3>1, <3>2, <3>3, <3>4
  <2>12. Tidy(fs')
    <3> SUFFICES ASSUME NEW p \in Paths PROVE LinksEnd(p, fs'[p])
      BY <2>10
    <3>1. LinksEnd(p, fs[p])
      BY DEF TypeOK
    <3>2. \A n \in Leaves : fs'[p].files[n] \in Links => fs'[p].files[n] = fs[p].files[n]
      BY <2>11, BodyFacts
    <3> QED
      BY <3>1, <3>2, FewerLinks
  <2>13. UNCHANGED <<kind, srcs, dest, before, at, tgt>>
    BY <1>1 DEF End, reqVars
  <2>14. MayTouch' = MayTouch /\ Reached' = Reached
    BY <2>13, SameRequest
  <2>15. TheRestIsUntouched'
    <3> SUFFICES ASSUME NEW p \in Paths \ MayTouch
                 PROVE  /\ <<p, Self>> \notin Reached => fs'[p].kind = before[p].kind
                        /\ \A n \in Leaves : <<p, n>> \notin Reached =>
                                             fs'[p].files[n] = before[p].files[n]
      BY <2>13, <2>14 DEF TheRestIsUntouched
    <3>1. p # tgt
      BY <2>1
    <3>2. <<p, Self>> \notin Reached => fs'[p].kind = fs[p].kind
      BY <2>2, <2>3, <2>5, <2>10, <3>1
    <3>3. \A n \in Leaves : <<p, n>> \notin Reached => fs'[p].files[n] = fs[p].files[n]
      BY <2>2, <2>11, <3>1
    <3> QED
      BY <3>2, <3>3 DEF TheRestIsUntouched
  <2>16. \A p \in Paths, n \in Leaves : fs'[p].files[n] # Partial
    <3> SUFFICES ASSUME NEW p \in Paths, NEW n \in Leaves, fs'[p].files[n] = Partial
                 PROVE  FALSE
      OBVIOUS
    <3>1. fs[p].files[n] = Partial /\ <<p, n>> # s
      BY <2>1, <2>11, BodyFacts
    <3> QED
      BY <3>1 DEF NoStrayPartial
  <2>17. ItemStaysWhole'
    <3>1. CASE kind = "copy"
      BY <2>13, <3>1 DEF ItemStaysWhole
    <3>2. CASE kind = "move"
      <4>1. q = tgt
        BY <2>2, <2>3, <3>2
      <4> QED
        BY <1>1, <2>10, <2>13, <3>2, <4>1, MoveKept
    <3> QED
      BY <2>1, <3>1, <3>2
  <2> QED
    BY <1>1, <2>10, <2>12, <2>15, <2>16, <2>17, EndDisk
<1> QED
  BY <1>2, <1>3 DEF StopInFile

-----------------------------------------------------------------------------
(* Removal *)

\* What is removed is the source, and a moved item is at its destination.
LEMMA RemoveKept ==
    ASSUME IInv, phase = "removing", UNCHANGED <<kind, srcs, dest, before, tgt>>,
           \A p \in Paths \ {Src} : fs'[p] = fs[p]
    PROVE  /\ ItemStaysWhole' /\ TheRestIsUntouched' /\ MayTouch' = MayTouch
           /\ Tidy(before')
           /\ kind = "move" =>
                /\ tgt \in Paths \ {Src} /\ Src[1] # dest /\ tgt = DestPath(Src)
                /\ \A p \in Paths \ {Src} : p[1] # dest =>
                      fs'[p] = before[p] \/ fs'[p] = Nothing
                /\ Holds(fs'[tgt], before[Src])
<1> USE DEF IInv
<1>1. at \in Index /\ kind \in {"move", "delete"} /\ Src \in MayTouch
  BY DEF PhaseInv, AtWork, TouchInv
<1>2. MayTouch' = MayTouch /\ TheRestIsUntouched' /\ Tidy(before')
  BY <1>1, RestPut, SameRequest
<1>3. CASE kind = "delete"
  BY <1>2, <1>3 DEF ItemStaysWhole
<1>4. CASE kind = "move"
  <2>1. /\ \A i \in Index : /\ srcs[i] \in Paths /\ DestPath(srcs[i]) \in Paths
                            /\ DestPath(srcs[i])[1] = dest
        /\ Src \in Paths
    BY <1>1, PathFacts DEF Src
  <2>2. Src[1] # dest /\ tgt = DestPath(Src) /\ Holds(fs[tgt], before[Src])
    BY <1>4 DEF MoveInv
  <2>3. tgt \in Paths \ {Src} /\ Holds(fs'[tgt], before[Src])
    BY <1>1, <2>1, <2>2 DEF Src
  <2>4. ItemStaysWhole'
    <3> SUFFICES ASSUME NEW i \in Index
                 PROVE  \/ before[srcs[i]].kind = "none"
                        \/ fs'[srcs[i]] = before[srcs[i]]
                        \/ Holds(fs'[DestPath(srcs[i])], before[srcs[i]])
      BY DEF ItemStaysWhole, Index, DestPath
    <3>1. CASE srcs[i] = Src
      BY <2>2, <2>3, <3>1
    <3>2. CASE srcs[i] # Src
      BY <1>4, <2>1, <2>2, <3>2 DEF ItemStaysWhole, Index
    <3> QED
      BY <3>1, <3>2
  <2>5. \A p \in Paths \ {Src} : p[1] # dest => fs'[p] = before[p] \/ fs'[p] = Nothing
    BY <1>4 DEF MoveInv
  <2> QED
    BY <1>2, <2>2, <2>3, <2>4, <2>5
<1> QED
  BY <1>1, <1>3, <1>4

\* rmtree removes one file of a directory.
LEMMA RemoveLeafInv == ASSUME IInv, RemoveLeaf PROVE IInv'
<1> USE DEF IInv
<1>1. /\ phase = "removing" /\ fs[Src].kind = "dir" /\ at \in Index
      /\ kind \in {"move", "delete"} /\ Src \in Paths
      /\ UNCHANGED <<kind, srcs, dest, before, jobs, phase, at, tgt, todo, leaf, result>>
      /\ UNCHANGED cancelled
  BY PathFacts DEF RemoveLeaf, PhaseInv, AtWork, reqVars, stepVars, Src
<1>2. PICK l \in Present(fs[Src]) : Put(Src, Without(fs[Src], l))
  BY DEF RemoveLeaf
<1>3. l \in Leaves /\ l # Self /\ fs[Src] \in Entry /\ WellFormed(fs[Src])
  BY <1>1 DEF Present, WellFormed, TypeOK
<1>4. /\ WellFormed(Without(fs[Src], l)) /\ Without(fs[Src], l) \in Entry
      /\ \A m \in Leaves : Without(fs[Src], l).files[m] \in Links =>
                            Without(fs[Src], l).files[m] = fs[Src].files[m]
  BY <1>1, <1>3, WithoutWellFormed, WithoutFacts, BodyFacts
<1>5. /\ fs' \in [Paths -> Entry] /\ Tidy(fs')
      /\ fs'[Src] = Without(fs[Src], l)
      /\ \A p \in Paths \ {Src} : fs'[p] = fs[p]
  BY <1>1, <1>2, <1>4, PutFacts
<1>6. /\ ItemStaysWhole' /\ TheRestIsUntouched' /\ MayTouch' = MayTouch /\ Tidy(before')
      /\ kind = "move" =>
           /\ tgt \in Paths \ {Src} /\ Src[1] # dest /\ tgt = DestPath(Src)
           /\ \A p \in Paths \ {Src} : p[1] # dest =>
                 fs'[p] = before[p] \/ fs'[p] = Nothing
           /\ Holds(fs'[tgt], before[Src])
  BY <1>1, <1>5, RemoveKept
<1>7. TypeOK'
  BY <1>1, <1>5 DEF TypeOK
<1>8. NoStrayPartial'
  BY <1>1, <1>3, <1>5, WithoutFacts, BodyFacts DEF NoStrayPartial
<1>9. PhaseInv' /\ CopyInv' /\ OtherInv'
  BY <1>1 DEF PhaseInv, AtWork, Index, CopyInv, OtherInv
<1>10. MoveInv'
  BY <1>1, <1>6 DEF MoveInv, Src, DestPath
<1>11. TouchInv'
  BY <1>1, <1>6 DEF TouchInv, Src
<1> QED
  BY <1>6, <1>7, <1>8, <1>9, <1>10, <1>11

\* The last of an item is removed.
LEMMA RemoveItemInv == ASSUME IInv, RemoveItem PROVE IInv'
<1> USE DEF IInv
<1>1. /\ phase = "removing" /\ at \in Index /\ kind \in {"move", "delete"} /\ Src \in Paths
      /\ UNCHANGED <<kind, srcs, dest, before, jobs, tgt, todo, leaf, result, cancelled>>
      /\ phase' = "item" /\ at' = at + 1
      /\ Put(Src, Nothing)
  BY PathFacts DEF RemoveItem, NextSource, PhaseInv, AtWork, reqVars, Src
<1>2. /\ fs' \in [Paths -> Entry] /\ Tidy(fs')
      /\ fs'[Src] = Nothing
      /\ \A p \in Paths \ {Src} : fs'[p] = fs[p]
  BY <1>1, NothingFacts, BodyFacts, PutFacts
<1>3. /\ ItemStaysWhole' /\ TheRestIsUntouched' /\ MayTouch' = MayTouch /\ Tidy(before')
      /\ kind = "move" =>
            \A p \in Paths \ {Src} : p[1] # dest => fs'[p] = before[p] \/ fs'[p] = Nothing
  BY <1>1, <1>2, RemoveKept
<1>4. TypeOK'
  <2>1. at' \in 1..Len(srcs') + 1
    BY <1>1 DEF TypeOK, Index
  <2> QED
    BY <1>1, <1>2, <2>1 DEF TypeOK, Phases
<1>5. NoStrayPartial'
  BY <1>1, <1>2, NothingFacts, BodyFacts DEF NoStrayPartial
<1>6. PhaseInv' /\ CopyInv' /\ OtherInv' /\ TouchInv'
  BY <1>1 DEF PhaseInv, AtWork, CopyInv, OtherInv, TouchInv
<1>7. MoveInv'
  <2>1. kind = "move" =>
            \A p \in Paths : p[1] # dest => fs'[p] = before[p] \/ fs'[p] = Nothing
    BY <1>2, <1>3
  <2> QED
    BY <1>1, <2>1 DEF MoveInv
<1> QED
  BY <1>3, <1>4, <1>5, <1>6, <1>7

-----------------------------------------------------------------------------
(* Archives, renames, directories, uploads *)

\* A change of the one path an extraction or an upload may touch.
LEMMA OnlyTarget ==
    ASSUME IInv, kind \in {"extract", "upload"}, \A p \in Paths \ {tgt} : fs'[p] = fs[p],
           UNCHANGED <<kind, srcs, dest, before, tgt>>
    PROVE  /\ MayTouch' = MayTouch /\ TheRestIsUntouched' /\ ItemStaysWhole'
           /\ Tidy(before') /\ tgt \in MayTouch
<1>1. tgt \in MayTouch
  BY DEF MayTouch
<1> QED
  BY <1>1, SameRequest, RestPut DEF IInv, ItemStaysWhole

\* A member of an archive goes where its path is, within the directory.
LEMMA MemberFacts ==
    ASSUME IInv, phase = "unpacking", NEW l \in todo,
           NEW b \in {Fresh, Broken}, PutMember(l, b)
    PROVE  /\ fs' \in [Paths -> Entry] /\ Tidy(fs')
           /\ fs'[tgt].kind = "dir"
           /\ \A p \in Paths \ {tgt} : fs'[p] = fs[p]
           /\ \A m \in Leaves : fs'[tgt].files[m] \in {fs[tgt].files[m], b}
<1> USE DEF IInv
<1>1. /\ tgt \in Paths /\ l \in Leaves /\ l # Self /\ fs[tgt].kind = "dir"
      /\ Spot(tgt, l)[1] = tgt /\ fs[tgt] \in Entry /\ WellFormed(fs[tgt])
      /\ b \in Bodies /\ b # Absent /\ b \notin Links
  BY BodyFacts, FileStoreAssumption DEF TypeOK, OtherInv, Leaves
<1>2. CASE CanWrite(tgt, l) /\ Write(tgt, l, b)
  <2> DEFINE s == Spot(tgt, l)
  <2>1. b \in Bodies \ ({Absent} \cup Links)
    BY <1>1
  <2>2. /\ s \in Paths \X Leaves
        /\ fs' \in [Paths -> Entry] /\ Tidy(fs')
        /\ fs'[s[1]].files[s[2]] = b
        /\ fs[s[1]].files[s[2]] \notin Links
        /\ \A q \in Paths, m \in Leaves :
              <<q, m>> # s => fs'[q].files[m] = fs[q].files[m]
        /\ \A q \in Paths \ {s[1]} : fs'[q] = fs[q]
        /\ s[2] # Self => fs'[s[1]].kind = fs[s[1]].kind
    BY <1>1, <1>2, <2>1, WriteFacts
  <2>3. s[2] # Self
    BY <1>1, <1>2 DEF CanWrite
  <2>4. PICK n \in Leaves : s = <<tgt, n>>
    BY <1>1, <2>2
  <2>5. \A m \in Leaves : fs'[tgt].files[m] \in {fs[tgt].files[m], b}
    BY <1>1, <2>2, <2>4
  <2>6. fs'[tgt].kind = "dir"
    BY <1>1, <2>2, <2>3
  <2>7. \A p \in Paths \ {tgt} : fs'[p] = fs[p]
    BY <1>1, <2>2
  <2> QED
    BY <2>2, <2>5, <2>6, <2>7
<1>3. CASE Put(tgt, With(fs[tgt], l, b))
  <2>1. /\ With(fs[tgt], l, b) \in Entry /\ WellFormed(With(fs[tgt], l, b))
        /\ With(fs[tgt], l, b).files[l] = b /\ With(fs[tgt], l, b).kind = "dir"
        /\ \A m \in Leaves \ {l} : With(fs[tgt], l, b).files[m] = fs[tgt].files[m]
    BY <1>1, WithFacts, WithWellFormed
  <2>2. \A m \in Leaves : With(fs[tgt], l, b).files[m] \in Links =>
                          With(fs[tgt], l, b).files[m] = fs[tgt].files[m]
    BY <1>1, <2>1
  <2>3. /\ fs' \in [Paths -> Entry] /\ Tidy(fs')
        /\ fs'[tgt] = With(fs[tgt], l, b)
        /\ \A p \in Paths \ {tgt} : fs'[p] = fs[p]
    BY <1>1, <1>3, <2>1, <2>2, PutFacts
  <2>4. \A m \in Leaves : fs'[tgt].files[m] \in {fs[tgt].files[m], b}
    BY <2>1, <2>3
  <2> QED
    BY <2>1, <2>3, <2>4
<1> QED
  BY <1>2, <1>3 DEF PutMember

\* An upload writes to its file, which is no link.
LEMMA StoreFacts ==
    ASSUME IInv, kind = "upload", fs[tgt].kind # "dir",
           NEW b \in Bodies \ ({Absent} \cup Links), Write(tgt, Self, b)
    PROVE  /\ fs' \in [Paths -> Entry] /\ Tidy(fs')
           /\ fs'[tgt].kind = "file" /\ fs'[tgt].files[Self] = b
           /\ \A p \in Paths \ {tgt} : fs'[p] = fs[p]
           /\ \A m \in Leaves \ {Self} : fs'[tgt].files[m] = fs[tgt].files[m]
           /\ Spot(tgt, Self) = <<tgt, Self>>
<1> USE DEF IInv
<1>1. /\ tgt \in Paths /\ tgt[2] \in Stems /\ LinksEnd(tgt, fs[tgt]) /\ Self \in Leaves
  BY DEF TypeOK, OtherInv, Leaves
<1>2. fs[tgt].files[Self] \notin Links
  BY <1>1, MovedLinks
<1>3. Spot(tgt, Self) = <<tgt, Self>>
  BY <1>1, <1>2, SpotFacts
<1>4. CanWrite(tgt, Self)
  BY <1>3 DEF CanWrite
<1>5. /\ fs' \in [Paths -> Entry] /\ Tidy(fs')
      /\ fs'[tgt].files[Self] = b
      /\ \A q \in Paths, m \in Leaves :
            <<q, m>> # <<tgt, Self>> => fs'[q].files[m] = fs[q].files[m]
      /\ \A q \in Paths \ {tgt} : fs'[q] = fs[q]
      /\ fs'[tgt].kind = "file"
  <2> DEFINE s == <<tgt, Self>>
  <2>1. /\ fs' \in [Paths -> Entry] /\ Tidy(fs')
        /\ fs'[s[1]].files[s[2]] = b
        /\ \A q \in Paths, m \in Leaves :
              <<q, m>> # s => fs'[q].files[m] = fs[q].files[m]
        /\ \A q \in Paths \ {s[1]} : fs'[q] = fs[q]
        /\ fs'[s[1]].kind = IF s[2] = Self THEN "file" ELSE "dir"
    BY <1>1, <1>3, <1>4, WriteFacts
  <2> QED
    BY <2>1
<1>6. \A m \in Leaves \ {Self} : fs'[tgt].files[m] = fs[tgt].files[m]
  BY <1>1, <1>5
<1> QED
  BY <1>3, <1>5, <1>6

\* Some member half written, or the disk as it is: the end of an extraction.
LEMMA EndUnpackInv ==
    ASSUME IInv, phase = "unpacking", UNCHANGED fs \/ HalfUnpacked,
           NEW r \in Results, End(r)
    PROVE  IInv'
<1> USE DEF IInv
<1>1. CASE UNCHANGED fs
  BY <1>1, EndInv
<1>2. CASE HalfUnpacked
  <2>1. PICK l \in todo : PutMember(l, Broken)
    BY <1>2 DEF HalfUnpacked
  <2>2. kind = "extract" /\ Broken # Partial
    BY BodyFacts DEF PhaseInv
  <2>3. UNCHANGED <<kind, srcs, dest, before, tgt>>
    BY DEF End, reqVars
  <2>4. /\ fs' \in [Paths -> Entry] /\ Tidy(fs')
        /\ \A p \in Paths \ {tgt} : fs'[p] = fs[p]
        /\ \A m \in Leaves : fs'[tgt].files[m] \in {fs[tgt].files[m], Broken}
    BY <2>1, MemberFacts
  <2>5. TheRestIsUntouched' /\ ItemStaysWhole'
    BY <2>2, <2>3, <2>4, OnlyTarget
  <2>6. \A p \in Paths, m \in Leaves : fs'[p].files[m] # Partial
    BY <2>2, <2>4 DEF NoStrayPartial
  <2> QED
    BY <2>4, <2>5, <2>6, EndDisk
<1> QED
  BY <1>1, <1>2

\* An extraction makes its directory.
LEMMA UnpackInv == ASSUME IInv, Unpack PROVE IInv'
<1> USE DEF IInv
<1>1. phase = "item" /\ kind = "extract" /\ at \in Index
  BY DEF Unpack, AtItem, TypeOK, Index
<1>2. CASE ~Exists(Src) \/ fs[tgt].kind = "file"
  BY <1>1, <1>2, EndInv DEF Unpack, Refuse, Results
<1>3. CASE ~(~Exists(Src) \/ fs[tgt].kind = "file")
  <2>1. Put(tgt, MakeDir(fs[tgt])) /\ UNCHANGED <<kind, srcs, dest, before, tgt>>
    BY <1>3 DEF Unpack, Goto, End, reqVars
  <2>2. tgt \in Paths /\ fs[tgt] \in Entry /\ WellFormed(fs[tgt])
    BY <1>1 DEF TypeOK
  <2>3. /\ fs' \in [Paths -> Entry] /\ Tidy(fs')
        /\ fs'[tgt].kind = "dir" /\ fs'[tgt].files = fs[tgt].files
        /\ \A p \in Paths \ {tgt} : fs'[p] = fs[p]
    BY <1>3, <2>1, <2>2, MakeDirFacts, MakeDirWellFormed, PutFacts
  <2>4. /\ MayTouch' = MayTouch /\ TheRestIsUntouched' /\ ItemStaysWhole'
        /\ Tidy(before') /\ tgt \in MayTouch
    BY <1>1, <2>1, <2>3, OnlyTarget
  <2>5. NoStrayPartial' /\ \A p \in Paths, l \in Leaves : fs'[p].files[l] # Partial
    BY <1>1, <2>3 DEF NoStrayPartial
  <2>6. CASE /\ todo' \in SUBSET {l \in Inner : Spot(tgt, l)[1] = tgt}
             /\ tgt' = tgt /\ Goto("unpacking")
    <3>1. /\ todo' \subseteq Inner /\ phase' = "unpacking"
          /\ UNCHANGED <<jobs, at, leaf, result, cancelled>>
      BY <2>6 DEF Goto, reqVars
    <3>2. TypeOK'
      BY <2>1, <2>3, <3>1 DEF TypeOK, Phases, Leaves
    <3>3. \A l \in todo' : Spot(tgt, l)' = Spot(tgt, l) /\ Spot(tgt, l)[1] = tgt
      BY <2>1, <2>3, <2>6 DEF Spot
    <3>4. PhaseInv' /\ CopyInv' /\ OtherInv' /\ TouchInv' /\ MoveInv'
      BY <1>1, <2>1, <2>2, <2>3, <2>4, <3>1, <3>3
         DEF PhaseInv, AtWork, Index, CopyInv, OtherInv, TouchInv, MoveInv
    <3> QED
      BY <2>4, <2>5, <3>2, <3>4
  <2>7. CASE End("error")
    BY <2>3, <2>4, <2>5, <2>7, EndDisk DEF Results
  <2> QED
    BY <1>3, <2>6, <2>7 DEF Unpack
<1> QED
  BY <1>2, <1>3

\* A member is unpacked.
LEMMA UnpackMemberInv == ASSUME IInv, UnpackMember PROVE IInv'
<1> USE DEF IInv
<1>1. /\ phase = "unpacking" /\ kind = "extract" /\ at \in Index
      /\ UNCHANGED <<kind, srcs, dest, before, jobs, phase, at, tgt, leaf, result, cancelled>>
  BY DEF UnpackMember, PhaseInv, AtWork, reqVars
<1>2. PICK l \in todo : PutMember(l, Fresh) /\ todo' = todo \ {l}
  BY DEF UnpackMember
<1>3. /\ fs' \in [Paths -> Entry] /\ Tidy(fs')
      /\ fs'[tgt].kind = "dir"
      /\ \A p \in Paths \ {tgt} : fs'[p] = fs[p]
      /\ \A m \in Leaves : fs'[tgt].files[m] \in {fs[tgt].files[m], Fresh}
  BY <1>1, <1>2, MemberFacts
<1>4. /\ MayTouch' = MayTouch /\ TheRestIsUntouched' /\ ItemStaysWhole'
      /\ Tidy(before') /\ tgt \in MayTouch
  BY <1>1, <1>3, OnlyTarget
<1>5. TypeOK'
  BY <1>1, <1>2, <1>3 DEF TypeOK
<1>6. NoStrayPartial'
  BY <1>1, <1>3, BodyFacts DEF NoStrayPartial
<1>7. todo \subseteq Inner /\ Inner \subseteq Leaves /\ tgt \in Paths
  BY <1>1 DEF OtherInv, Leaves, TypeOK
<1>8. \A m \in todo' : Spot(tgt, m)'[1] = tgt
  <2> SUFFICES ASSUME NEW m \in todo \ {l} PROVE Spot(tgt, m)'[1] = tgt
    BY <1>2
  <2>1. Spot(tgt, m)[1] = tgt /\ m \in Leaves
    BY <1>1, <1>7 DEF OtherInv
  <2>2. CASE fs'[tgt].files[m] = fs[tgt].files[m]
    BY <1>1, <2>1, <2>2 DEF Spot
  <2>3. CASE fs'[tgt].files[m] = Fresh
    BY <1>1, <2>3, BodyFacts DEF Spot
  <2> QED
    BY <1>3, <2>1, <2>2, <2>3
<1>9. PhaseInv' /\ CopyInv' /\ OtherInv' /\ TouchInv' /\ MoveInv'
  BY <1>1, <1>2, <1>3, <1>4, <1>7, <1>8
     DEF PhaseInv, AtWork, Index, CopyInv, OtherInv, TouchInv, MoveInv
<1> QED
  BY <1>3, <1>4, <1>5, <1>6, <1>9

\* A rename takes a free name only.
LEMMA RenameInv == ASSUME IInv, Rename PROVE IInv'
<1> USE DEF IInv
<1>1. phase = "item" /\ kind = "rename" /\ at \in Index
  BY DEF Rename, AtItem, TypeOK, Index
<1>2. CASE ~Exists(Src) \/ Exists(tgt)
  BY <1>1, <1>2, EndInv DEF Rename, Refuse, Results
<1>3. CASE Exists(Src) /\ ~Exists(tgt)
  <2>1. fs' = [fs EXCEPT ![Src] = Nothing, ![tgt] = fs[Src]] /\ End("ok")
    BY <1>3 DEF Rename
  <2>2. /\ tgt \in Paths /\ Src \in Paths /\ Src # tgt /\ Src[2] \in Stems
    BY <1>1, <1>3, PathFacts DEF TypeOK, Src, Exists, Index
  <2>3. /\ fs' \in [Paths -> Entry]
        /\ fs'[Src] = Nothing /\ fs'[tgt] = fs[Src]
        /\ \A p \in Paths \ {Src, tgt} : fs'[p] = fs[p]
    BY <2>1, <2>2, NothingFacts DEF TypeOK
  <2>4. UNCHANGED <<kind, srcs, dest, before, tgt>>
    BY <2>1 DEF End, reqVars
  <2>5. Tidy(fs')
    BY <2>2, <2>3, NothingFacts, MovedLinks DEF TypeOK
  <2>6. \A p \in Paths, l \in Leaves : fs'[p].files[l] # Partial
    BY <1>1, <2>2, <2>3, NothingFacts, BodyFacts DEF NoStrayPartial
  <2>7. MayTouch' = MayTouch /\ Reached' = Reached
    BY <2>4, SameRequest
  <2>8. Src \in MayTouch
    BY <1>1 DEF MayTouch, Src, Index
  <2>9. tgt \in MayTouch
    <3>1. tgt \notin MayTouch => tgt \in Free
      BY <1>1, <1>3, <2>2, OnlyCopiesReach DEF TheRestIsUntouched, Free, Exists
    <3> QED
      BY <1>1, <3>1 DEF MayTouch
  <2>10. TheRestIsUntouched'
    BY <2>3, <2>4, <2>7, <2>8, <2>9 DEF TheRestIsUntouched
  <2>11. ItemStaysWhole' /\ "ok" \in Results
    BY <1>1, <2>4 DEF ItemStaysWhole, Results
  <2> QED
    BY <2>1, <2>3, <2>5, <2>6, <2>10, <2>11, EndDisk
<1> QED
  BY <1>2, <1>3

\* A directory is made where nothing is.
LEMMA MkdirInv == ASSUME IInv, Mkdir PROVE IInv'
<1> USE DEF IInv
<1>1. phase = "item" /\ kind = "mkdir" /\ tgt \in Paths
  BY DEF Mkdir, AtItem, TypeOK
<1>2. CASE Exists(tgt)
  BY <1>1, <1>2, EndInv DEF Mkdir, Refuse, Results
<1>3. CASE ~Exists(tgt)
  <2>1. Put(tgt, MakeDir(Nothing)) /\ End("ok")
    BY <1>3 DEF Mkdir
  <2>2. /\ WellFormed(MakeDir(Nothing)) /\ MakeDir(Nothing) \in Entry
        /\ \A l \in Leaves : MakeDir(Nothing).files[l] \notin Links
    BY NothingFacts, BodyFacts, MakeDirFacts, MakeDirWellFormed
  <2>3. /\ fs' \in [Paths -> Entry] /\ Tidy(fs')
        /\ fs'[tgt] = MakeDir(Nothing)
        /\ \A p \in Paths \ {tgt} : fs'[p] = fs[p]
    BY <1>1, <2>1, <2>2, PutFacts
  <2>4. UNCHANGED <<kind, srcs, dest, before, tgt>>
    BY <2>1 DEF End, reqVars
  <2>5. \A p \in Paths, l \in Leaves : fs'[p].files[l] # Partial
    BY <1>1, <2>3, NothingFacts, MakeDirFacts, BodyFacts DEF NoStrayPartial
  <2>6. tgt \in MayTouch
    <3>1. tgt \notin MayTouch => tgt \in Free
      BY <1>1, <1>3, OnlyCopiesReach DEF TheRestIsUntouched, Free, Exists
    <3> QED
      BY <1>1, <3>1 DEF MayTouch
  <2>7. TheRestIsUntouched'
    BY <2>3, <2>4, <2>6, SameRequest, RestPut
  <2>8. ItemStaysWhole' /\ "ok" \in Results
    BY <1>1, <2>4 DEF ItemStaysWhole, Results
  <2> QED
    BY <2>1, <2>3, <2>5, <2>7, <2>8, EndDisk
<1> QED
  BY <1>2, <1>3

\* An upload empties its file.
LEMMA OpenUploadInv == ASSUME IInv, OpenUpload PROVE IInv'
<1> USE DEF IInv
<1>1. phase = "item" /\ kind = "upload" /\ at \in Index /\ leaf = Self /\ tgt[2] \in Stems
  BY DEF OpenUpload, AtItem, TypeOK, Index, OtherInv
<1>2. CASE fs[tgt].kind = "dir"
  BY <1>1, <1>2, EndInv DEF OpenUpload, Refuse, Results
<1>3. CASE fs[tgt].kind # "dir"
  <2>1. /\ Write(tgt, Self, Partial) /\ phase' = "storing"
        /\ UNCHANGED <<kind, srcs, dest, before, jobs, at, tgt, todo, leaf, result, cancelled>>
    BY <1>3 DEF OpenUpload, Goto, reqVars
  <2>2. Self \in Leaves /\ Partial \in Bodies \ ({Absent} \cup Links) /\ tgt \in Paths
    BY BodyFacts DEF Leaves, TypeOK
  <2>3. /\ fs' \in [Paths -> Entry] /\ Tidy(fs')
        /\ fs'[tgt].kind = "file" /\ fs'[tgt].files[Self] = Partial
        /\ \A p \in Paths \ {tgt} : fs'[p] = fs[p]
        /\ \A m \in Leaves \ {Self} : fs'[tgt].files[m] = fs[tgt].files[m]
    BY <1>1, <1>3, <2>1, <2>2, StoreFacts
  <2>4. /\ MayTouch' = MayTouch /\ TheRestIsUntouched' /\ ItemStaysWhole'
        /\ Tidy(before') /\ tgt \in MayTouch
    BY <1>1, <2>1, <2>3, OnlyTarget
  <2>5. TypeOK'
    BY <1>1, <2>1, <2>3 DEF TypeOK, Phases
  <2>6. Spot(tgt, leaf)' = <<tgt, Self>>
    BY <1>1, <2>1, <2>2, <2>3, BodyFacts DEF Spot
  <2>7. NoStrayPartial'
    BY <1>1, <2>1, <2>3, <2>6 DEF NoStrayPartial
  <2>8. PhaseInv' /\ CopyInv' /\ OtherInv' /\ TouchInv' /\ MoveInv'
    BY <1>1, <2>1, <2>3, <2>4 DEF PhaseInv, AtWork, Index, CopyInv, OtherInv, TouchInv, MoveInv
  <2> QED
    BY <2>3, <2>4, <2>5, <2>7, <2>8
<1> QED
  BY <1>2, <1>3

\* An upload ends: stored, or broken off.
LEMMA EndUploadInv ==
    ASSUME IInv, phase = "storing", NEW b \in {Fresh, Broken},
           Write(tgt, leaf, b), NEW r \in Results, End(r)
    PROVE  IInv'
<1> USE DEF IInv
<1>1. /\ kind = "upload" /\ leaf = Self /\ Self \in Leaves /\ fs[tgt].kind # "dir"
      /\ b \in Bodies \ ({Absent} \cup Links) /\ b # Partial /\ tgt \in Paths
  BY BodyFacts DEF PhaseInv, OtherInv, Leaves, TypeOK
<1>2. UNCHANGED <<kind, srcs, dest, before, tgt>>
  BY DEF End, reqVars
<1>3. /\ fs' \in [Paths -> Entry] /\ Tidy(fs')
      /\ fs'[tgt].files[Self] = b
      /\ \A p \in Paths \ {tgt} : fs'[p] = fs[p]
      /\ \A m \in Leaves \ {Self} : fs'[tgt].files[m] = fs[tgt].files[m]
      /\ Spot(tgt, Self) = <<tgt, Self>>
  BY <1>1, StoreFacts
<1>4. \A p \in Paths, l \in Leaves : fs'[p].files[l] # Partial
  BY <1>1, <1>3 DEF NoStrayPartial
<1>5. TheRestIsUntouched' /\ ItemStaysWhole'
  BY <1>1, <1>2, <1>3, OnlyTarget
<1> QED
  BY <1>3, <1>4, <1>5, EndDisk

-----------------------------------------------------------------------------
(* Every step *)

\* The sources of a request are a sequence of paths that is not empty.
LEMMA SourcesFacts ==
    ASSUME NEW ss \in Sources
    PROVE  /\ ss \in Seq(Dirs \X Stems) /\ Len(ss) > 0
           /\ ss[1] \in Paths /\ ss[1][2] \in Names
<1>1. PICK n \in 1..MaxSources : ss \in [1..n -> Dirs \X Stems]
  BY DEF Sources
<1>2. ss \in Seq(Dirs \X Stems) /\ Len(ss) = n
  BY <1>1
<1>3. ss[1] \in Dirs \X Stems
  BY <1>1
<1>4. ss[1] \in Paths /\ ss[1][2] \in Names
  BY <1>3, FileStoreAssumption DEF Paths
<1> QED
  BY <1>1, <1>2, <1>4

\* Whatever request arrives.
LEMMA RequestInv == ASSUME IInv, Request PROVE IInv'
<1>1. CASE RequestTransfer
  <2>1. PICK ss \in Sources, d \in Dirs :
            \/ Arrive("copy", ss, <<d, ss[1][2]>>, "planning")
            \/ Arrive("move", ss, <<d, ss[1][2]>>, "item")
    BY <1>1 DEF RequestTransfer
  <2>2. <<d, ss[1][2]>> \in Paths
    BY SourcesFacts DEF Paths
  <2> QED
    BY <2>1, <2>2, SourcesFacts, ArriveInv DEF Kinds
<1>2. CASE RequestDelete
  BY <1>2, SourcesFacts, ArriveInv DEF RequestDelete, Kinds
<1>3. CASE RequestOther
  <2>1. PICK q \in Dirs \X Stems, t \in Paths :
            \/ Arrive("extract", <<q>>, t, "item")
            \/ Arrive("rename", <<q>>, t, "item")
            \/ q = t /\ \E k \in {"mkdir", "upload"} : Arrive(k, <<q>>, t, "item")
    BY <1>3 DEF RequestOther
  <2>2. <<q>> \in Seq(Dirs \X Stems) /\ Len(<<q>>) > 0 /\ q[2] \in Stems
    OBVIOUS
  <2> QED
    BY <2>1, <2>2, ArriveInv DEF Kinds
<1> QED
  BY <1>1, <1>2, <1>3 DEF Request

\* Wherever the request breaks off.
LEMMA BreakInv == ASSUME IInv, NEW r \in {"error", "crashed"}, Break(r) PROVE IInv'
<1>1. r \in Results /\ End(r)
  BY DEF Break, Results
<1>2. CASE phase = "writing"
  BY <1>1, <1>2, BreakFileInv DEF Break
<1>3. CASE phase = "storing"
  BY <1>1, <1>3, EndUploadInv DEF Break
<1>4. CASE phase = "unpacking"
  BY <1>1, <1>4, EndUnpackInv DEF Break
<1>5. CASE phase \notin {"writing", "storing", "unpacking"}
  BY <1>1, <1>5, EndInv DEF Break
<1> QED
  BY <1>2, <1>3, <1>4, <1>5

\* The invariant is inductive.
LEMMA NextInv == IInv /\ [Next]_vars => IInv'
<1> SUFFICES ASSUME IInv, [Next]_vars PROVE IInv'
  OBVIOUS
<1>1. CASE Request
  BY <1>1, RequestInv
<1>2. CASE Cancel
  BY <1>2, CancelInv
<1>3. CASE Copying
  <2>1. CASE StopInWalk
    BY <2>1, EndInv DEF StopInWalk, Results
  <2> QED
    BY <1>3, <2>1, PlanInv, CopyItemInv, OpenFileInv, FinishFileInv, StopInFileInv,
       ItemCopiedInv DEF Copying
<1>4. CASE MoveItem \/ DeleteItem \/ RemoveLeaf \/ RemoveItem
  BY <1>4, MoveItemInv, DeleteItemInv, RemoveLeafInv, RemoveItemInv
<1>5. CASE StopAtItem
  BY <1>5, EndInv DEF StopAtItem, AtItem, Results
<1>6. CASE AllDone
  BY <1>6, EndInv DEF AllDone, Results
<1>7. CASE Unpack \/ UnpackMember \/ Rename \/ Mkdir \/ OpenUpload
  BY <1>7, UnpackInv, UnpackMemberInv, RenameInv, MkdirInv, OpenUploadInv
<1>8. CASE StopUnpacking
  BY <1>8, EndUnpackInv DEF StopUnpacking, Results
<1>9. CASE Unpacked
  BY <1>9, EndUnpackInv DEF Unpacked, Results
<1>10. CASE Stored
  <2>1. phase = "storing" /\ IInv
    BY <1>10 DEF Stored
  <2>2. leaf = Self
    BY <2>1 DEF IInv, OtherInv, PhaseInv
  <2> QED
    BY <1>10, <2>1, <2>2, EndUploadInv DEF Stored, Results
<1>11. CASE Break("error") \/ Break("crashed")
  BY <1>11, BreakInv
<1>12. CASE UNCHANGED vars
  <2>1. MayTouch' = MayTouch /\ Reached' = Reached
    BY <1>12, SameRequest DEF vars, reqVars, stepVars
  <2>2. TypeOK' /\ Tidy(before') /\ NoStrayPartial' /\ TheRestIsUntouched' /\ ItemStaysWhole'
    BY <1>12, <2>1 DEF vars, reqVars, stepVars, IInv, TypeOK, NoStrayPartial,
                       TheRestIsUntouched, ItemStaysWhole, DestPath, Spot
  <2>3. PhaseInv' /\ CopyInv' /\ OtherInv' /\ TouchInv' /\ MoveInv'
    BY <1>12, <2>1 DEF vars, reqVars, stepVars, IInv, PhaseInv, AtWork, Index, CopyInv,
                       OtherInv, TouchInv, MoveInv, Src, DestPath, Exists, Spot, CanWrite
  <2> QED
    BY <2>2, <2>3 DEF IInv
<1> QED
  BY <1>1, <1>2, <1>3, <1>4, <1>5, <1>6, <1>7, <1>8, <1>9, <1>10, <1>11, <1>12
     DEF Next, Work

-----------------------------------------------------------------------------
(* What is answered as done *)

\* The sources that were dealt with.
Past == IF phase # "idle" \/ result = "ok" THEN 1 .. at - 1 ELSE {}

ResultInv ==
    /\ phase # "idle" => result = "none"
    /\ result = "ok" /\ kind \in {"copy", "move", "delete"} => at = Len(srcs) + 1

DeletedInv == kind = "delete" => \A i \in Past : ~Exists(srcs[i])

\* A moved item was there, came from elsewhere and is at the destination: that
\* keeps the next one, which asks for a free path, from being put over it.
Moved(i) ==
    /\ srcs[i][1] # dest
    /\ before[srcs[i]].kind # "none"
    /\ ~Exists(srcs[i])
    /\ Holds(fs[DestPath(srcs[i])], before[srcs[i]])

MovedInv ==
    kind = "move" =>
        /\ \A i \in Past : Moved(i)
        /\ phase = "removing" => before[Src].kind # "none"

\* The files of orig are in e, but for those a link was in the way of.
HasFiles(e, orig) == \A l \in FilesOf(orig) : e.files[l] \in {orig.files[l]} \cup Links

Copied(i) ==
    \E t \in {DestPath(srcs[i]), CopyPath(srcs[i])} : HasFiles(fs[t], before[srcs[i]])

CopiedInv ==
    kind = "copy" =>
        /\ phase \in {"item", "copying", "writing"} \/ result = "ok" =>
              \A i \in Index : before[srcs[i]].kind # "none"
        /\ Apart => \A i \in Past : Copied(i)
        /\ Apart /\ phase \in {"copying", "writing"} =>
              /\ tgt \in {DestPath(Src), CopyPath(Src)} /\ tgt # Src
              /\ \A l \in FilesOf(fs[Src]) \ todo :
                    fs[tgt].files[l] \in {fs[Src].files[l]} \cup Links

DoneInv == ResultInv /\ DeletedInv /\ MovedInv /\ CopiedInv

LEMMA PastFacts ==
    ASSUME TypeOK, phase # "idle"
    PROVE  /\ Past = 1 .. at - 1 /\ Past \subseteq Index
           /\ at \notin Past
  BY DEF TypeOK, Past, Index

\* The next source: one more was dealt with.
LEMMA PastNext ==
    ASSUME TypeOK, phase # "idle", phase' # "idle", at' = at + 1
    PROVE  Past' = Past \cup {at}
  BY DEF TypeOK, Past

\* Whether the names run into each other is settled when a request arrives.
LEMMA SameApart == ASSUME UNCHANGED <<kind, srcs, dest, before>> PROVE Apart' = Apart
<1>1. Suffixed' = Suffixed /\ Landings' = Landings
  BY DEF Suffixed, Landings, CopyPath
<1>2. Reached' = Reached
  BY <1>1 DEF Reached
<1>. QED
  BY <1>1, <1>2 DEF Apart, CopyPath, DestPath

LEMMA InitDone == Init => DoneInv
  BY DEF Init, DoneInv, ResultInv, DeletedInv, MovedInv, CopiedInv

LEMMA ArriveDone ==
    ASSUME NEW k, NEW ss, NEW p, NEW ph \in {"planning", "item"},
           ph = "planning" <=> k = "copy", Arrive(k, ss, p, ph)
    PROVE  DoneInv'
<1>1. Past' = {}
  BY DEF Arrive, Past
<1>. QED
  BY <1>1 DEF Arrive, DoneInv, ResultInv, DeletedInv, MovedInv, CopiedInv

\* What did not end well promises nothing.
LEMMA EndDone ==
    ASSUME NEW r \in {"error", "cancelled", "crashed"}, End(r) PROVE DoneInv'
<1>1. Past' = {} /\ phase' = "idle" /\ result' \notin {"ok", "none"}
  BY DEF End, Past
<1>. QED  BY <1>1 DEF DoneInv, ResultInv, DeletedInv, MovedInv, CopiedInv

LEMMA OtherDone ==
    ASSUME kind' \notin {"copy", "move", "delete"}, phase' # "idle" => result' = "none"
    PROVE  DoneInv'
  BY DEF DoneInv, ResultInv, DeletedInv, MovedInv, CopiedInv

LEMMA SameDone == ASSUME DoneInv, UNCHANGED <<fs, reqVars, stepVars>> PROVE DoneInv'
<1>1. Past' = Past /\ Apart' = Apart /\ Index' = Index
  BY SameApart DEF reqVars, stepVars, Past, Index
<1>2. ASSUME NEW i PROVE Moved(i)' = Moved(i) /\ Copied(i)' = Copied(i)
  BY DEF reqVars, stepVars, Moved, Copied, Exists, Holds, HasFiles, CopyPath, DestPath
<1>. QED
  BY <1>1, <1>2
  DEF reqVars, stepVars, DoneInv, ResultInv, DeletedInv, MovedInv, CopiedInv, Exists,
      Src, DestPath, CopyPath

LEMMA AllDoneDone == ASSUME IInv, DoneInv, AllDone PROVE DoneInv'
<1>1. /\ phase = "item" /\ at = Len(srcs) + 1 /\ phase' = "idle" /\ result' = "ok"
      /\ UNCHANGED <<fs, at, kind, srcs, dest, before>>
  BY DEF AllDone, End, reqVars, IInv, TypeOK
<1>2. Past' = Past /\ Apart' = Apart /\ Index' = Index
  BY <1>1, SameApart DEF Past, Index
<1>3. ASSUME NEW i PROVE Moved(i)' = Moved(i) /\ Copied(i)' = Copied(i)
  BY <1>1 DEF Moved, Copied, Exists, Holds, HasFiles, CopyPath, DestPath
<1>. QED
  BY <1>1, <1>2, <1>3
  DEF DoneInv, ResultInv, DeletedInv, MovedInv, CopiedInv, Exists

LEMMA DeleteDone ==
    ASSUME IInv, DoneInv, kind = "delete", DeleteItem \/ RemoveLeaf \/ RemoveItem
    PROVE  DoneInv'
<1>. USE DEF DoneInv, ResultInv
<1>0. TypeOK /\ phase # "idle" /\ UNCHANGED <<kind, srcs>> /\ at \in Index
  BY DEF IInv, PhaseInv, AtWork, DeleteItem, AtItem, RemoveLeaf, RemoveItem, Goto, Refuse,
         End, NextSource, reqVars, stepVars, TypeOK, Index
<1>1. CASE DeleteItem
  <2>1. CASE Exists(Src)
    <3>1. phase' = "removing" /\ UNCHANGED <<fs, at, result>>
      BY <1>1, <2>1 DEF DeleteItem, Goto
    <3>. QED
      BY <1>0, <3>1 DEF DeletedInv, MovedInv, CopiedInv, Past, Exists
  <2>2. CASE ~Exists(Src)
    BY <1>1, <2>2, EndDone DEF DeleteItem, Refuse
  <2>. QED  BY <2>1, <2>2
<1>2. CASE RemoveLeaf
  <2>1. PICK l \in Present(fs[Src]) : Put(Src, Without(fs[Src], l))
    BY <1>2 DEF RemoveLeaf
  <2>2. /\ UNCHANGED <<at, phase, result>> /\ fs[Src].kind = "dir" /\ Src \in Paths
    BY <1>0, <1>2, PathFacts DEF RemoveLeaf, reqVars, stepVars, Src
  <2>3. \A i \in Past : srcs[i] # Src /\ srcs[i] \in Paths
    BY <1>0, <2>2, PastFacts, PathFacts DEF DeletedInv, Exists
  <2>4. \A p \in Paths \ {Src} : fs'[p] = fs[p]
    BY <1>0, <2>1 DEF Put, TypeOK
  <2>. QED
    BY <1>0, <2>2, <2>3, <2>4 DEF DeletedInv, MovedInv, CopiedInv, Past, Exists
<1>3. CASE RemoveItem
  <2>1. /\ Put(Src, Nothing) /\ phase' = "item" /\ at' = at + 1 /\ UNCHANGED result
        /\ Src \in Paths
    BY <1>0, <1>3, PathFacts DEF RemoveItem, NextSource, Src
  <2>2. fs'[Src].kind = "none" /\ \A p \in Paths \ {Src} : fs'[p] = fs[p]
    BY <1>0, <2>1, NothingFacts DEF Put, TypeOK
  <2>3. Past' = Past \cup {at} /\ \A i \in Past : srcs[i] \in Paths
    BY <1>0, <2>1, PastNext, PastFacts, PathFacts
  <2>. QED
    BY <1>0, <2>1, <2>2, <2>3 DEF DeletedInv, MovedInv, CopiedInv, Exists, Src
<1>. QED  BY <1>1, <1>2, <1>3

\* Nothing that was moved is at the path being written.
LEMMA MovedApart ==
    ASSUME IInv, DoneInv, kind = "move", phase \in {"copying", "writing"}, NEW i \in Past
    PROVE  /\ i \in Index /\ srcs[i] \in Paths /\ DestPath(srcs[i]) \in Paths
           /\ srcs[i] # tgt /\ DestPath(srcs[i]) # tgt
<1>1. i \in Index /\ at \in Index /\ TypeOK
  BY PastFacts DEF IInv, PhaseInv, AtWork
<1>2. Moved(i)
  BY DEF DoneInv, MovedInv
<1>3. tgt[1] = dest
  BY <1>1, PathFacts DEF IInv, MoveInv, Src
<1>4. DestPath(srcs[i]) # tgt
  BY <1>1, <1>2 DEF IInv, MoveInv, Moved, Exists
<1>. QED
  BY <1>1, <1>2, <1>3, <1>4, PathFacts DEF Moved

\* A source of a copy is never written to.
LEMMA CopySources ==
    ASSUME IInv, DoneInv, kind = "copy", Apart,
           phase \in {"item", "copying", "writing"} \/ result = "ok", NEW i \in Index
    PROVE  fs[srcs[i]] = before[srcs[i]]
<1> DEFINE p == srcs[i]
<1>1. p \in Paths /\ fs[p] \in Entry /\ before[p] \in Entry
  BY PathFacts DEF IInv, TypeOK
<1>2. p \notin Free
  BY DEF Free, DoneInv, CopiedInv
<1>3. p \notin Suffixed
  BY DEF Apart, Suffixed, Index
<1>4. p \notin MayTouch
  BY <1>2, <1>3 DEF MayTouch, Apart
<1>5. \A s \in Reached : s[1] # p
  BY DEF Apart, Index
<1>6. \A l \in Leaves \cup {Self} : <<p, l>> \notin Reached
  BY <1>5
<1> HIDE DEF p
<1>7. fs[p].kind = before[p].kind /\ \A l \in Leaves : fs[p].files[l] = before[p].files[l]
  BY <1>1, <1>4, <1>6 DEF IInv, TheRestIsUntouched
<1>8. fs[p] = before[p]
  BY <1>1, <1>7, SameEntry
<1>. QED  BY <1>8 DEF p

\* Nor is a path that another source was copied to.
LEMMA CopiedApart ==
    ASSUME Apart, at \in Index, NEW i \in Index, i # at,
           NEW t \in {DestPath(Src), CopyPath(Src)}
    PROVE  t \notin {DestPath(srcs[i]), CopyPath(srcs[i])}
  BY DEF Apart, Index, Src, DestPath

\* Nor does a link lead to any of them.
LEMMA ReachedApart ==
    ASSUME Apart, NEW i \in Index, NEW s \in Reached
    PROVE  s[1] \notin {srcs[i], DestPath(srcs[i]), CopyPath(srcs[i])}
  BY DEF Apart, Index

\* A step for the item being copied that leaves the items that were dealt with as
\* they are.
LEMMA PastKept ==
    ASSUME IInv, DoneInv, kind \in {"copy", "move"},
           phase # "idle", phase' # "idle", at \in Index,
           UNCHANGED <<kind, srcs, dest, before, at>>,
           kind = "move" => \A i \in Past : /\ fs'[srcs[i]] = fs[srcs[i]]
                                          /\ fs'[DestPath(srcs[i])] = fs[DestPath(srcs[i])],
           kind = "copy" /\ Apart =>
              \A i \in Past : /\ fs'[DestPath(srcs[i])] = fs[DestPath(srcs[i])]
                             /\ fs'[CopyPath(srcs[i])] = fs[CopyPath(srcs[i])]
    PROVE  /\ Past' = Past /\ Apart' = Apart
           /\ kind = "move" => \A i \in Past : Moved(i)'
           /\ kind = "copy" /\ Apart => \A i \in Past : Copied(i)'
<1>1. Past' = Past /\ Apart' = Apart
  BY SameApart DEF Past
<1>3. ASSUME kind = "move", NEW i \in Past PROVE Moved(i)'
  <2>1. Moved(i)
    BY <1>3 DEF DoneInv, MovedInv
  <2>2. DestPath(srcs[i])' = DestPath(srcs[i])
    BY DEF DestPath
  <2>3. fs'[srcs[i]] = fs[srcs[i]] /\ fs'[DestPath(srcs[i])] = fs[DestPath(srcs[i])]
    BY <1>3
  <2>. QED  BY <2>1, <2>2, <2>3 DEF Moved, Exists, Holds
<1>4. ASSUME kind = "copy", Apart, NEW i \in Past PROVE Copied(i)'
  <2>1. PICK t \in {DestPath(srcs[i]), CopyPath(srcs[i])} : HasFiles(fs[t], before[srcs[i]])
    BY <1>4 DEF DoneInv, CopiedInv, Copied
  <2>3. fs'[t] = fs[t]
    BY <1>4, <2>1
  <2>4. t \in {DestPath(srcs[i]), CopyPath(srcs[i])}'
    BY DEF DestPath, CopyPath
  <2>5. HasFiles(fs[t], before[srcs[i]])'
    BY <2>1, <2>3 DEF HasFiles
  <2>. QED  BY <2>4, <2>5 DEF Copied
<1>. QED  BY <1>1, <1>3, <1>4

\* A file of the item is begun, or finished with what its source holds.
LEMMA FileDone ==
    ASSUME IInv, DoneInv, OpenFile \/ FinishFile, phase' # "idle"
    PROVE  DoneInv'
<1>0. /\ kind \in {"copy", "move"} /\ phase \in {"copying", "writing"} /\ at \in Index
      /\ TypeOK /\ phase' \in {"copying", "writing"} /\ todo \subseteq Leaves
      /\ UNCHANGED <<kind, srcs, dest, before, at, tgt, result>> /\ UNCHANGED reqVars
  BY DEF IInv, PhaseInv, AtWork, OpenFile, FinishFile, Goto, Refuse, End, reqVars, TypeOK
<1>1. PICK l \in todo, b \in Bodies \ ({Absent} \cup Links) :
          /\ CanWrite(tgt, l) /\ Write(tgt, l, b)
          /\ \/ todo' = todo
             \/ /\ todo' = todo \ {l}
                /\ Spot(tgt, l)[1] # Src => b = fs[Src].files[l]
  <2>1. CASE OpenFile
    BY <2>1, BodyFacts DEF OpenFile, Refuse, End
  <2>2. CASE FinishFile
    <3>1. /\ leaf \in todo /\ CanWrite(tgt, leaf)
          /\ Read \in Bodies \ ({Absent} \cup Links)
          /\ Spot(tgt, leaf)[1] # Src => Read = fs[Src].files[leaf]
      BY <1>0, <2>2, ReadFacts DEF FinishFile, IInv, CopyInv
    <3>. QED  BY <2>2, <3>1 DEF FinishFile
  <2>. QED  BY <2>1, <2>2
<1> DEFINE s == Spot(tgt, l)
<1>2. /\ l \in Leaves /\ s \in Paths \X Leaves
      /\ fs'[s[1]].files[s[2]] = b
      /\ \A q \in Paths, m \in Leaves : <<q, m>> # s => fs'[q].files[m] = fs[q].files[m]
      /\ \A q \in Paths \ {s[1]} : fs'[q] = fs[q]
      /\ kind = "move" => s = <<tgt, l>>
  BY <1>0, <1>1, FileFacts
<1>3. /\ s = <<tgt, l>> \/ s \in Reached
      /\ fs[tgt].files[l] \notin Links => s = <<tgt, l>>
      /\ Src \in Paths /\ tgt \in Paths
  BY <1>0, <1>2, SpotReached, SpotFacts, PathFacts DEF TypeOK, Src
<1> HIDE DEF s
<1>4. /\ Past' = Past /\ Apart' = Apart
      /\ kind = "move" => \A i \in Past : Moved(i)'
      /\ kind = "copy" /\ Apart => \A i \in Past : Copied(i)'
  <2>1. ASSUME kind = "move", NEW i \in Past
        PROVE  /\ fs'[srcs[i]] = fs[srcs[i]]
               /\ fs'[DestPath(srcs[i])] = fs[DestPath(srcs[i])]
    BY <1>0, <1>2, <2>1, MovedApart
  <2>2. ASSUME kind = "copy", Apart, NEW i \in Past
        PROVE  /\ fs'[DestPath(srcs[i])] = fs[DestPath(srcs[i])]
               /\ fs'[CopyPath(srcs[i])] = fs[CopyPath(srcs[i])]
    <3>1. i \in Index /\ i # at /\ DestPath(srcs[i]) \in Paths /\ CopyPath(srcs[i]) \in Paths
      BY <1>0, PastFacts, PathFacts
    <3>2. tgt \in {DestPath(Src), CopyPath(Src)}
      BY <1>0, <2>2 DEF DoneInv, CopiedInv
    <3>3. tgt \notin {DestPath(srcs[i]), CopyPath(srcs[i])}
      BY <1>0, <2>2, <3>1, <3>2, CopiedApart
    <3>4. s[1] \notin {DestPath(srcs[i]), CopyPath(srcs[i])}
      BY <1>3, <2>2, <3>1, <3>3, ReachedApart
    <3>. QED  BY <1>2, <3>1, <3>4
  <2>. QED  BY <1>0, <2>1, <2>2, PastKept
<1>5. ResultInv' /\ DeletedInv' /\ MovedInv'
  BY <1>0, <1>4 DEF DoneInv, ResultInv, DeletedInv, MovedInv
<1>6. CopiedInv'
  <2>. SUFFICES ASSUME kind = "copy" PROVE CopiedInv'
    BY <1>0 DEF CopiedInv
  <2>1. Src' = Src /\ DestPath(Src)' = DestPath(Src) /\ CopyPath(Src)' = CopyPath(Src)
    BY <1>0 DEF Src, DestPath, CopyPath
  <2>2. ASSUME Apart
        PROVE  /\ tgt \in {DestPath(Src), CopyPath(Src)} /\ tgt # Src
               /\ FilesOf(fs[Src])' = FilesOf(fs[Src])
               /\ \A m \in FilesOf(fs[Src]) \ todo' :
                     fs'[tgt].files[m] \in {fs'[Src].files[m]} \cup Links
    <3>1. /\ tgt \in {DestPath(Src), CopyPath(Src)} /\ tgt # Src
          /\ \A m \in FilesOf(fs[Src]) \ todo :
                fs[tgt].files[m] \in {fs[Src].files[m]} \cup Links
      BY <1>0, <2>2 DEF DoneInv, CopiedInv
    <3>2. s[1] # Src
      BY <1>0, <1>3, <2>2, <3>1, ReachedApart DEF Src
    <3>3. fs'[Src] = fs[Src]
      BY <1>2, <1>3, <3>2
    <3>4. ASSUME NEW m \in FilesOf(fs[Src]) \ todo'
          PROVE  fs'[tgt].files[m] \in {fs[Src].files[m]} \cup Links
      <4>0. m \in Leaves
        BY DEF FilesOf
      <4>1. CASE fs[tgt].files[m] \in Links /\ <<tgt, m>> # s
        BY <1>2, <1>3, <4>0, <4>1
      <4>2. CASE <<tgt, m>> = s /\ m = l
        <5>1. s[1] = tgt /\ s[2] = m
          BY <4>2
        <5>2. fs'[tgt].files[m] = b
          BY <1>2, <5>1
        <5>. QED  BY <1>1, <3>2, <4>2, <5>2 DEF s
      <4>3. CASE <<tgt, m>> # s /\ m # l
        <5>1. fs'[tgt].files[m] = fs[tgt].files[m]
          BY <1>2, <1>3, <4>0, <4>3
        <5>. QED  BY <1>1, <3>1, <4>3, <5>1
      <4>4. CASE <<tgt, m>> = s /\ m # l
        <5>1. s \in Reached
          BY <1>3, <4>4
        <5>2. s[1] = tgt
          BY <4>4
        <5>. QED  BY <1>0, <2>2, <3>1, <5>1, <5>2, ReachedApart DEF Src
      <4>5. CASE fs[tgt].files[m] \notin Links /\ <<tgt, m>> # s /\ m = l
        BY <1>3, <4>5
      <4>. QED  BY <4>1, <4>2, <4>3, <4>4, <4>5
    <3>5. FilesOf(fs[Src])' = FilesOf(fs[Src])
      BY <2>1, <3>3 DEF FilesOf, IsFile
    <3>6. fs'[Src].files = fs[Src].files
      BY <3>3
    <3>. QED  BY <3>1, <3>4, <3>5, <3>6
  <2>. QED
    BY <1>0, <1>4, <2>1, <2>2 DEF DoneInv, CopiedInv, Index
<1>. QED  BY <1>5, <1>6 DEF DoneInv

\* The copying of an item starts; where the names are apart, to a path of its own.
LEMMA BeginCopyDone ==
    ASSUME IInv, DoneInv, kind \in {"copy", "move"}, phase = "item", at \in Index,
           NEW t \in Paths, t # Src,
           kind = "move" => t = DestPath(Src) /\ ~Exists(t),
           kind = "copy" => t \in {DestPath(Src), CopyPath(Src)},
           t = CopyPath(Src) \/ ~Exists(t),
           BeginCopy(t)
    PROVE  DoneInv'
<1>1. CASE Refuse
  BY <1>1, EndDone DEF Refuse
<1>2. CASE ~Refuse
  <2> DEFINE u == IF fs[Src].kind = "dir" THEN Landing(t) ELSE t
  <2>0. u = t \/ (kind = "copy" /\ ~Apart)
    <3>. SUFFICES ASSUME IsLink(t) PROVE kind = "copy" /\ ~Apart
      BY DEF Landing
    <3>1. fs[t].files[Self] \in Links /\ Self \in Leaves /\ WellFormed(fs[t])
      BY DEF IsLink, Leaves, IInv, TypeOK
    <3>2. Exists(t)
      BY <3>1, BodyFacts DEF Exists, WellFormed, IInv, TypeOK, Entry
    <3>3. kind = "copy" /\ t = CopyPath(Src)
      BY <3>2
    <3>4. before[t].files[Self] = fs[t].files[Self]
      BY <3>1, <3>3 DEF IInv, CopyInv
    <3>5. t \in Suffixed
      BY <3>3 DEF Suffixed, Src, Index
    <3>6. LeadsTo[before[t].files[Self]][1] \in Landings
      BY <3>1, <3>4, <3>5 DEF Landings
    <3>. QED  BY <3>3, <3>6 DEF Apart
  <2>1. /\ tgt' = u /\ todo' = FilesOf(fs[Src]) /\ phase' = "copying"
        /\ UNCHANGED <<kind, srcs, dest, before, at, result>>
        /\ \A p \in Paths \ {u} : fs'[p] = fs[p]
    <3>1. /\ IF fs[Src].kind = "dir" THEN Put(u, MakeDir(fs[u])) ELSE UNCHANGED fs
          /\ tgt' = u /\ todo' = FilesOf(fs[Src]) /\ Goto("copying")
      BY <1>2 DEF BeginCopy
    <3>. QED
      BY <3>1 DEF Goto, reqVars, Put, IInv, TypeOK
  <2> HIDE DEF u
  <2>2. ASSUME kind = "move", NEW i \in Past
        PROVE  /\ fs'[srcs[i]] = fs[srcs[i]]
               /\ fs'[DestPath(srcs[i])] = fs[DestPath(srcs[i])]
    <3>1. Moved(i) /\ t[1] = dest /\ ~Exists(t) /\ u = t
      BY <2>0, <2>2, PathFacts DEF DoneInv, MovedInv, IInv, Src
    <3>2. srcs[i] # t /\ DestPath(srcs[i]) # t
      BY <2>2, <3>1 DEF Moved, Holds, Exists
    <3>3. srcs[i] \in Paths /\ DestPath(srcs[i]) \in Paths
      BY <2>2, PastFacts, PathFacts DEF IInv
    <3>. QED  BY <2>1, <3>1, <3>2, <3>3
  <2>3. ASSUME kind = "copy", Apart, NEW i \in Past
        PROVE  /\ fs'[DestPath(srcs[i])] = fs[DestPath(srcs[i])]
               /\ fs'[CopyPath(srcs[i])] = fs[CopyPath(srcs[i])]
    <3>1. /\ u = t /\ i \in Index /\ i # at
          /\ DestPath(srcs[i]) \in Paths /\ CopyPath(srcs[i]) \in Paths
      BY <2>0, <2>3, PastFacts, PathFacts DEF IInv
    <3>2. t \notin {DestPath(srcs[i]), CopyPath(srcs[i])}
      BY <2>3, <3>1, CopiedApart
    <3>. QED  BY <2>1, <3>1, <3>2
  <2>4. /\ Past' = Past /\ Apart' = Apart
        /\ kind = "move" => \A i \in Past : Moved(i)'
        /\ kind = "copy" /\ Apart => \A i \in Past : Copied(i)'
    BY <2>1, <2>2, <2>3, PastKept
  <2>5. ResultInv' /\ DeletedInv' /\ MovedInv'
    BY <2>1, <2>4 DEF DoneInv, ResultInv, DeletedInv, MovedInv
  <2>6. CopiedInv'
    <3>. SUFFICES ASSUME kind = "copy" PROVE CopiedInv'
      BY <2>1 DEF CopiedInv
    <3>1. /\ Src' = Src /\ Src \in Paths /\ DestPath(Src)' = DestPath(Src)
          /\ CopyPath(Src)' = CopyPath(Src)
      BY <2>1, PathFacts DEF Src, DestPath, CopyPath, IInv
    <3>2. ASSUME Apart
          PROVE  /\ u = t /\ FilesOf(fs[Src])' = todo'
      BY <2>0, <2>1, <3>1, <3>2 DEF FilesOf, IsFile
    <3>. QED
      BY <2>1, <2>4, <3>1, <3>2 DEF DoneInv, CopiedInv, Index
  <2>. QED  BY <2>5, <2>6 DEF DoneInv
<1>. QED  BY <1>1, <1>2

LEMMA CopyItemDone == ASSUME IInv, DoneInv, CopyItem PROVE DoneInv'
<1>1. kind = "copy" /\ phase = "item" /\ at \in Index /\ Exists(Src)
  BY DEF CopyItem, AtItem, IInv, TypeOK, CopyInv, Index, Src
<1>2. /\ DestPath(Src) \in Paths /\ CopyPath(Src) \in Paths /\ CopyPath(Src) # Src
  BY <1>1, PathFacts DEF IInv, Src
<1>. QED
  BY <1>1, <1>2, BeginCopyDone DEF CopyItem

LEMMA PlanDone == ASSUME IInv, DoneInv, Plan PROVE DoneInv'
<1>1. CASE \A i \in Index : Exists(srcs[i])
  <2>1. /\ kind = "copy" /\ phase' = "item" /\ phase = "planning" /\ fs = before
        /\ UNCHANGED <<fs, kind, srcs, dest, before, at, result>>
    BY <1>1 DEF Plan, Goto, reqVars, Index, IInv, PhaseInv, CopyInv
  <2>2. Past' = Past /\ Apart' = Apart /\ Index' = Index
    BY <2>1, SameApart DEF Past, Index
  <2>3. \A i \in Index' : before'[srcs'[i]].kind # "none"
    BY <1>1, <2>1, <2>2 DEF Exists
  <2>4. ASSUME NEW i PROVE Copied(i)' = Copied(i)
    BY <2>1 DEF Copied, HasFiles, CopyPath, DestPath
  <2>. QED
    BY <2>1, <2>2, <2>3, <2>4 DEF DoneInv, ResultInv, DeletedInv, MovedInv, CopiedInv
<1>2. CASE ~\A i \in Index : Exists(srcs[i])
  BY <1>2, EndDone DEF Plan, Refuse, Index
<1>. QED  BY <1>1, <1>2

\* A move on one device: the item is at the free destination, and nothing that
\* was moved before is at either path.
LEMMA MoveItemDone == ASSUME IInv, DoneInv, MoveItem PROVE DoneInv'
<1>0. kind = "move" /\ phase = "item" /\ at \in Index /\ TypeOK
  BY DEF MoveItem, AtItem, IInv, TypeOK, Index
<1>1. CASE ~Exists(Src) \/ Exists(DestPath(Src))
  BY <1>1, EndDone DEF MoveItem, Refuse
<1>2. CASE Exists(Src) /\ ~Exists(DestPath(Src)) /\ BeginCopy(DestPath(Src))
  <2>1. DestPath(Src) \in Paths /\ DestPath(Src) # Src
    BY <1>0, <1>2, MoveSource, PathFacts DEF Src
  <2>. QED  BY <1>0, <1>2, <2>1, BeginCopyDone
<1>3. CASE /\ Exists(Src) /\ ~Exists(DestPath(Src)) /\ NextSource
           /\ fs' = [fs EXCEPT ![Src] = Nothing, ![DestPath(Src)] = fs[Src]]
  <2>1. /\ Src \in Paths /\ DestPath(Src) \in Paths /\ Src[1] # dest
        /\ Src # DestPath(Src) /\ fs[Src] = before[Src] /\ DestPath(Src)[1] = dest
    BY <1>0, <1>3, MoveSource, PathFacts DEF Src
  <2>2. /\ fs'[Src].kind = "none" /\ fs'[DestPath(Src)] = before[Src]
        /\ \A p \in Paths \ {Src, DestPath(Src)} : fs'[p] = fs[p]
    BY <1>0, <1>3, <2>1, NothingFacts DEF TypeOK
  <2>3. /\ phase' = "item" /\ at' = at + 1
        /\ UNCHANGED <<kind, srcs, dest, before, result>>
    BY <1>3 DEF NextSource, reqVars
  <2>4. Past' = Past \cup {at}
    BY <1>0, <2>3, PastNext
  <2>5. ASSUME NEW i \in Past PROVE Moved(i)'
    <3>1. /\ srcs[i] \in Paths /\ DestPath(srcs[i]) \in Paths /\ DestPath(srcs[i])[1] = dest
          /\ Moved(i)
      BY <1>0, PastFacts, PathFacts DEF DoneInv, MovedInv
    <3>2. srcs[i] # DestPath(Src) /\ DestPath(srcs[i]) # Src /\ DestPath(srcs[i]) # DestPath(Src)
      BY <1>3, <2>1, <3>1 DEF Moved, Holds, Exists
    <3>3. fs'[srcs[i]].kind = "none" /\ fs'[DestPath(srcs[i])] = fs[DestPath(srcs[i])]
      BY <2>2, <3>1, <3>2 DEF Moved, Exists
    <3>4. DestPath(srcs[i])' = DestPath(srcs[i])
      BY <2>3 DEF DestPath
    <3>. QED  BY <2>3, <3>1, <3>3, <3>4 DEF Moved, Exists, Holds
  <2>6. ASSUME NEW i, i = at PROVE Moved(i)'
    <3>1. srcs[i] = Src /\ DestPath(srcs[i])' = DestPath(Src)
      BY <2>3, <2>6 DEF Src, DestPath
    <3>2. before[Src].kind # "none"
      BY <1>3, <2>1 DEF Exists
    <3>. QED  BY <2>1, <2>2, <2>3, <3>1, <3>2 DEF Moved, Exists, Holds
  <2>. QED
    BY <1>0, <2>3, <2>4, <2>5, <2>6 DEF DoneInv, ResultInv, DeletedInv, MovedInv, CopiedInv
<1>. QED  BY <1>1, <1>2, <1>3 DEF MoveItem

LEMMA ItemCopiedDone == ASSUME IInv, DoneInv, ItemCopied PROVE DoneInv'
<1>0. /\ phase = "copying" /\ todo = {} /\ UNCHANGED fs /\ kind \in {"copy", "move"}
      /\ at \in Index /\ TypeOK /\ result = "none"
  BY DEF ItemCopied, IInv, PhaseInv, AtWork, DoneInv, ResultInv
<1>1. CASE kind = "copy"
  <2>1. /\ phase' = "item" /\ at' = at + 1 /\ UNCHANGED <<kind, srcs, dest, before, result>>
    BY <1>1 DEF ItemCopied, NextSource, reqVars
  <2>2. Past' = Past \cup {at} /\ Apart' = Apart /\ Index' = Index
    BY <1>0, <2>1, PastNext, SameApart DEF Index
  <2>3. ASSUME NEW i PROVE Copied(i)' = Copied(i)
    BY <1>0, <2>1 DEF Copied, HasFiles, CopyPath, DestPath
  <2>4. Apart => Copied(at)
    <3>. SUFFICES ASSUME Apart PROVE Copied(at)
      OBVIOUS
    <3>1. fs[Src] = before[Src]
      BY <1>0, <1>1, CopySources DEF Src
    <3>2. HasFiles(fs[tgt], before[Src])
      BY <1>0, <1>1, <3>1 DEF DoneInv, CopiedInv, HasFiles
    <3>. QED  BY <1>0, <1>1, <3>2 DEF DoneInv, CopiedInv, Copied, Src
  <2>. QED
    BY <1>0, <1>1, <2>1, <2>2, <2>3, <2>4
    DEF DoneInv, ResultInv, DeletedInv, MovedInv, CopiedInv
<1>2. CASE kind = "move" /\ cancelled
  BY <1>2, EndDone DEF ItemCopied
<1>3. CASE kind = "move" /\ ~cancelled
  <2>1. phase' = "removing" /\ UNCHANGED <<kind, srcs, dest, before, at, result>>
    BY <1>3 DEF ItemCopied, Goto, reqVars
  <2>2. Past' = Past /\ Src' = Src
    BY <1>0, <2>1 DEF Past, Src
  <2>3. ASSUME NEW i PROVE Moved(i)' = Moved(i)
    BY <1>0, <2>1 DEF Moved, Exists, Holds, DestPath
  <2>4. before[Src].kind # "none"
    <3>1. Src \in Paths
      BY <1>0, PathFacts DEF Src
    <3>. QED
      BY <1>0, <1>3, <3>1, NothingFacts DEF IInv, MoveInv, Exists
  <2>. QED
    BY <1>0, <1>3, <2>1, <2>2, <2>3, <2>4
    DEF DoneInv, ResultInv, DeletedInv, MovedInv, CopiedInv
<1>. QED  BY <1>0, <1>1, <1>2, <1>3

\* The source of a move is removed: all of it is at the destination.
LEMMA MoveRemoved ==
    ASSUME IInv, DoneInv, kind = "move", RemoveLeaf \/ RemoveItem PROVE DoneInv'
<1>0. /\ phase = "removing" /\ at \in Index /\ TypeOK /\ Src \in Paths
      /\ UNCHANGED <<kind, srcs, dest, before, result, tgt>>
      /\ Src[1] # dest /\ tgt = DestPath(Src) /\ Holds(fs[tgt], before[Src])
      /\ before[Src].kind # "none"
  BY PathFacts
  DEF RemoveLeaf, RemoveItem, NextSource, reqVars, stepVars, IInv, PhaseInv, AtWork,
      MoveInv, DoneInv, MovedInv, Src
<1>1. /\ \A p \in Paths \ {Src} : fs'[p] = fs[p]
      /\ RemoveItem => fs'[Src].kind = "none"
  BY <1>0, NothingFacts DEF RemoveLeaf, RemoveItem, Put, TypeOK
<1>2. RemoveLeaf => fs[Src].kind = "dir"
  BY DEF RemoveLeaf
<1>3. ASSUME NEW i \in Past PROVE Moved(i)'
  <2>1. /\ srcs[i] \in Paths /\ DestPath(srcs[i]) \in Paths /\ DestPath(srcs[i])[1] = dest
        /\ Moved(i)
    BY <1>0, PastFacts, PathFacts DEF DoneInv, MovedInv
  <2>2. fs'[srcs[i]].kind = "none"
    BY <1>1, <1>2, <2>1 DEF Moved, Exists
  <2>3. fs'[DestPath(srcs[i])] = fs[DestPath(srcs[i])] /\ DestPath(srcs[i])' = DestPath(srcs[i])
    BY <1>0, <1>1, <2>1 DEF DestPath
  <2>. QED  BY <1>0, <2>1, <2>2, <2>3 DEF Moved, Exists, Holds
<1>4. CASE RemoveLeaf
  <2>1. phase' = phase /\ at' = at /\ Past' = Past /\ Src' = Src
    BY <1>0, <1>4 DEF RemoveLeaf, stepVars, Past, Src
  <2>. QED
    BY <1>0, <1>3, <2>1 DEF DoneInv, ResultInv, DeletedInv, MovedInv, CopiedInv
<1>5. CASE RemoveItem
  <2>1. phase' = "item" /\ at' = at + 1
    BY <1>5 DEF RemoveItem, NextSource
  <2>2. Past' = Past \cup {at}
    BY <1>0, <2>1, PastNext
  <2>3. ASSUME NEW i, i = at PROVE Moved(i)'
    <3>1. srcs[i] = Src /\ DestPath(srcs[i])' = tgt
      BY <1>0, <2>3 DEF Src, DestPath
    <3>2. tgt \in Paths \ {Src}
      BY <1>0, PathFacts DEF Src
    <3>. QED  BY <1>0, <1>1, <1>5, <3>1, <3>2 DEF Moved, Exists, Holds
  <2>. QED
    BY <1>0, <1>3, <2>1, <2>2, <2>3
    DEF DoneInv, ResultInv, DeletedInv, MovedInv, CopiedInv
<1>. QED  BY <1>4, <1>5

LEMMA RequestDone == ASSUME Request PROVE DoneInv'
<1>1. CASE RequestTransfer
  BY <1>1, ArriveDone DEF RequestTransfer
<1>2. CASE RequestDelete
  BY <1>2, ArriveDone DEF RequestDelete
<1>3. CASE RequestOther
  BY <1>3, ArriveDone DEF RequestOther
<1>. QED  BY <1>1, <1>2, <1>3 DEF Request

\* An extraction, a renaming, a new directory, an upload.
LEMMA OthersDone ==
    ASSUME IInv, DoneInv,
           \/ Unpack \/ UnpackMember \/ StopUnpacking \/ Unpacked
           \/ Rename \/ Mkdir \/ OpenUpload \/ Stored
    PROVE  DoneInv'
<1>1. kind \in {"extract", "rename", "mkdir", "upload"} /\ kind' = kind
  BY DEF Unpack, UnpackMember, StopUnpacking, Unpacked, Rename, Mkdir, OpenUpload, Stored,
         AtItem, IInv, PhaseInv, Refuse, Goto, End, reqVars
<1>2. phase # "idle" /\ result = "none"
  BY DEF Unpack, UnpackMember, StopUnpacking, Unpacked, Rename, Mkdir, OpenUpload, Stored,
         AtItem, DoneInv, ResultInv
<1>3. phase' = "idle" \/ result' = result
  BY DEF Unpack, UnpackMember, StopUnpacking, Unpacked, Rename, Mkdir, OpenUpload, Stored,
         Refuse, Goto, End
<1>. QED  BY <1>1, <1>2, <1>3, OtherDone

LEMMA NextDone == IInv /\ DoneInv /\ [Next]_vars => DoneInv'
<1>. SUFFICES ASSUME IInv, DoneInv, [Next]_vars PROVE DoneInv'
  OBVIOUS
<1>1. CASE Request
  BY <1>1, RequestDone
<1>2. CASE Cancel \/ UNCHANGED vars
  BY <1>2, SameDone DEF Cancel, vars
<1>3. CASE Copying
  <2>1. CASE StopInWalk \/ StopInFile
    BY <2>1, EndDone DEF StopInWalk, StopInFile
  <2>2. CASE OpenFile \/ FinishFile
    <3>1. CASE phase' = "idle"
      <4>1. End("error")
        BY <2>2, <3>1 DEF OpenFile, FinishFile, Goto, Refuse
      <4>. QED  BY <4>1, EndDone
    <3>2. CASE phase' # "idle"
      BY <2>2, <3>2, FileDone
    <3>. QED  BY <3>1, <3>2
  <2>. QED
    BY <1>3, <2>1, <2>2, PlanDone, CopyItemDone, ItemCopiedDone DEF Copying
<1>4. CASE MoveItem
  BY <1>4, MoveItemDone
<1>5. CASE DeleteItem \/ RemoveLeaf \/ RemoveItem
  <2>1. kind \in {"move", "delete"} /\ (DeleteItem => kind = "delete")
    BY <1>5 DEF DeleteItem, AtItem, RemoveLeaf, RemoveItem, IInv, PhaseInv
  <2>. QED  BY <1>5, <2>1, DeleteDone, MoveRemoved
<1>6. CASE StopAtItem
  BY <1>6, EndDone DEF StopAtItem
<1>7. CASE AllDone
  BY <1>7, AllDoneDone
<1>8. CASE \/ Unpack \/ UnpackMember \/ StopUnpacking \/ Unpacked
           \/ Rename \/ Mkdir \/ OpenUpload \/ Stored
  BY <1>8, OthersDone
<1>9. CASE Break("error") \/ Break("crashed")
  BY <1>9, EndDone DEF Break
<1>. QED
  BY <1>1, <1>2, <1>3, <1>4, <1>5, <1>6, <1>7, <1>8, <1>9 DEF Next, Work

LEMMA DoneInvDone == IInv /\ DoneInv => DoneMeansDone
<1>. SUFFICES ASSUME IInv, DoneInv, result = "ok" PROVE DoneMeansDone
  BY DEF DoneMeansDone
<1>1. kind \in {"copy", "move", "delete"} => Past = Index
  BY DEF DoneInv, ResultInv, Past, Index, IInv, TypeOK
<1>2. kind = "delete" => \A i \in Index : ~Exists(srcs[i])
  BY <1>1 DEF DoneInv, DeletedInv
<1>3. kind = "move" => \A i \in Index :
          ~Exists(srcs[i]) /\ Holds(fs[DestPath(srcs[i])], before[srcs[i]])
  BY <1>1 DEF DoneInv, MovedInv, Moved
<1>4. ASSUME kind = "copy", Apart, NEW i \in Index
      PROVE  /\ fs[srcs[i]] = before[srcs[i]]
             /\ \E t \in {DestPath(srcs[i]), CopyPath(srcs[i])} :
                   \A l \in FilesOf(before[srcs[i]]) :
                      fs[t].files[l] \in {before[srcs[i]].files[l]} \cup Links
  BY <1>1, <1>4, CopySources DEF DoneInv, CopiedInv, Copied, HasFiles
<1>. QED  BY <1>2, <1>3, <1>4 DEF DoneMeansDone, Index

-----------------------------------------------------------------------------
(* The theorems *)

\* The inductive invariant holds always: in every phase of a copy, a move or a
\* removal it says what is already safe at the destination.
THEOREM Invariance == SafetySpec => []IInv
BY InitInv, NextInv, PTL DEF SafetySpec

\* The variables stay in their ranges and the entries of the disk well formed.
THEOREM TypeCorrect == SafetySpec => []TypeOK
<1>1. IInv => TypeOK
  BY DEF IInv
<1> QED
  BY <1>1, Invariance, PTL

\* An item being moved is whole at its source or whole at its destination,
\* wherever the move is cancelled, fails or is cut off.
THEOREM MovesLoseNothing == SafetySpec => []ItemStaysWhole
<1>1. IInv => ItemStaysWhole
  BY DEF IInv
<1> QED
  BY <1>1, Invariance, PTL

\* Copies, moves and the other requests change only what they may: elsewhere,
\* only the files that links below or at a suffixed name lead a copy to.
THEOREM NothingElseChanges == SafetySpec => []TheRestIsUntouched
<1>1. IInv => TheRestIsUntouched
  BY DEF IInv
<1> QED
  BY <1>1, Invariance, PTL

\* No half-written file outlives the copy that writes it, failures apart.
THEOREM PartialsAreRemoved == SafetySpec => []NoStrayPartial
<1>1. IInv => NoStrayPartial
  BY DEF IInv
<1> QED
  BY <1>1, Invariance, PTL

\* What copy_items, move_items or delete_items answers as done is done for every
\* item, in a request of any length: no later item of it undoes an earlier one.
THEOREM AnswersAreTrue == SafetySpec => []DoneMeansDone
<1>1. IInv /\ DoneInv /\ [Next]_vars => (IInv /\ DoneInv)'
  BY NextInv, NextDone
<1> QED
  BY InitInv, InitDone, <1>1, DoneInvDone, PTL DEF SafetySpec
=============================================================================
