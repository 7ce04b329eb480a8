---------------------------- MODULE MCFileStore ----------------------------
(* Instances of FileStore for TLC. *)
EXTENDS FileStore

\* Two disks: the directories a and b are on one, c on the other.
MCDeviceOf == [d \in {"a", "b", "c"} |-> IF d = "c" THEN 2 ELSE 1]

\* x, x_copy and x_copy_copy
MCNames  == 0..2
MCCopyOf == [n \in 0..1 |-> n + 1]

NoFiles  == [l \in {"f", "g", "self"} |-> "absent"]
File(c)  == [kind |-> "file", files |-> [NoFiles EXCEPT !["self"] = c]]
Dir(f, g) == [kind |-> "dir", files |-> [NoFiles EXCEPT !["f"] = f, !["g"] = g]]
None     == [kind |-> "none", files |-> NoFiles]

\* Links to a file elsewhere, to another file of the same directory, to a
\* directory and to nothing.
MCLeadsTo == [k \in {"link", "near", "top", "lost"} |->
                CASE k = "link" -> <<<<"b", 0>>, "self">>
                  [] k = "near" -> <<<<"c", 1>>, "f">>
                  [] k = "top"  -> <<<<"a", 0>>, "self">>
                  [] k = "lost" -> <<<<"b", 1>>, "self">>]

Tree(ax, axc, bx, cx, cxc, cxcc) ==
    [p \in {"a", "b", "c"} \X MCNames |->
        CASE p = <<"a", 0>> -> ax
          [] p = <<"a", 1>> -> axc
          [] p = <<"b", 0>> -> bx
          [] p = <<"c", 0>> -> cx
          [] p = <<"c", 1>> -> cxc
          [] p = <<"c", 2>> -> cxcc
          [] OTHER -> None]

\* A directory and a file of one name in two places, the destination free or
\* taken, by a file or by a directory with a link, and its suffixed name too.
MCTrees == {Tree(ax, axc, File("v"), cx, cxc, None) :
              ax  \in {Dir("w", "u"), Dir("w", "link"), File("w")},
              axc \in {None, File("y")},
              cx  \in {None, File("z")},
              cxc \in {None, Dir("broken", "link"), Dir("broken", "near"), File("s")}}
           \cup {Tree(ax, axc, File("v"), None, Dir("s", "lost"), File(k)) :
              ax  \in {Dir("w", "u"), File("w")},
              axc \in {None, File("y")},
              k   \in {"link", "top"}}
=============================================================================
