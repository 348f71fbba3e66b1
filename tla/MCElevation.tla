--------------------------- MODULE MCElevation ----------------------------
(***************************************************************************)
(* Small file trees for Elevation: two drives with a directory of root's   *)
(* on each, a tree of the user's and a file of the user's on the drive     *)
(* that has no temp directory.                                             *)
(***************************************************************************)
EXTENDS Elevation

CONSTANTS sda, sdb,    \* the drives; temp files are made on sda
          a, u, v, w,  \* directories; v and w belong to root
          x, y, z,     \* files
          x2, x22      \* the names free_dst tries for x and then for x2

MCNames == {sda, sdb, a, u, v, w, x, y, z, x2, x22} \cup Calls
MCTmp(c) == <<sda, c>>
MCNumbered(path, i) == Append(Parent(path), IF Name(path) = x THEN x2 ELSE x22)

Tree(d) == {d, d \o <<x>>, d \o <<y>>, d \o <<z>>}

MCProtected == {<<sdb, v>>, <<sda, w>>}
MCInitDirs == {<<sda>>, <<sdb>>, <<sda, a>>, <<sdb, u>>} \cup MCProtected
MCInitFiles == {<<sda, a, x>>, <<sda, a, y>>, <<sda, w, x>>, <<sdb, u, x>>, <<sdb, v, x>>}
MCPaths ==
  MCInitDirs \cup MCInitFiles \cup {MCTmp(c) : c \in Calls}
    \cup Tree(<<sda, a>>) \cup {<<sda, w, z>>, <<sdb, v, z>>, <<sdb, v, x2>>, <<sdb, v, x22>>}
    \cup Tree(<<sda, w, a>>) \cup Tree(<<sda, w, a, a>>)
    \cup Tree(<<sdb, v, a>>) \cup Tree(<<sdb, v, a, a>>)

Req(op, s, d, how, pass) == [op |-> op, src |-> s, dst |-> d, strategy |-> how, pass |-> pass]
Put(d, pass) == Req("put", d, d, "", pass)
MakeDir(d, pass) == Req("mkdir", d, d, "", pass)
To(s, name, pass) == Req("rename", s, Append(Parent(s), name), "", pass)
Away(s, pass) == Req("delete", s, s, "", pass)
Move(s, d, how) == Req("move", s, d, how, "good")
Copy(s, d, how) == Req("copy", s, d, how, "good")

\* A new version of a file beside the temp directory, on the other drive, and
\* in root's directories with and without the password; a directory's name.
Puts ==
  {Put(<<sda, a, x>>, "none"), Put(<<sdb, u, x>>, "none"), Put(<<sdb, v, z>>, "good"),
   Put(<<sda, w, x>>, "good"), Put(<<sda, w, x>>, "bad"), Put(<<sda, w, x>>, "none"),
   Put(<<sda, a>>, "none"), Put(<<sdb, u>>, "none")}

Others ==
  {MakeDir(<<sdb, v, a>>, "good"), MakeDir(<<sda, a, x>>, "none"),
   To(<<sda, a, x>>, z, "none"), To(<<sda, w, x>>, z, "good"),
   Away(<<sda, w, x>>, "good")}

\* The user's tree into root's directories, by rename, by copy and merged
\* into what another request has put there; a file whose name is taken.
Moves ==
  {Move(<<sda, a>>, <<sda, w>>, ""), Move(<<sda, a>>, <<sdb, v>>, ""),
   Copy(<<sda, a>>, <<sdb, v>>, ""),
   Copy(<<sda, a, x>>, <<sdb, v>>, "rename"), Copy(<<sda, a, x>>, <<sdb, v, z>>, ""),
   Copy(<<sda, a, x>>, <<sda, a>>, "")}

MCRequests == Puts \cup Others \cup Moves
===========================================================================
