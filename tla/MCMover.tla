----------------------------- MODULE MCMover ------------------------------
(***************************************************************************)
(* Small file trees for Mover: two drives, a tree of two files, a tree to  *)
(* delete, and the destinations the requests may create.                   *)
(***************************************************************************)
EXTENDS Mover, TLC

CONSTANTS sda, sdb,      \* the drives, by way of ~/webdav
          lda,           \* sda by way of ~/webdav-local: another device
          a, b, e, f, g, \* directories
          x, y,          \* files
          y2             \* the first name free_dst tries

MCNumbered(p, i) == IF i = 2 THEN Append(Parent(p), y2) ELSE p

\* path_drive does not say which mount it found the drive below.
MCDrive(h) == IF h = lda THEN sda ELSE h

Tree(d) == {d, d \o <<x>>, d \o <<y>>}

\* sda/a holds x and y; sdb/g holds x.
MCPaths ==
  {<<sda>>, <<sdb>>, <<lda>>} \cup Tree(<<sda, a>>) \cup Tree(<<lda, a>>)
    \cup {<<sda, e>>, <<sda, f>>} \cup Tree(<<sda, e, a>>) \cup Tree(<<sda, f, a>>)
    \cup Tree(<<sdb, a>>) \cup Tree(<<sdb, g>>)
MCInitDirs == {<<sda>>, <<sdb>>, <<lda>>, <<sda, e>>, <<sda, f>>, <<sda, a>>, <<sdb, g>>}
MCInitFiles == {<<sda, a, x>>, <<sda, a, y>>, <<sdb, g, x>>}
MCArrivals == {}
MCDirArrivals == {}

Move(s, d, how) == [op |-> "move", src |-> s, dst |-> d, strategy |-> how]
Copy(s, d, how) == [op |-> "copy", src |-> s, dst |-> d, strategy |-> how]
Delete(s) == [op |-> "delete", src |-> s, dst |-> s, strategy |-> ""]

\* A tree moved to the other drive, afresh or merged into what an earlier
\* attempt left there.
CrossMoves == {Move(<<sda, a>>, <<sdb>>, ""), Move(<<sda, a>>, <<sdb>>, "merge")}

\* The same tree moved within its drive and to what passes for its drive, a
\* copy of it beside the moves, and a tree deleted.
OtherJobs ==
  {Move(<<sda, a>>, <<sda, e>>, ""), Move(<<sda, a>>, <<lda>>, ""),
   Copy(<<sda, a>>, <<sda, f>>, ""), Delete(<<sdb, g>>)}

AllJobs == CrossMoves \cup OtherJobs

WorkersSymmetric == Permutations(Workers)

\* Jobs that get into each other's way: the tree is deleted while it is
\* moved, a file bears the name of the directory to be made or is stored
\* under it too late for the check, a directory takes the place of a file that
\* was deleted after the walk, and a file is copied next to one of the
\* name asked for.
ObstaclePaths ==
  {<<sda>>, <<sdb>>, <<sdb, y2>>, <<sda, e>>} \cup Tree(<<sda, a>>) \cup Tree(<<sda, e, a>>)
    \cup Tree(<<sdb, a>>) \cup {<<sdb, a, y2>>}
ObstacleInitDirs == {<<sda>>, <<sdb>>, <<sda, a>>, <<sda, e>>}
ObstacleInitFiles == {<<sda, a, x>>, <<sda, a, y>>, <<sdb, a>>}
ObstacleArrivals == {<<sda, e, a>>}
ObstacleDirArrivals == {<<sda, a, x>>}
ObstacleRequests ==
  {Move(<<sda, a>>, <<sda, e>>, ""), Move(<<sda, a>>, <<sdb>>, "merge"),
   Delete(<<sda, a>>), Delete(<<sda, a, x>>), Move(<<sda, a, x>>, <<sda, a>>, ""),
   Copy(<<sda, a, x>>, <<sdb, a>>, "rename")}

\* A folder moved into one of its own subfolders.
NestedPaths ==
  {<<sda>>, <<sda, a>>, <<sda, a, x>>, <<sda, a, b>>, <<sda, a, b, a>>,
   <<sda, a, b, a, x>>, <<sda, a, b, a, b>>}
NestedInitDirs == {<<sda>>, <<sda, a>>, <<sda, a, b>>}
NestedInitFiles == {<<sda, a, x>>}
NestedArrivals == {}
NestedRequests == {Move(<<sda, a>>, <<sda, a, b>>, "")}
===========================================================================
