------------------------------ MODULE MCSearch ------------------------------
(***************************************************************************)
(* A small instance of Search: two of three queries over a tree with a     *)
(* directory and one that cannot be read.                                  *)
(***************************************************************************)
EXTENDS Search

CONSTANTS d, e, x

MCNames == {d, e, x}
MCEntries == {<<d>>, <<d, x>>, <<e>>, <<e, x>>}
MCDirs == {<< >>, <<d>>, <<e>>}
MCUnreadable == {<<e>>}

\* Of what can be reached, everything but <<e, x>>, the first query matches more
\* than MaxResults = 2 entries, the second as many, the third one: fewer.
MCMatching == <<MCEntries, {<<d>>, <<e>>}, {<<d, x>>, <<e, x>>}>>
============================================================================
