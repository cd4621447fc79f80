------------------------------- MODULE MCPaging -------------------------------
(* Values for the constants of Paging: lists of none to five items.           *)
EXTENDS Paging

MCItems == 1 .. 7
UpTo(n) == [i \in 1 .. n |-> i]
MCContents == {UpTo(n) : n \in 0 .. 5}
=============================================================================
