---------------------------- MODULE MCFlowPages -----------------------------
(***************************************************************************)
(* Small tables for FlowPages: up to three rows and a fourth to be written *)
(* meanwhile, pages of one or two rows, so that there are several pages    *)
(* and a page takes several batches when some of the rows are deleted.     *)
(***************************************************************************)
EXTENDS FlowPages

MCItem == 1..4

\* Zero to three rows, and four.
MCStored == {[i \in 1..n |-> n + 1 - i] : n \in 0..3}
FourRows == {<<4, 3, 2, 1>>}

PageCall(n, p) == [batches |-> FALSE, limit |-> n, page |-> p]
BatchCall(p) == [batches |-> TRUE, limit |-> 1, page |-> p]

\* Exports from the first and the second page, and single pages.
AllCalls ==
  {BatchCall(0), BatchCall(1)}
    \cup {PageCall(n, p) : n \in 1..2, p \in {NoPage, 0, 1, 2}}
ExportWithoutPage == {BatchCall(NoPage)}
=============================================================================
