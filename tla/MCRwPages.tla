------------------------------ MODULE MCRwPages ------------------------------
(* Instances of RwPages for TLC: pages of two words.                       *)
EXTENDS RwPages, TLC

MCSymmetry == Permutations(Objs) \cup Permutations(Threads)

\* Text is page 0; the read-only data starts at page 1 and goes on behind it.
MCRangeEnd == [p \in 0..1 |-> 2 * p + 1]

\* Two pages over a range end, and one word at the start of the last page.
MCAligned == {[page |-> 0, off |-> 0, size |-> 4], [page |-> 1, off |-> 0, size |-> 1]}

\* The same and one word more than fits behind its offset.
MCRequests == MCAligned \cup {[page |-> 0, off |-> 1, size |-> 2]}

=============================================================================
