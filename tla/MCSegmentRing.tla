--------------------------- MODULE MCSegmentRing ----------------------------
(* A small instance of SegmentRing for TLC. *)
EXTENDS SegmentRing

CONSTANTS w1, w2, r

\* Images whose words all agree, so that a mixture of two is none of them.
MCMessages == {[d \in Words |-> v] : v \in Values}

\* Deeper than the ring, so that every slot still counts: the reader skips what
\* the ring no longer holds, and is overtaken in the slots it still wants.
MCDepth == [x \in Readers |-> SlotCount + 1]
=============================================================================
