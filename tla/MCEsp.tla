------------------------------- MODULE MCEsp -------------------------------
(* Two reads, one past the end of the disk, a write of two blocks and data *)
(* that is not on the disk, with counts that end in the middle of a burst, *)
(* of a block and behind the data.  The image may be written, is read-only *)
(* or has an overlay.                                                      *)
EXTENDS Esp

TestCdbs == {[op |-> "read", lba |-> 0, count |-> 2], [op |-> "read", lba |-> 1, count |-> 2],
             [op |-> "write", lba |-> 0, count |-> 2], [op |-> "inquiry", lba |-> 0, count |-> 3]}

TestProtections == [readonly : BOOLEAN, overlay : BOOLEAN] \ {[readonly |-> TRUE, overlay |-> TRUE]}
=============================================================================
