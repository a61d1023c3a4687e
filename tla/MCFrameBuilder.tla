---------------------------- MODULE MCFrameBuilder ----------------------------
(* Values of the constants of FrameBuilder for TLC: three chips with frame *)
(* numbers that run over; one misses a frame, one cannot read a number, or *)
(* none of them can at first.                                              *)
EXTENDS FrameBuilder
MCStreams == {
    [i \in Chips |-> CASE i = 0 -> <<6, 7, 0>> [] i = 1 -> <<6, -1, 0>> [] OTHER -> <<7, 0>>],
    [i \in Chips |-> IF i = 0 THEN <<-1, 1>> ELSE IF i = 1 THEN <<-1, 0, 1>> ELSE <<-1, 1>>]}
=============================================================================
