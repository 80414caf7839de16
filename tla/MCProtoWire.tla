---------------------------- MODULE MCProtoWire ----------------------------
(* Instances of ProtoWire for TLC.  With 32 values to a byte and words of   *)
(* 11 bits a varint has up to three bytes, the last of which adds one bit,  *)
(* as the tenth byte of a varint does in the generated code.                *)
EXTENDS WireGrammar

(* Tags 10 and 18 are the known fields, 24 to 30 field 3 with each wire     *)
(* type, 2 a field 0; 63 and 33 go on, 31 and 1 end a varint or a length.   *)
MCBytes == {0, 1, 2, 10, 18, 24, 27, 28, 31, 33, 63}
MCFewBytes == {0, 1, 10, 18, 27, 28, 63}

MCLong == {
    <<29, 0, 0, 0, 0>>, <<29, 0, 0, 0>>, <<25, 0, 0, 0, 0, 0, 0, 0, 0>>, <<25, 0, 0>>,
    <<27, 29, 0, 0, 0, 0, 28>>, <<27, 27, 24, 1, 28, 28>>, <<27, 26, 2, 10, 28, 28>>,
    <<26, 63, 63, 0>>, <<24, 0, 26, 63, 63, 0>>, <<24, 0, 24, 0, 26, 59, 63, 0>>,
    <<27, 26, 63, 63, 0, 28>>, <<18, 6, 24, 0, 26, 60, 63, 0>>, <<18, 5, 27, 24, 1, 28, 30>>,
    <<10, 1, 1, 10, 1, 2, 18, 0>>, <<42, 8, 1, 0>>, <<10, 1, 7, 18, 2, 24, 1, 10, 0>>,
    <<63, 63, 63, 63, 0>>, <<24, 63, 63, 63, 0>>, <<18, 2, 10, 0, 30>>, <<10, 2, 24, 1, 24, 1>>,
    <<26, 63, 63, 1>>}

MCAuthorities == {<<>>, <<7>>, <<10, 1>>, [k \in 1 .. 31 |-> 5], [k \in 1 .. 32 |-> 63]}

MCInputs ==
    UNION {[1 .. n -> MCBytes] : n \in 0 .. 3} \cup [1 .. 4 -> MCFewBytes] \cup MCLong

MCSpares == {0, 3}
=============================================================================
