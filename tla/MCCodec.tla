------------------------------- MODULE MCCodec -------------------------------
(* Two-group words: 15 bits are two groups of seven and one bit more, as 64 *)
(* are nine groups and one bit; lengths and indexes overflow at 2^14.       *)
EXTENDS Codec

A == 65
MCTexts == {<<>>, <<A>>, [k \in 1..128 |-> A]}
MCNumbers == {0, 1, 127, 128, -1, -(Pow2[WordBits - 1])}
MCUnknowns == {<<>>, <<122, 1, A>>}

MCForeignTypes == {"MsgCreateIdentity", "MsgUpdateParams", "Identity"}
MCPieces ==
    {<<b>> : b \in {0, 1, 10, 18, 24, 127, 128, 255}}
    \cup { <<10, 1, A>>, <<18, 0>>, <<18, 2, 24, 0>>, <<24, 255, 255, 3>>,
           <<138, 4, 1, A>>,        \* field 65, which is 1 in six bits
           <<130, 2, 0>>,           \* field 32, negative in six bits
           <<18, 255, 127>>,        \* a length that takes the index beyond an int
           <<18, 255, 255, 1>>,     \* a negative length
           <<122, 255, 127>>,       \* the same in a field that is skipped
           <<123>>, <<124>>,        \* start and end of an unknown group
           <<125, 7>>, <<121, 7, 7>>, <<126>> }
=============================================================================
