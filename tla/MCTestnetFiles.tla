--------------------------- MODULE MCTestnetFiles ---------------------------
(***************************************************************************)
(* Two runs over one output directory, of up to three validators.          *)
(* Stakes: all defaults, an entry that does not parse, one too large.      *)
(***************************************************************************)
EXTENDS TestnetFiles

MCStakeLists == { <<>>, <<NotANumber, 3>>, <<2, 6>> }

=============================================================================
