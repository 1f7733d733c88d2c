--------------------------- MODULE MCInPlaceTestnet ---------------------------
(* Two operators, with or without a validator on the old chain.  The first  *)
(* may run the node the command is given to.                                *)
EXTENDS InPlaceTestnet

MCOperator == {"o1", "o2"}
MCCons     == {"k1", "k2", "user"}
MCKeys     == [o1 |-> {"k1", "user"}, o2 |-> {"k2"}]
=============================================================================
