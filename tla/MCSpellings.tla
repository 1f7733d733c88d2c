----------------------------- MODULE MCSpellings -----------------------------
(* Two accounts with two strings each.                                      *)
EXTENDS Spellings

MCAddress == {"cosmos1a", "COSMOS1A", "cosmos1b", "COSMOS1B"}
MCAccount == {"a", "b"}
MCSmall   == [a |-> "cosmos1a", b |-> "cosmos1b"]
MCCapital == [a |-> "COSMOS1A", b |-> "COSMOS1B"]
=============================================================================
