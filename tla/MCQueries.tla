------------------------------ MODULE MCQueries ------------------------------
(***************************************************************************)
(* One client, addresses registered in any order with one of two cards.    *)
(***************************************************************************)
EXTENDS Queries

CONSTANTS red, blue, empty

MCAddress == 1 .. 4
MCCccd == {red, blue, empty}
MCTime == {1}

=============================================================================
