------------------------------ MODULE Registry ------------------------------
(***************************************************************************)
(* What x/identity promises to the rest of the chain: a write-once map.  A *)
(* step of the abstract registry fills in addresses that had no record (a  *)
(* block may register several); nothing is ever replaced or removed.       *)
(***************************************************************************)
CONSTANTS Address, Record, None

VARIABLE reg

Init == reg = [a \in Address |-> None]

Register ==
  /\ reg' \in [Address -> Record \cup {None}]
  /\ \A a \in Address : reg[a] # None => reg'[a] = reg[a]

Next == Register

Spec == Init /\ [][Next]_reg

=============================================================================
