------------------------------- MODULE MCNode -------------------------------
(***************************************************************************)
(* Small instances of Node: two registered users (alice can pay for a      *)
(* multi-send, bob for one fee), one unregistered, who allows alice to     *)
(* have fees charged to her, one interchain account, which allows bob the  *)
(* same, and an address without an account.                                *)
(***************************************************************************)
EXTENDS Node

CONSTANTS alice, bob, carol, ica, nobody, card, empty, p1, p2, p3, p4

MCAddress == {alice, bob, carol, ica, nobody}
MCCccd == {card, empty}
MCTime == {1, 2}
MCPacket == {p1, p2, p3, p4}

Create(a) == [kind |-> "create", creator |-> a, cccd |-> card]
Send(a, b) == [kind |-> "send", from |-> a, to |-> b]
Multi(a, bs) == [kind |-> "multi", from |-> a, tos |-> bs]
Vest(a, b) == [kind |-> "vest", from |-> a, to |-> b]
Other(a) == [kind |-> "other", actor |-> a]
Grant(a, b) == [kind |-> "grant", granter |-> a, grantee |-> b]
Revoke(a, b) == [kind |-> "revoke", granter |-> a, grantee |-> b]
Recv(a, p) == [kind |-> "recv", signer |-> a, packet |-> p]

MCPacketFrom == [p \in MCPacket |-> ica]
MCPacketMsg ==
  [p \in MCPacket |-> CASE p = p1 -> Create(ica)       [] p = p2 -> Send(ica, carol)
                       [] p = p3 -> Revoke(ica, bob)  [] p = p4 -> Grant(ica, nobody)]

(* A transaction to be signed: the first signer pays, another payer does,  *)
(* or a granter does.                                                      *)
Body(msgs, fee) ==
  [msgs |-> msgs, fee |-> fee, payer |-> NoAddress, granter |-> NoAddress]
PaidBy(a, msgs, fee) == [Body(msgs, fee) EXCEPT !.payer = a]
GrantedBy(a, msgs, fee) == [Body(msgs, fee) EXCEPT !.granter = a]

(* Block execution: every kind of message, alone and with a second one     *)
(* that fails, succeeds, or is signed by somebody else.                    *)
DeliverBodies ==
  { Body(msgs, 1) : msgs \in
      { <<Create(carol)>>, <<Create(alice)>>,
        <<[kind |-> "create", creator |-> alice, cccd |-> empty]>>,
        <<[kind |-> "params", authority |-> alice]>>, <<Other(alice)>>,
        <<Grant(alice, carol)>>,
        <<Send(alice, bob), Create(alice)>>, <<Send(alice, bob), Send(bob, alice)>>,
        <<Send(alice, bob), Send(carol, bob)>>, <<Send(alice, carol)>>, <<Send(carol, alice)>>,
        <<Multi(alice, {alice, bob})>>, <<Multi(alice, {bob, carol})>>,
        <<Vest(alice, nobody)>>,
        <<Recv(bob, p1)>>, <<Recv(bob, p1), Recv(bob, p2)>>, <<Recv(carol, p2)>>,
        <<Recv(alice, p2)>>, <<Send(alice, ica)>> } } \cup
  { PaidBy(carol, <<Send(alice, bob)>>, 1), PaidBy(nobody, <<Send(alice, bob)>>, 1),
    GrantedBy(carol, <<Send(alice, bob)>>, 1), GrantedBy(carol, <<Send(bob, alice)>>, 1),
    GrantedBy(ica, <<Recv(bob, p3), Recv(bob, p4)>>, 1) }

ExemptBodies == {Body(<<Create(carol)>>, 1), Body(<<Send(alice, bob)>>, 1)}

(* The mempool: users whose transactions compete.                          *)
PoolBodies ==
  { Body(msgs, 0) : msgs \in
      { <<Send(alice, bob)>>, <<Send(alice, carol)>>, <<Recv(alice, p1)>>,
        <<Send(alice, ica)>> } } \cup
  { PaidBy(alice, <<Send(bob, alice)>>, 0) }

(* Genesis documents: with one list of identities or another, and with     *)
(* genesis transactions on a chain that starts at height 1 or later.       *)
Id(a, t) == [address |-> a, idHash |-> Sha256Hex(card), createdAt |-> t]

App == [NoState EXCEPT !.accts = {alice, bob, carol, ica},
                       !.bal = [a \in MCAddress |->
                                  CASE a = nobody -> 0
                                    [] a = alice  -> 3
                                    [] a = bob    -> 1
                                    [] OTHER      -> 2],
                       !.grants = {<<carol, alice>>, <<ica, bob>>}]

Doc(ids, gentxs, h) ==
  [app |-> App, identities |-> ids, gentxs |-> gentxs, initialHeight |-> h]

GenTx(m, n) ==
  Signed(Body(<<m>>, 0), [x \in MCAddress |-> IF x = SignerOf(m) THEN n ELSE 0])

PlainGenesis == {Doc(<<Id(alice, 1), Id(bob, 1)>>, <<>>, 1)}

(* The second document names alice twice, the third has a genesis          *)
(* transaction of an unregistered validator and one that registers alice   *)
(* and bob before x/identity's own list does, the fourth a bad one, and    *)
(* the fifth the same good one on a chain that starts at height 2.         *)
AllGenesis ==
  PlainGenesis \cup
  { Doc(<<Id(alice, 1), Id(alice, 2)>>, <<>>, 1),
    Doc(<<Id(alice, 1)>>,
        <<GenTx(Other(carol), 0), GenTx(Create(bob), 0), GenTx(Create(alice), 0)>>, 1),
    Doc(<<Id(alice, 1)>>, <<GenTx(Other(carol), 0), GenTx(Other(bob), 1)>>, 1),
    Doc(<<Id(alice, 1)>>, <<GenTx(Other(carol), 0)>>, 2) }

=============================================================================
