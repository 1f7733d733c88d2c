----------------------------- MODULE MCReplicas -----------------------------
(***************************************************************************)
(* Three validators, two blocks.  alice relays the packet with which an    *)
(* interchain account registers itself; her transfer to it is possible     *)
(* only afterwards.                                                        *)
(***************************************************************************)
EXTENDS Replicas

CONSTANTS alice, ica, card, empty, p1, n1, n2, n3

MCAddress == {alice, ica}
MCCccd == {card, empty}
MCTime == {1, 2}
MCPacket == {p1}
MCPacketFrom == [p \in MCPacket |-> ica]
MCPacketMsg == [p \in MCPacket |-> [kind |-> "create", creator |-> ica, cccd |-> card]]
MCReplica == {n1, n2, n3}

(* n1 and n2 can decide a block that n3 has not accepted.                  *)
MCPower == [r \in MCReplica |-> IF r = n3 THEN 1 ELSE 3]

Signed(msgs, n) ==
  [msgs |-> msgs, fee |-> 0, payer |-> NoAddress, granter |-> NoAddress,
   nonce |-> [a \in MCAddress |-> IF a = alice THEN n ELSE 0]]

RecvTx(n) == Signed(<<[kind |-> "recv", signer |-> alice, packet |-> p1]>>, n)
SendTx(n) == Signed(<<[kind |-> "send", from |-> alice, to |-> ica]>>, n)
SelfTx(n) == Signed(<<[kind |-> "send", from |-> alice, to |-> alice],
                      [kind |-> "send", from |-> alice, to |-> alice]>>, n)

MCPayloads == { <<RecvTx(0)>>, <<SelfTx(0), SendTx(1)>> }

MCGenesisApp ==
  [NoState EXCEPT
     !.accts = {alice, ica}, !.bal = [a \in MCAddress |-> IF a = alice THEN 2 ELSE 0],
     !.ids = [a \in MCAddress |->
                IF a = alice
                THEN [address |-> alice, idHash |-> Sha256Hex(card), createdAt |-> 1]
                ELSE NoIdentity]]

=============================================================================
