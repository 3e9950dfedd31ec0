----------------------------- MODULE GossipCodec -----------------------------
(***************************************************************************)
(* The gossip wire format (src/vm/gossip.go BTCGossipMarshaller,           *)
(* src/vm/gossip_wrapper.go BTCGossip): a one-byte item type followed by   *)
(* btcd's wire encoding of the transaction or block.                       *)
(*                                                                         *)
(* An item is a record [kind, id]. A message is a sequence whose first     *)
(* element is a byte (0..255) and whose rest is the payload; btcd's wire   *)
(* encoding of an item is abstracted to one payload element [wire, id],    *)
(* where wire is the kind of wire message it is. BtcDecode reads one       *)
(* message of its own kind from the front of the payload and fails on a   *)
(* missing or differently shaped one; like the bytes.Reader it reads from, *)
(* it leaves whatever follows unread.                                      *)
(***************************************************************************)
EXTENDS Integers, Sequences

GossipItemTypeTx    == 1
GossipItemTypeBlock == 2

\* The item type of each kind, and the kind of each item type.
TypeOf == [tx |-> GossipItemTypeTx, block |-> GossipItemTypeBlock]
KindOf(t) == IF t = GossipItemTypeTx THEN "tx" ELSE "block"

\* msgTx.BtcEncode / msgBlock.BtcEncode.
BtcEncode(item) == <<[wire |-> item.kind, id |-> item.id]>>

\* BtcDecode of a payload as a message of the given kind.
BtcDecodes(payload, kind) == Len(payload) >= 1 /\ payload[1].wire = kind

Failed == [ok |-> FALSE]
Decoded(item) == [ok |-> TRUE, item |-> item]

\* MarshalGossip of a well-formed item (Tx or Block set as ItemType says;
\* the nil and unknown-type errors are for items no code here constructs).
MarshalGossip(item) ==
    <<TypeOf[item.kind]>> \o BtcEncode(item)

\* UnmarshalGossip: empty data, an unknown type byte or a payload that does
\* not decode as that type's message is an error.
UnmarshalGossip(data) ==
    IF data = <<>> \/ data[1] \notin {GossipItemTypeTx, GossipItemTypeBlock}
    THEN Failed
    ELSE LET kind == KindOf(data[1])
             payload == Tail(data)
         IN IF BtcDecodes(payload, kind)
            THEN Decoded([kind |-> kind, id |-> payload[1].id])
            ELSE Failed

\* The messages a peer may send for the given items: each item as a peer's
\* MarshalGossip writes it, the same payload under the other type byte, each
\* with and without trailing data; a type byte alone, an unknown type byte,
\* and empty data.
WireMessages(items) ==
    LET Junk     == [wire |-> "junk", id |-> 0]
        Swapped(i) == <<TypeOf[IF i.kind = "tx" THEN "block" ELSE "tx"]>> \o BtcEncode(i)
        Encoded  == {MarshalGossip(i) : i \in items} \cup {Swapped(i) : i \in items}
    IN  {<<>>, <<0>>, <<3>>, <<255>>, <<GossipItemTypeTx>>, <<GossipItemTypeBlock>>}
        \cup UNION {{m, m \o <<Junk>>} : m \in Encoded}

=============================================================================
