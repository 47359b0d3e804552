---------------------------- MODULE EventChannel ----------------------------
(***************************************************************************)
(* The unbounded channel from the harvester to the aggregator (created in  *)
(* mono.rs, create_aggregator) and its messages (types.rs).  The amount of *)
(* an event is signed; Action::Send and Action::Receive are its sign.      *)
(***************************************************************************)
EXTENDS Bitcoin, Integers, Sequences

CONSTANT
    Buffered        \* FALSE: the other end has taken every message at once

ASSUME ChannelAssumption == Buffered \in BOOLEAN

VARIABLES
    channel,        \* messages sent and not yet received
    receiving       \* the receiver has not been dropped

Event(n, t, a, v) ==
    [type |-> "event", block |-> n, tx |-> t, addr |-> a, amount |-> v,
     coinbase |-> t \in Coinbase]

Reorg(n) == [type |-> "reorg", block |-> n]

Events == [type : {"event"}, block : Nat, tx : Tx, addr : Address,
           amount : Int, coinbase : BOOLEAN]

Messages == Events \cup [type : {"reorg"}, block : Nat]

\* The messages the harvester sends: an event knows whether its transaction is a
\* coinbase, and a coinbase credits.
SentMessages ==
    {m \in Messages : m.type = "event" => /\ m.coinbase <=> m.tx \in Coinbase
                                          /\ m.coinbase => m.amount >= 0}

ChannelTypeOK ==
    /\ channel \in Seq(Messages)
    /\ receiving \in BOOLEAN

\* UnboundedSender::send; it fails, and the caller's unwrap() panics, once the
\* receiver is gone.
Send(ms) ==
    /\ receiving
    /\ channel' = IF Buffered THEN channel \o ms ELSE channel
    /\ UNCHANGED receiving
=============================================================================
