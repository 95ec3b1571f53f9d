--------------------------- MODULE MessageChannel ---------------------------
(***************************************************************************)
(* What one direction of a transport promises to the RPC layer above it    *)
(* (the `Transport' interface that src/ts/src/tcp-transport.ts implements  *)
(* and that src/go/main.go wraps in debuggingTransport): messages come out *)
(* whole, in the order they went in, none twice and none invented.  Some   *)
(* of the last ones may never come out: the connection can break.          *)
(***************************************************************************)
EXTENDS Naturals, Sequences

CONSTANT Payload        \* the messages that can be sent

VARIABLES sent,         \* every message handed to sendMessage, in order
          received      \* every message recvMessage has returned, in order

chanVars == <<sent, received>>

ChannelInit ==
    /\ sent = <<>>
    /\ received = <<>>

Send ==
    /\ \E p \in Payload : sent' = Append(sent, p)
    /\ UNCHANGED received

Receive ==
    /\ Len(received) < Len(sent)
    /\ received' = Append(received, sent[Len(received) + 1])
    /\ UNCHANGED sent

ChannelNext == Send \/ Receive

ChannelSpec == ChannelInit /\ [][ChannelNext]_chanVars
=============================================================================
