--------------------------- MODULE MCTCPTransport ---------------------------
(* Instances of TCPTransport for TLC. *)
EXTENDS TCPTransport

Msg(words, fill) == [words |-> words, fill |-> fill]

\* One segment (no padding), two segments (padded header), and a message whose
\* only segment is empty, which no reader accepts.
SafetyMessages == {Msg(<<1>>, 7), Msg(<<1, 0>>, 8), Msg(<<0>>, 9)}

\* Messages with a body, as the RPC layer sends them.
LiveMessages == {Msg(<<1>>, 7), Msg(<<0, 1>>, 8)}
=============================================================================
