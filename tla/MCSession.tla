----------------------------- MODULE MCSession -----------------------------
(* An instance of Session for TLC. *)
EXTENDS Session

A == <<Letter>>
AA == <<Letter, Letter>>
X == 120

Send(name, text) == [kind |-> "send", service |-> name, bytes |-> text]
Raw(bytes) == [kind |-> "raw", service |-> <<>>, bytes |-> bytes]

MCGranted == {A}
MCJobs ==
    {Send(A, t) : t \in {<<X, X>>, <<X, Newline>>, <<X, X, X>>}}
        \cup {Send(AA, <<X>>), Send(<<Hyphen>>, <<X>>)}
        \* Hellos with messages right behind them, one of them too long.
        \cup {Raw(HelloRequest(A) \o <<X, Newline, Newline>>), Raw(HelloRequest(A) \o <<X, X, X>>)}
        \* Frames that are not well formed, or not whole.
        \cup {Raw(<<2, 1, Letter>>), Raw(<<Version, 0>>), Raw(<<Version, MaxNameLen + 1, Letter>>),
              Raw(<<Version, 2, Letter>>), Raw(<<Version, 1, Hyphen>>), Raw(<<Version>>)}
MCSinkConns == {Proxied, Direct}
=============================================================================
