------------------------------ MODULE Session ------------------------------
(***************************************************************************)
(* One session from end to end: a peer's program, the server's handler     *)
(* (handleConn and pipeConns in server.go, the frames of Wire), and the    *)
(* sink behind it (MsgSink), joined by byte streams that may be cut at any *)
(* byte, with or without notice.  The program is gocloak-send, or any other*)
(* that writes a sequence of bytes at once and may close its half.         *)
(*                                                                         *)
(* TunnelServer has many handlers and what a reload does to them; here a   *)
(* reload is a choice: no entry, a lost authorization, a reaped pipe.      *)
(***************************************************************************)
EXTENDS Wire, MsgSink

CONSTANTS Jobs,      \* [kind, service, bytes]: "send" a message, or "raw" bytes
          Granted,   \* service names the peer's entry grants
          MaxCuts    \* bound: connections lost

ASSUME JobsAssumption ==
    Jobs \subseteq [kind : {"send", "raw"}, service : Seq(Nat), bytes : Seq(Nat)]
ASSUME MaxCutsAssumption == MaxCuts \in 0..2

VARIABLES
    job,       \* what the peer's program was started to do
    client,    \* where it is
    exit,      \* its exit code, or Running
    srv,       \* where handleConn is
    service,   \* the service name it has read
    sent,      \* history: the status it has written, or Running
    expired,   \* history: its read was waiting for bytes when its deadline fired
    sinkPC,    \* ServeConn, of the proxied connection: "read", "ack"
    handled,   \* the messages its handler was called with
    open,      \* the ends of the two connections that are open
    stream,    \* the bytes on their way, in each direction
    eof,       \* the directions whose reader knows that no more bytes will come
    cut        \* the connections that are lost, known or not

peerVars == <<job, client, exit>>
srvVars == <<srv, service, sent, expired>>
msgVars == <<sinkPC, handled>>
netVars == <<open, stream, eof, cut>>
vars == <<sinkVars, peerVars, srvVars, msgVars, netVars>>

Running == 99          \* no exit code, no status
Proxied == "proxied"   \* the server's connection to the sink
Direct  == "direct"    \* somebody else's

ASSUME SinkConnsAssumption == {Proxied, Direct} \subseteq SinkConns

\* The client and the server are the ends of one connection, the proxy (the
\* server's other side) and the sink of the other.
Ends == {"client", "server", "proxy", "sink"}
Out == [client |-> "up", server |-> "down", proxy |-> "bup", sink |-> "bdown"]
In  == [client |-> "down", server |-> "up", proxy |-> "bdown", sink |-> "bup"]
Other == [client |-> "server", server |-> "client", proxy |-> "sink", sink |-> "proxy"]
Link == [client |-> "client", server |-> "client", proxy |-> "proxy", sink |-> "proxy"]
Links == {"client", "proxy"}
Streams == {Out[e] : e \in Ends}

TypeOK ==
    /\ SinkTypeOK
    /\ job \in Jobs /\ client \in {"dial", "response", "ack", "linger", "done"}
    /\ exit \in {Running, 0, 1, 10, 11, 12, 13, 14}
    /\ srv \in {"none", "admit", "hello", "policy", "dial", "recheck", "pipe", "done"}
    /\ service \in Seq(Nat) /\ sent \in Statuses \cup {Running} /\ expired \in BOOLEAN
    /\ sinkPC \in {"read", "ack"} /\ handled \in Seq(Seq(Nat))
    /\ stream \in [Streams -> Seq(Nat)]
    /\ open \subseteq Ends /\ eof \subseteq Streams /\ cut \subseteq Links

Init ==
    /\ SinkInit
    /\ job \in Jobs /\ client = "dial" /\ exit = Running
    /\ srv = "none" /\ service = <<>> /\ sent = Running /\ expired = FALSE
    /\ sinkPC = "read" /\ handled = <<>>
    /\ open = {} /\ stream = [s \in Streams |-> <<>>] /\ eof = {} /\ cut = {}

-----------------------------------------------------------------------------
(* The network.                                                            *)

\* The end of the stream that these ends write: it arrives, unless the
\* connection is lost.
Fin(E) == {Out[e] : e \in {f \in E : Link[f] \notin cut}}

\* Ends are closed: what they had not read is gone, what they have written
\* is delivered.  (A reset that takes it along is a cut.)
CloseEnds(E) ==
    /\ open' = open \ E
    /\ stream' = [s \in Streams |-> IF \E e \in E : In[e] = s THEN <<>> ELSE stream[s]]
    /\ eof' = eof \cup Fin(E)
    /\ UNCHANGED cut

Reachable(e) == Out[e] \notin eof /\ Other[e] \in open /\ Link[e] \notin cut
Delivered(e, bytes) ==
    [stream EXCEPT ![Out[e]] = IF Reachable(e) THEN @ \o bytes ELSE @]
\* A write that does not reach the other end may fail, and may not; on a
\* connection that is lost it is swallowed until the end has found out.
Broken(e) == ~Reachable(e) /\ (Link[e] \in cut => In[e] \in eof)
WriteOK(e, ok) == ok \/ Broken(e)

Ended(s) == s \in eof

\* The connection of end e is lost, and all bytes past some point with it.
\* Neither end is told.
Cut(e) ==
    /\ {e, Other[e]} \cap open # {} /\ Link[e] \notin cut /\ Cardinality(cut) < MaxCuts
    /\ \E n \in 0..Len(stream[Out[e]]), m \in 0..Len(stream[In[e]]) :
          stream' = [stream EXCEPT ![Out[e]] = SubSeq(@, 1, n), ![In[e]] = SubSeq(@, 1, m)]
    /\ cut' = cut \cup {Link[e]}
    /\ UNCHANGED <<sinkVars, peerVars, srvVars, msgVars, open, eof>>

\* An end of a lost connection finds out: a reset comes, or a probe or a
\* retransmission is not answered for too long.
Notice(link) ==
    /\ link \in cut
    /\ \E e \in open :
          Link[e] = link /\ In[e] \notin eof /\ eof' = eof \cup {In[e]}
    /\ UNCHANGED <<sinkVars, peerVars, srvVars, msgVars, open, stream, cut>>

-----------------------------------------------------------------------------
(* gocloak-send, and Client.hello within it; and raw peers.                *)

Exits(code) == client' = "done" /\ exit' = code /\ CloseEnds({"client"})

\* What the program will have written when the session has run its course.
Frame == IF job.kind = "raw" THEN <<>> ELSE HelloRequest(job.service)
Payload == IF job.kind = "raw" THEN job.bytes ELSE Append(job.bytes, Newline)

\* NewClient may fail; Dial refuses a bad name before anything is sent; the
\* handshake may time out, or end with another error.
DialFails ==
    /\ client = "dial" /\ client' = "done"
    /\ exit' \in {1, IF job.kind = "send" /\ ~ValidServiceName(job.service) THEN 14 ELSE 13}
    /\ UNCHANGED <<sinkVars, job, srvVars, msgVars, netVars>>

\* The tunnel is up, the connection is accepted, and the peer writes: its
\* hello, or everything that a raw peer has to say.
Dial ==
    /\ client = "dial" /\ (job.kind = "send" => ValidServiceName(job.service))
    /\ client' = IF job.kind = "send" THEN "response" ELSE "linger"
    /\ srv' = "admit" /\ open' = open \cup {"client", "server"}
    /\ stream' = [stream EXCEPT !["up"] = IF job.kind = "send" THEN Frame ELSE Payload]
    /\ UNCHANGED <<sinkVars, job, exit, service, sent, expired, msgVars, eof, cut>>

\* Defective variant of ExitCode: a backend that is down is a denial.
ExitCodeMerged(status) ==
    CASE status \in {StatusDenied, StatusBackendUnavailable} -> 10
      [] status = StatusRateLimited -> 12
      [] OTHER -> 1

\* statusError, then reportError.
ExitCode(status) ==
    CASE status = StatusDenied -> 10
      [] status = StatusBackendUnavailable -> 11
      [] status = StatusRateLimited -> 12
      [] OTHER -> 1

\* The hello response, the end of the stream, or the deadline; after an OK,
\* Send refuses a message that is too long and writes any other.
Response ==
    /\ client = "response"
    /\ \E ended \in BOOLEAN :
        LET r == ReadHelloResponse(stream["down"], ended \/ Ended("down")) IN
        /\ r.kind # "blocks"
        /\ IF r.kind = "ok" /\ r.value = StatusOK /\ Len(job.bytes) <= MaxMessageLen
           THEN \E ok \in BOOLEAN :
                /\ WriteOK("client", ok)
                /\ IF ok THEN /\ client' = "ack"
                              /\ stream' = [Delivered("client", Payload) EXCEPT !["down"] = SubSeq(@, 3, Len(@))]
                              /\ UNCHANGED <<exit, open, eof, cut>>
                   ELSE Exits(1)
           ELSE Exits(IF r.kind = "ok" THEN ExitCode(r.value) ELSE 1)
    /\ UNCHANGED <<sinkVars, job, srvVars, msgVars>>

\* Defective variant of AckEnds: the deadline is not set again for the ack.
AckEndsOnly ==
    /\ client = "ack"
    /\ LET r == ReadMessage(stream["down"], Ended("down")) IN
        r.kind # "blocks" /\ Exits(IF r.kind = "message" THEN 0 ELSE 1)
    /\ UNCHANGED <<sinkVars, job, srvVars, msgVars>>

\* Send reads a line, whatever it says, or fails: at its deadline if not
\* before.
AckEnds ==
    /\ client = "ack"
    /\ \E ended \in BOOLEAN :
        LET r == ReadMessage(stream["down"], ended \/ Ended("down")) IN
        r.kind # "blocks" /\ Exits(IF r.kind = "message" THEN 0 ELSE 1)
    /\ UNCHANGED <<sinkVars, job, srvVars, msgVars>>

\* A raw peer closes its half, and goes when it likes.
CloseWrite ==
    /\ client = "linger" /\ "up" \notin eof /\ eof' = eof \cup Fin({"client"})
    /\ UNCHANGED <<sinkVars, peerVars, srvVars, msgVars, open, stream, cut>>
Leave ==
    /\ client = "linger" /\ Exits(0)
    /\ UNCHANGED <<sinkVars, job, srvVars, msgVars>>

-----------------------------------------------------------------------------
(* handleConn.                                                             *)

\* The defers: both connections, whichever there are.
Returns == srv' = "done" /\ CloseEnds({"server", "proxy"} \cap open)

\* respond, and the end of the handler.
Refuse(status) ==
    /\ sent' = status /\ srv' = "done"
    /\ open' = open \ {"server", "proxy"} /\ eof' = eof \cup Fin({"server"})
    /\ stream' = [Delivered("server", HelloResponse(status)) EXCEPT !["up"] = <<>>]
    /\ UNCHANGED cut

\* No entry for the address, a limit, or a slot.
Admit ==
    /\ srv = "admit"
    /\ \/ Returns /\ UNCHANGED sent
       \/ Refuse(StatusRateLimited)
       \/ srv' = "hello" /\ UNCHANGED <<sent, netVars>>
    /\ UNCHANGED <<sinkVars, peerVars, service, expired, msgVars>>

\* Defective variant of Take: a buffered reader takes what has arrived.
TakeBuffered(used, arrived) == SubSeq(stream["up"], arrived + 1, Len(stream["up"]))

\* What the read of the frame leaves of the stream.
Take(used, arrived) == SubSeq(stream["up"], used + 1, Len(stream["up"]))

\* readHelloRequest on what has arrived; the deadline may fire at any time.
Hello ==
    /\ srv = "hello"
    /\ \E n \in 0..Len(stream["up"]), fires \in BOOLEAN :
        LET atEnd == Ended("up") /\ n = Len(stream["up"])
            arrived == SubSeq(stream["up"], 1, n)
            r == ReadHelloRequest(arrived, fires \/ atEnd)
        IN  /\ r.kind # "blocks"
            /\ expired' = (fires /\ ReadHelloRequest(arrived, atEnd).kind = "blocks")
            /\ CASE r.kind = "io" -> Returns /\ UNCHANGED <<service, sent>>
                 [] r.kind = "malformed" -> Refuse(StatusMalformed) /\ UNCHANGED service
                 [] OTHER ->
                       /\ service' = r.value /\ srv' = "policy"
                       /\ stream' = [stream EXCEPT !["up"] = Take(r.used, n)]
                       /\ UNCHANGED <<sent, open, eof, cut>>
    /\ UNCHANGED <<sinkVars, peerVars, msgVars>>

Policy ==
    /\ srv = "policy"
    /\ IF service \in Granted THEN srv' = "dial" /\ UNCHANGED <<sent, netVars>>
       ELSE Refuse(StatusDenied)
    /\ UNCHANGED <<sinkVars, peerVars, service, expired, msgVars>>

DialBackend ==
    /\ srv = "dial"
    /\ \/ /\ SinkDialled(Proxied)
          /\ srv' = "recheck" /\ open' = open \cup {"proxy", "sink"}
          /\ UNCHANGED <<sent, stream, eof, cut>>
       \/ Refuse(StatusBackendUnavailable) /\ UNCHANGED sinkVars
    /\ UNCHANGED <<peerVars, service, expired, msgVars>>

\* The re-check after track, then the response; neither a lost authorization
\* nor a write that fails is answered.
Respond ==
    /\ srv = "recheck"
    /\ \/ Returns /\ UNCHANGED sent
       \/ /\ sent' = StatusOK /\ srv' = "pipe"
          /\ stream' = Delivered("server", HelloResponse(StatusOK))
          /\ UNCHANGED <<open, eof, cut>>
    /\ UNCHANGED <<sinkVars, peerVars, service, expired, msgVars>>

\* io.Copy from end e of the pipe to the other.
Copy(e, f) ==
    /\ srv = "pipe" /\ stream[In[e]] # <<>>
    /\ stream' = [Delivered(f, <<Head(stream[In[e]])>>) EXCEPT ![In[e]] = Tail(@)]
    /\ UNCHANGED <<sinkVars, peerVars, srvVars, msgVars, open, eof, cut>>

\* Defective variant of CopyEnds: only the backend's end ends the pipe.
CopyEndsBackend(e, f) == e = "proxy" /\ Ended(In[e]) /\ stream[In[e]] = <<>>

\* A copy ends when its source is at its end, or its destination is lost.
CopyEnds(e, f) ==
    \/ Ended(In[e]) /\ stream[In[e]] = <<>>
    \/ stream[In[e]] # <<>> /\ Broken(f)

\* The copy that ends first closes both connections, whatever the other has
\* still to carry.
PipeEnds ==
    /\ srv = "pipe" /\ (CopyEnds("server", "proxy") \/ CopyEnds("proxy", "server"))
    /\ Returns
    /\ UNCHANGED <<sinkVars, peerVars, service, sent, expired, msgVars>>

\* A reload, or the server's shutdown, closes both from outside.
Reaped ==
    /\ srv = "pipe" /\ Returns
    /\ UNCHANGED <<sinkVars, peerVars, service, sent, expired, msgVars>>

-----------------------------------------------------------------------------
(* The sink.                                                               *)

Message == ReadMessage(stream["bup"], Ended("bup"))

\* Defective variant of Handle: a message the handler cannot take is dropped.
HandleDrops ==
    /\ Proxied \in serving /\ sinkPC = "read" /\ Message.kind = "message"
    /\ stream' = [stream EXCEPT !["bup"] = SubSeq(@, Len(Message.text) + 2, Len(@))]
    /\ sinkPC' = "ack" /\ UNCHANGED handled
    /\ UNCHANGED <<sinkVars, peerVars, srvVars, open, eof, cut>>

\* readMessage returns a message and the handler is called.
Handle ==
    /\ Proxied \in serving /\ sinkPC = "read" /\ Message.kind = "message"
    /\ handled' = Append(handled, Message.text)
    /\ stream' = [stream EXCEPT !["bup"] = SubSeq(@, Len(Message.text) + 2, Len(@))]
    /\ sinkPC' = "ack"
    /\ UNCHANGED <<sinkVars, peerVars, srvVars, open, eof, cut>>

\* "ACK <n>\n", as one byte and the newline: nobody reads the count.  A
\* failed write ends ServeConn.
Ack ==
    /\ Proxied \in serving /\ sinkPC = "ack" /\ sinkPC' = "read"
    /\ \/ /\ stream' = Delivered("sink", <<Letter, Newline>>)
          /\ UNCHANGED <<sinkVars, open, eof, cut>>
       \/ Broken("sink") /\ CloseEnds({"sink"}) /\ SinkConnEnds(Proxied)
    /\ UNCHANGED <<peerVars, srvVars, handled>>

\* The stream ended, within a message or between two, or a message is too
\* long: ServeConn closes the connection and returns.
ServeConnEnds ==
    /\ Proxied \in serving /\ sinkPC = "read"
    /\ Message.kind \in {"eof", "incomplete", "tooLarge"}
    /\ CloseEnds({"sink"}) /\ SinkConnEnds(Proxied)
    /\ UNCHANGED <<peerVars, srvVars, msgVars>>

\* A step of Serve or run; a connection of the backlog goes with the listener.
Serves(step) ==
    /\ step
    /\ IF Proxied \in backlog /\ Proxied \notin backlog' \cup serving'
       THEN CloseEnds({"sink"}) ELSE UNCHANGED netVars
    /\ UNCHANGED <<peerVars, srvVars, msgVars>>

\* The signal, and a client that dials the sink directly and stays as long
\* as it likes.
SinkEnvironment ==
    /\ SinkSignal \/ SinkDialled(Direct) \/ SinkConnEnds(Direct)
    /\ UNCHANGED <<peerVars, srvVars, msgVars, netVars>>

-----------------------------------------------------------------------------
ClientStep == DialFails \/ Dial \/ Response \/ AckEnds
HandlerStep ==
    \/ Admit \/ Hello \/ Policy \/ DialBackend \/ Respond
    \/ Copy("server", "proxy") \/ Copy("proxy", "server") \/ PipeEnds
ServeConnStep == Handle \/ Ack \/ ServeConnEnds

Next ==
    \/ ClientStep \/ CloseWrite \/ Leave
    \/ HandlerStep \/ Reaped
    \/ ServeConnStep \/ Serves(SinkStep) \/ SinkEnvironment
    \/ Cut("client") \/ Cut("proxy") \/ Notice("client") \/ Notice("proxy")

\* Goroutines run.  A deadline ends what nothing else ends: the reads of the
\* hello on both sides, and the read of the ack.  Accept is not bound to fail
\* while the listener is open, and nobody is bound to hang up.  The kernel
\* probes the connection to the sink, as Go's Dialer and Listen ask it to;
\* nothing probes the one in the tunnel.
Fairness ==
    /\ WF_vars(Notice("proxy"))
    /\ WF_vars(ClientStep) /\ WF_vars(HandlerStep) /\ WF_vars(ServeConnStep)
    /\ WF_vars(Serves(WatchCloses \/ WatchTold)) /\ WF_vars(Serves(SinkAcceptFails /\ ~listening))
    /\ WF_vars(Serves(SinkReturns \/ SinkExit)) /\ WF_vars(Serves(\E c \in SinkConns : SinkAccept(c)))

Spec == Init /\ [][Next]_vars /\ Fairness

-----------------------------------------------------------------------------
(* Properties.                                                             *)

\* The exit codes of gocloak-send mean what its usage text says: 10, 11 and
\* 12 are the server's own verdicts, and a name refused locally was not sent.
ExitHonest ==
    job.kind = "send" =>
        /\ exit = 10 => sent = StatusDenied /\ job.service \notin Granted
        /\ exit = 11 => sent = StatusBackendUnavailable /\ job.service \in Granted
        /\ exit = 12 => sent = StatusRateLimited
        /\ exit = 14 => srv = "none" /\ ~ValidServiceName(job.service)

\* Exit code 0 is a delivery: the sink's handler was called with the
\* message, or with its first line if there are several.
AckedIsHandled ==
    job.kind = "send" /\ exit = 0 =>
        /\ sent = StatusOK /\ handled # <<>>
        /\ handled[1] = FirstLine(Payload)

\* The bytes of the messages handled, and what the peer sent behind its hello.
Carried == FlattenSeq([i \in DOMAIN handled |-> Append(handled[i], Newline)])
BehindHello ==
    IF job.kind = "raw" THEN SubSeq(Payload, 3 + Len(service), Len(Payload)) ELSE Payload

\* The pipe is transparent: the messages handled are the complete lines of
\* what the peer sent behind its hello, in order and from the first one on,
\* also when the bytes behind the hello arrive with it.
PayloadIntact == handled # <<>> => IsPrefix(Carried, BehindHello)

\* The server judges a frame by what was sent, not by how it arrived: it
\* answers for a service only a whole frame that names it, and calls a frame
\* malformed only if it is, or if the connection was lost within it; to a
\* peer of whom it has not seen a header it says nothing, its limits aside.
\* What it says when the deadline has fired is DeadlineUnanswered's.
FrameJudged ==
    LET all == Frame \o Payload IN
    /\ sent \in {StatusOK, StatusDenied, StatusBackendUnavailable} =>
          ValidServiceName(service) /\ IsPrefix(HelloRequest(service), all)
    /\ sent = StatusMalformed =>
          /\ Len(all) >= 2
          /\ ~expired => "client" \in cut \/ ReadHelloRequest(all, TRUE) = Malformed

\* What wire.go says of a frame that does not arrive in time: a timeout, as
\* opposed to a malformed frame, carries no signal that a response is owed.
\* It does not hold when the deadline fires within the name: see the README.
DeadlineUnanswered == expired => sent # StatusMalformed

\* gocloak-send always ends: each of its waits has a deadline.
SenderExits == (job.kind = "send" /\ client # "done") ~> client = "done"

\* Nothing of a session stays behind.  Until it pipes, the handler waits for
\* nobody for ever, a peer lost in silence included; once the end of either
\* side has reached it, it returns; and when it has, by itself or because a
\* reload or a shutdown closed its connections, the sink's handler ends too,
\* also if their connection was lost.  (A pipe whose peer is lost in silence
\* has no deadline, and ends only when it is reaped.)
SessionEnds ==
    /\ srv \notin {"none", "pipe", "done"} ~> srv \in {"pipe", "done"}
    /\ srv # "none" /\ (srv = "done" \/ {"up", "bdown"} \cap eof # {})
          ~> srv = "done" /\ Proxied \notin serving

\* A sink that is told to stop does, once its direct clients have gone and
\* the server has let go of its connection or heard the end of the peer's.
SinkStops ==
    <>[](Direct \notin serving /\ (srv \in {"none", "done"} \/ "up" \in eof))
        => (sinkCtx ~> serve = "exited")

-----------------------------------------------------------------------------
(* The inductive invariant behind ExitHonest, AckedIsHandled, FrameJudged  *)
(* (SessionInv), and with PipeInv behind PayloadIntact.                    *)

\* The two ends of the peer's connection, by where their programs are.
PeerInv ==
    /\ client = "dial" => srv = "none"
    /\ srv = "none" => client \in {"dial", "done"}
    /\ client \in {"response", "ack"} => job.kind = "send" /\ "client" \in open
    /\ client = "linger" => job.kind = "raw"
    /\ exit # Running => client = "done"
    /\ job.kind = "send" /\ srv # "none" => ValidServiceName(job.service)

\* What the handler has in front of it before it has read the frame is what
\* the peer wrote at once, or what a cut has left of it.
AtOnce == IF job.kind = "raw" THEN Payload ELSE Frame
FrameInv ==
    /\ srv \in {"admit", "hello"} =>
        /\ IsPrefix(stream["up"], AtOnce)
        /\ "client" \notin cut => stream["up"] = AtOnce
    /\ srv \in {"policy", "dial", "recheck", "pipe"} =>
        ValidServiceName(service) /\ IsPrefix(HelloRequest(service), Frame \o Payload)
    /\ FrameJudged

\* The handler answers once, and nothing passes before it has answered.
AnswerInv ==
    /\ srv \in {"none", "admit", "hello", "policy", "dial", "recheck"} => sent = Running
    /\ srv = "pipe" => sent = StatusOK
    /\ srv = "dial" \/ sent = StatusBackendUnavailable => service \in Granted
    /\ sent = StatusDenied => service \notin Granted
    /\ sent = Running =>
        /\ handled = <<>> /\ sinkPC = "read"
        /\ \A s \in {"down", "bup", "bdown"} : stream[s] = <<>>

\* The first two bytes on their way to the sender are the answer, whole or
\* cut off for good; what is behind them comes from the sink, and the sink
\* says nothing before it has handled a message.
DownInv ==
    /\ stream["bdown"] # <<>> \/ sinkPC = "ack" => handled # <<>>
    /\ client = "response" =>
        /\ Len(stream["down"]) >= 2 => stream["down"][2] = sent
        /\ Len(stream["down"]) > 2 => handled # <<>>
        /\ Len(stream["down"]) = 1 \/ (srv = "pipe" /\ stream["down"] = <<>>) =>
              "client" \in cut \/ "down" \in eof
    /\ client = "ack" => sent = StatusOK /\ (stream["down"] # <<>> => handled # <<>>)

\* Until the sink has handled a message, what is on its way to it is the
\* beginning of the sender's, with no byte missing as long as more can come.
PayloadInv ==
    job.kind = "send" =>
        /\ srv \in {"policy", "dial", "recheck"} \/ (srv = "pipe" /\ client = "response") =>
              stream["up"] = <<>> /\ stream["bup"] = <<>>
        /\ handled = <<>> =>
              /\ IsPrefix(stream["bup"], Payload)
              /\ srv = "pipe" /\ Reachable("proxy") => IsPrefix(stream["bup"] \o stream["up"], Payload)
        /\ handled # <<>> => handled[1] = FirstLine(Payload)

\* What an exit code says about the answer.
ExitInv ==
    job.kind = "send" =>
        /\ exit = 0 => sent = StatusOK /\ handled # <<>>
        /\ exit = 10 => sent = StatusDenied
        /\ exit = 11 => sent = StatusBackendUnavailable
        /\ exit = 12 => sent = StatusRateLimited
        /\ exit = 14 => srv = "none" /\ ~ValidServiceName(job.service)

\* What was handled, what is on its way to the sink and, as long as more can
\* reach it, what has not been copied yet are, in this order, the beginning
\* of what the peer sent; a sender that waits for the answer has sent nothing.
PipeInv ==
    /\ IsPrefix(Carried \o stream["bup"], BehindHello)
    /\ srv \in {"policy", "dial", "recheck"} => IsPrefix(stream["up"], BehindHello)
    /\ srv = "pipe" /\ Reachable("proxy") => IsPrefix((Carried \o stream["bup"]) \o stream["up"], BehindHello)
    /\ srv = "pipe" /\ client = "response" => handled = <<>>

SessionInv == TypeOK /\ PeerInv /\ FrameInv /\ AnswerInv /\ DownInv /\ PayloadInv /\ ExitInv
=============================================================================
