------------------------------ MODULE MsgSink ------------------------------
(***************************************************************************)
(* The message sink (internal/msg, cmd/gocloak-sink): the framing of       *)
(* messages on a stream of bytes, and Serve, whose accept loop, context    *)
(* and connection handlers meet at shutdown.                               *)
(*                                                                         *)
(* A connection waits in the listener's backlog until Serve accepts it.    *)
(* What a handler does on its connection is left to the module that has    *)
(* the streams: here a handler runs, and ends.                             *)
(***************************************************************************)
EXTENDS Naturals, Sequences, SequencesExt, FiniteSets

CONSTANTS MaxMessageLen,   \* 65536 in the code
          SinkConns        \* connections that may be made to the sink

ASSUME MaxMessageLenAssumption == MaxMessageLen \in Nat

VARIABLES
    sinkCtx,    \* the context of Serve is done (SIGINT, SIGTERM)
    listening,  \* the listener is open
    watch,      \* the goroutine that closes it: "armed", "told", "done"
    serve,      \* Serve: "accept", "wait", "returned"; run: "exited"
    backlog,    \* connections not accepted yet
    serving     \* connections whose ServeConn is running

sinkVars == <<sinkCtx, listening, watch, serve, backlog, serving>>

Newline == 10

\* The first line of a sequence of bytes, without its newline.
HasLine(s) == \E i \in DOMAIN s : s[i] = Newline
FirstLine(s) ==
    SubSeq(s, 1, (CHOOSE i \in DOMAIN s : s[i] = Newline /\ \A j \in 1..(i - 1) : s[j] # Newline) - 1)

\* readMessage, where "ended" says that no more bytes will come.
ReadMessage(s, ended) ==
    IF HasLine(s) /\ Len(FirstLine(s)) <= MaxMessageLen THEN [kind |-> "message", text |-> FirstLine(s)]
    ELSE [kind |-> IF Len(s) > MaxMessageLen THEN "tooLarge"
                   ELSE IF ~ended THEN "blocks"
                   ELSE IF s = <<>> THEN "eof" ELSE "incomplete",
          text |-> <<>>]

SinkTypeOK ==
    /\ sinkCtx \in BOOLEAN /\ listening \in BOOLEAN
    /\ watch \in {"armed", "told", "done"}
    /\ serve \in {"accept", "wait", "returned", "exited"}
    /\ backlog \subseteq SinkConns /\ serving \subseteq SinkConns

SinkInit ==
    /\ sinkCtx = FALSE /\ listening = TRUE /\ watch = "armed" /\ serve = "accept"
    /\ backlog = {} /\ serving = {}

-----------------------------------------------------------------------------
SinkSignal ==
    /\ ~sinkCtx /\ serve # "exited" /\ sinkCtx' = TRUE
    /\ UNCHANGED <<listening, watch, serve, backlog, serving>>

\* Defective variant of WatchCloses: the goroutine ends and closes nothing.
WatchForgets ==
    /\ sinkCtx /\ watch # "done" /\ watch' = "done"
    /\ UNCHANGED <<sinkCtx, listening, serve, backlog, serving>>

\* case <-ctx.Done(): the listener is closed, and its backlog with it.
WatchCloses ==
    /\ sinkCtx /\ watch # "done" /\ watch' = "done"
    /\ listening' = FALSE /\ backlog' = {}
    /\ UNCHANGED <<sinkCtx, serve, serving>>

\* case <-stopWatch: select may take it although ctx is done as well, and
\* then Serve returns with its listener open.
WatchTold ==
    /\ watch = "told" /\ watch' = "done"
    /\ UNCHANGED <<sinkCtx, listening, serve, backlog, serving>>

SinkAccept(c) ==
    /\ serve = "accept" /\ c \in backlog
    /\ backlog' = backlog \ {c} /\ serving' = serving \cup {c}
    /\ UNCHANGED <<sinkCtx, listening, watch, serve>>

\* Accept fails, because the listener is closed or for a reason of its own.
SinkAcceptFails ==
    /\ serve = "accept" /\ serve' = "wait"
    /\ watch' = IF watch = "armed" THEN "told" ELSE watch
    /\ UNCHANGED <<sinkCtx, listening, backlog, serving>>

\* wg.Wait has ended.
SinkReturns ==
    /\ serve = "wait" /\ serving = {} /\ serve' = "returned"
    /\ UNCHANGED <<sinkCtx, listening, watch, backlog, serving>>

\* run of gocloak-sink returns: the deferred Close of the listener.
SinkExit ==
    /\ serve = "returned" /\ serve' = "exited"
    /\ listening' = FALSE /\ backlog' = {}
    /\ UNCHANGED <<sinkCtx, watch, serving>>

\* A connection is made to the listener; it is dropped from the backlog; its
\* handler returns.
SinkDialled(c) ==
    /\ listening /\ c \notin backlog \cup serving
    /\ backlog' = backlog \cup {c}
    /\ UNCHANGED <<sinkCtx, listening, watch, serve, serving>>
SinkConnEnds(c) ==
    /\ c \in serving /\ serving' = serving \ {c}
    /\ UNCHANGED <<sinkCtx, listening, watch, serve, backlog>>

SinkStep ==
    \/ WatchCloses \/ WatchTold \/ SinkAcceptFails \/ SinkReturns \/ SinkExit
    \/ \E c \in SinkConns : SinkAccept(c)
=============================================================================
