---------------------------- MODULE GrpcStreams ----------------------------
(***************************************************************************)
(* One server-streaming call over gRPC (packages/grpc/src/server.ts,       *)
(* client.ts and internal.ts): the server writes messages and a status,    *)
(* the client pulls them out of a Node stream whose events come between    *)
(* its reads.  The transport and the Node stream are external.             *)
(***************************************************************************)
EXTENDS Naturals, Sequences, SequencesExt

CONSTANTS MaxMessages, MaxNetwork,   \* messages of a call, and how many the transport holds
          Failures,                  \* business failures of the contract: name -> encoded size
          MaxFailureBytes, Contracts \* whether the client knows the contract

VARIABLES contract, open,   \* the client's side: its contract, its channel
          server,           \* [at, sent, status]
          network,          \* messages and then the status, on their way
          source,           \* the Node stream: [buffer, finished, error, destroyed]
          emitted,          \* its events not dispatched yet
          reader            \* readRaw: [at, ended, failed, received, result]

grpcVars == << contract, open, server, network, source, emitted, reader >>
Nothing == "none"
NoError == [code |-> "OK", trailers |-> Nothing]

Codes == {"OK", "INTERNAL", "NOT_FOUND", "FAILED_PRECONDITION", "UNAVAILABLE", "DEADLINE_EXCEEDED", "CANCELLED"}

\* How the handler's stream is over: a business failure, its end, a GrpcError, or a death
Causes == DOMAIN Failures \cup {"end", "NOT_FOUND", "FAILED_PRECONDITION", "defect"}

\* A business failure is told apart from the outcomes that every service has
ASSUME GrpcAssumption ==
    /\ MaxMessages \in Nat /\ Contracts \subseteq BOOLEAN
    /\ \A f \in DOMAIN Failures : f \notin Codes \cup {"end", "defect", Nothing}

GrpcInit ==
    /\ contract \in Contracts /\ open = TRUE
    /\ server = [at |-> "idle", sent |-> 0, status |-> Nothing]
    /\ network = << >> /\ emitted = << >>
    /\ source = [buffer |-> << >>, finished |-> FALSE, error |-> NoError, destroyed |-> FALSE]
    /\ reader = [at |-> "idle", ended |-> FALSE, failed |-> NoError, received |-> << >>, result |-> Nothing]

\* setup: a closed channel or a bad timeout fails the call before anything is sent.
Call ==
    /\ reader.at = "idle"
    /\ IF open THEN server' = [server EXCEPT !.at = "running"] /\ reader' = [reader EXCEPT !.at = "busy"]
       ELSE UNCHANGED server /\ reader' = [reader EXCEPT !.at = "done", !.result = "UNAVAILABLE"]
    /\ UNCHANGED << contract, open, network, source, emitted >>

Message(k) == [message |-> k]

\* write: the next message is pulled when the transport called back for the last one.
ServerWrites ==
    /\ server.at = "running" /\ server.sent < MaxMessages /\ Len(network) < MaxNetwork
    /\ server' = [server EXCEPT !.sent = @ + 1]
    /\ network' = Append(network, Message(server.sent + 1))
    /\ UNCHANGED << contract, open, source, emitted, reader >>

\* The status of a failure: one of the contract travels in the trailers unless it is too large.
CodeOf(f) == IF Failures[f] <= MaxFailureBytes THEN "FAILED_PRECONDITION" ELSE "INTERNAL"

StatusOf(cause) ==
    LET code == CASE cause = "end" -> "OK"
                  [] cause \in DOMAIN Failures -> CodeOf(cause)
                  [] cause = "defect" -> "INTERNAL"
                  [] OTHER -> cause
    IN [code |-> code,
        trailers |-> IF cause \in DOMAIN Failures /\ code = "FAILED_PRECONDITION" THEN cause ELSE Nothing]

\* The handler's stream ends, fails with a business failure or a GrpcError, or dies.
ServerEnds ==
    /\ server.at = "running"
    /\ \E cause \in Causes : /\ server' = [server EXCEPT !.at = "over", !.status = cause]
                            /\ network' = Append(network, StatusOf(cause))
    /\ UNCHANGED << contract, open, source, emitted, reader >>

\* External: a lost connection or an expired deadline stands for the rest of the answer.
TransportFails ==
    /\ reader.at \notin {"idle", "done"} /\ server.at # "cut" /\ ~source.finished
    /\ \E code \in {"UNAVAILABLE", "DEADLINE_EXCEEDED"} : network' = << [code |-> code, trailers |-> Nothing] >>
    /\ server' = [server EXCEPT !.at = "cut"]
    /\ UNCHANGED << contract, open, source, emitted, reader >>

(***************************************************************************)
(* External: the Node stream.  A message is buffered; a status finishes    *)
(* the stream, and one that is not OK is emitted as an error; `end` comes  *)
(* when a read finds the buffer of a finished stream empty.                *)
(***************************************************************************)
Arrives ==
    /\ network # << >> /\ ~source.destroyed
    /\ LET p == Head(network) IN
       IF "message" \in DOMAIN p
       THEN /\ source' = [source EXCEPT !.buffer = Append(@, p.message)]
            /\ emitted' = Append(emitted, "readable")
       ELSE /\ source' = [source EXCEPT !.finished = TRUE, !.error = p]
            /\ emitted' = Append(emitted, IF p.code = "OK" THEN "readable" ELSE "error")
    /\ network' = Tail(network)
    /\ UNCHANGED << contract, open, server, reader >>

\* External: the stream is destroyed before it finished, dropping what it held.
Destroyed ==
    /\ reader.at \in {"busy", "waiting"} /\ ~source.destroyed /\ ~source.finished
    /\ source' = [source EXCEPT !.destroyed = TRUE, !.buffer = << >>]
    /\ emitted' = Append(emitted, "close")
    /\ UNCHANGED << contract, open, server, network, reader >>

RemoteCode(e) == e.code

\* decodeError: a business failure only for a client that knows the contract, with its trailers.
DecodeError(e) ==
    IF RemoteCode(e) # "FAILED_PRECONDITION" \/ ~contract THEN RemoteCode(e)
    ELSE IF e.trailers = Nothing THEN "INTERNAL" ELSE e.trailers

\* poll: a buffered message first, then the failure, then the end; else the listeners stay.
Poll(r, s) ==
    IF s.buffer # << >> THEN [r EXCEPT !.at = "busy", !.received = Append(@, Head(s.buffer))]
    ELSE IF r.failed # NoError THEN [r EXCEPT !.at = "done", !.result = DecodeError(r.failed)]
    ELSE IF r.ended THEN [r EXCEPT !.at = "done", !.result = "OK"]
    ELSE IF s.destroyed THEN [r EXCEPT !.at = "done", !.result = "CANCELLED"]
    ELSE [r EXCEPT !.at = "waiting"]

Took(r, s) == [s EXCEPT !.buffer = IF @ = << >> THEN @ ELSE Tail(@)]
Ends(s) == IF s.finished /\ s.buffer = << >> /\ s.error = NoError THEN << "end" >> ELSE << >>

\* The consumer pulls: listeners on, then a first poll at once.
Pull ==
    /\ reader.at = "busy"
    /\ reader' = Poll(reader, source) /\ source' = Took(reader, source)
    /\ emitted' = emitted \o Ends(source)
    /\ UNCHANGED << contract, open, server, network >>

\* Mutant: end and error are heard only while a read waits.
HeardWhileWaiting(e) == IF reader.at # "waiting" THEN reader
                        ELSE [reader EXCEPT !.ended = @ \/ e = "end",
                                            !.failed = IF e = "error" THEN source.error ELSE @]
\* onEnd and onError stay for the life of the stream and remember what came between two reads.
Heard(e) == [reader EXCEPT !.ended = @ \/ e = "end", !.failed = IF e = "error" THEN source.error ELSE @]

Dispatch ==
    /\ emitted # << >>
    /\ LET heard == Heard(Head(emitted)) IN
       IF reader.at = "waiting"
       THEN /\ reader' = Poll(heard, source) /\ source' = Took(heard, source)
            /\ emitted' = Tail(emitted) \o Ends(source)
       ELSE reader' = heard /\ emitted' = Tail(emitted) /\ UNCHANGED source
    /\ UNCHANGED << contract, open, server, network >>

\* The scope of the client closes its channel; calls under way run on.
CloseChannel == open /\ open' = FALSE
                /\ UNCHANGED << contract, server, network, source, emitted, reader >>

GrpcNext == \/ Call \/ ServerWrites \/ ServerEnds \/ TransportFails \/ Arrives \/ Destroyed
            \/ Pull \/ Dispatch \/ CloseChannel

GrpcSpec == GrpcInit /\ [][GrpcNext]_grpcVars

-----------------------------------------------------------------------------
(***************************************************************************)
(* The client hears what the server said: the messages in order, none      *)
(* skipped, all of them when the stream ends normally; a business failure  *)
(* by its name or not at all; an end only after the server's own end; and  *)
(* a waiting read always has something left to wake it                     *)
(* (packages/grpc/src/internal.ts readRaw and decodeError).                *)
(***************************************************************************)
ClientHearsTheServer ==
    /\ reader.received = [i \in 1 .. Len(reader.received) |-> i]
    /\ reader.result = "OK" => /\ server.status = "end"
                               /\ Len(reader.received) = server.sent
    /\ reader.result \in DOMAIN Failures =>
         /\ server.status = reader.result /\ Failures[reader.result] <= MaxFailureBytes
         /\ Len(reader.received) = server.sent
    /\ reader.at = "waiting" => \/ emitted # << >>
                                \/ ~source.destroyed /\ (network # << >> \/ server.at = "running")
=============================================================================
