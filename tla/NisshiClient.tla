---------------------------- MODULE NisshiClient ----------------------------
(***************************************************************************)
(* The wire client of the Nisshi adapter: one connection shared by every   *)
(* caller, requests told apart by a correlation id, replies reassembled    *)
(* from TCP chunks, a timeout per request, and the five operations built   *)
(* on it (packages/eventsourcing-nisshi/src/protocol/connection.ts and     *)
(* client.ts).  The broker is external: it answers requests in the order   *)
(* they arrive, creates a topic with four partitions when asked for the    *)
(* metadata of one it does not know, and returns whole batches.            *)
(***************************************************************************)
EXTENDS Naturals, FiniteSets, SequencesExt

CONSTANTS Callers, BrokerTopics,
          Opener,        \* the fiber that opens the connection
          MaxRequests,   \* bound on the requests sent over the connection
          BatchSizes     \* the sizes of a produced batch

ASSUME ClientAssumption ==
    Opener \notin Callers /\ BrokerTopics # {} /\ MaxRequests \in Nat /\ BatchSizes \subseteq Nat

VARIABLES conn,          \* "new", "opening", "open", "failed" or "closed"
          correlation,   \* the last correlation id given out
          pending,       \* correlation id -> the fiber whose deferred it is
          requests,      \* what the broker has not read yet
          chunks,        \* what the broker sent and the socket did not deliver
          receive,       \* the chunks of an incomplete frame
          call,          \* what each fiber is doing
          parts, brokerLog \* the broker: partitions and records of each topic

Fibers == Callers \cup {Opener}
Nothing == [got |-> "nothing"]
Error == [got |-> "error"]
Quiet == [op |-> "none", topic |-> CHOOSE t \in BrokerTopics : TRUE, offset |-> 0, size |-> 0, since |-> 0,
          at |-> "idle", corr |-> 0, deferred |-> Nothing, result |-> Nothing]

NisshiClientInit ==
    /\ conn = "new" /\ correlation = 0 /\ pending = << >>
    /\ requests = << >> /\ chunks = << >> /\ receive = << >>
    /\ call = [f \in Fibers |-> Quiet]
    /\ parts = [t \in BrokerTopics |-> 0] /\ brokerLog = [t \in BrokerTopics |-> << >>]

(***************************************************************************)
(* request: a fresh correlation id, the deferred registered under it, one  *)
(* write.  A write to a socket that has closed is lost, silently.          *)
(***************************************************************************)
SendRequest(f, api, c) ==
    LET corr == correlation + 1 IN
    /\ correlation < MaxRequests
    /\ correlation' = corr
    /\ pending' = [k \in DOMAIN pending \cup {corr} |-> IF k = corr THEN f ELSE pending[k]]
    /\ requests' = IF conn \in {"failed", "closed"} THEN requests
                   ELSE Append(requests, [api |-> api, corr |-> corr, c |-> c])
    /\ call' = [call EXCEPT ![f] = [c EXCEPT !.at = api, !.corr = corr, !.deferred = Nothing]]

Without(k) == [j \in DOMAIN pending \ {k} |-> pending[j]]

Connect ==
    /\ conn = "new"
    /\ \/ conn' = "failed" /\ UNCHANGED << correlation, pending, requests, call >>
       \/ conn' = "opening" /\ SendRequest(Opener, "versions", Quiet)
    /\ UNCHANGED << chunks, receive, parts, brokerLog >>

\* ensureTopic creates first and probes second; endOffset is a fetch of one byte at 0.
FirstApi(op) == CASE op = "ensure" -> "create"
                  [] op = "list" -> "metadata"
                  [] op = "end" -> "fetch"
                  [] OTHER -> op

Begin(f) ==
    /\ conn \in {"open", "closed"} /\ call[f].at = "idle"
    /\ \E op \in {"ensure", "list", "produce", "fetch", "end"}, t \in BrokerTopics, n \in BatchSizes :
         \E offset \in IF op = "fetch" THEN 0 .. Len(brokerLog[t]) ELSE {0} :
            SendRequest(f, FirstApi(op), [Quiet EXCEPT !.op = op, !.topic = t, !.offset = offset, !.size = n,
                                                       !.since = Len(brokerLog[t])])
    /\ UNCHANGED << conn, chunks, receive, parts, brokerLog >>

(***************************************************************************)
(* External: the broker takes the next request and writes its answer,      *)
(* which the network may cut in two.  Any request may be refused.          *)
(***************************************************************************)
Sends(r, body) == chunks' = IF conn = "closed" THEN chunks
                            ELSE chunks \o << [corr |-> r.corr], [body |-> body] >>

Broker ==
    /\ requests # << >>
    /\ LET r == Head(requests)   t == r.c.topic IN
       \/ Sends(r, [got |-> "refusal"]) /\ UNCHANGED << parts, brokerLog >>
       \/ r.api = "versions" /\ Sends(r, [got |-> "versions"]) /\ UNCHANGED << parts, brokerLog >>
       \/ /\ r.api = "create"
          /\ parts' = [parts EXCEPT ![t] = IF @ = 0 THEN 1 ELSE @]
          /\ Sends(r, [got |-> "created"]) /\ UNCHANGED brokerLog
       \/ /\ r.api = "metadata" /\ r.c.op = "ensure"
          /\ parts' = [parts EXCEPT ![t] = IF @ = 0 THEN 4 ELSE @]
          /\ Sends(r, [got |-> "partitions", n |-> parts'[t]]) /\ UNCHANGED brokerLog
       \/ /\ r.api = "metadata" /\ r.c.op = "list"
          /\ Sends(r, [got |-> "names", names |-> {n \in BrokerTopics : parts[n] > 0}])
          /\ UNCHANGED << parts, brokerLog >>
       \/ /\ r.api = "produce"
          /\ parts' = [parts EXCEPT ![t] = IF @ = 0 THEN 4 ELSE @]
          /\ brokerLog' = [brokerLog EXCEPT ![t] = @ \o [i \in 1 .. r.c.size |->
                        [base |-> Len(brokerLog[t]), by |-> r.corr, offset |-> Len(brokerLog[t]) + i - 1]]]
          /\ Sends(r, [got |-> "base", base |-> Len(brokerLog[t])])
       \/ /\ r.api = "fetch"
          /\ LET from == IF r.c.offset < Len(brokerLog[t]) THEN brokerLog[t][r.c.offset + 1].base ELSE Len(brokerLog[t])
             IN Sends(r, [got |-> "batches", records |-> SubSeq(brokerLog[t], from + 1, Len(brokerLog[t])),
                          watermark |-> IF brokerLog[t] = << >> THEN 1 ELSE Len(brokerLog[t])])
          /\ UNCHANGED << parts, brokerLog >>
    /\ requests' = Tail(requests)
    /\ UNCHANGED << conn, correlation, pending, receive, call >>

\* External: another client asks for the metadata of a topic nobody created.
Probe == /\ conn = "open"
         /\ \E t \in BrokerTopics : parts[t] = 0 /\ parts' = [parts EXCEPT ![t] = 4]
         /\ UNCHANGED << conn, correlation, pending, requests, chunks, receive, call, brokerLog >>

(***************************************************************************)
(* The data handler: append the chunk, cut whole frames, hand each to the  *)
(* deferred its correlation id names, drop it when nobody waits any more.  *)
(***************************************************************************)
TakePendingOldest(corr) == IF DOMAIN pending = {} THEN corr
                           ELSE CHOOSE k \in DOMAIN pending : \A j \in DOMAIN pending : k <= j
TakePending(corr) == corr

Data ==
    /\ chunks # << >> /\ conn \in {"opening", "open"}
    /\ LET got == Append(receive, Head(chunks))
           k == TakePending(got[1].corr) IN
       IF Len(got) < 2
       THEN receive' = got /\ UNCHANGED << pending, call >>
       ELSE /\ receive' = << >>
            /\ pending' = Without(k)
            /\ call' = IF k \in DOMAIN pending
                       THEN [call EXCEPT ![pending[k]].deferred = got[2].body] ELSE call
    /\ chunks' = Tail(chunks)
    /\ UNCHANGED << conn, correlation, requests, parts, brokerLog >>

\* close and error: every deferred fails; the broker may still act on what it was sent.
FailAll ==
    /\ conn \in {"opening", "open"} /\ conn' = "closed"
    /\ call' = [f \in Fibers |-> IF \E k \in DOMAIN pending : pending[k] = f
                                 THEN [call[f] EXCEPT !.deferred = [got |-> "closed"]] ELSE call[f]]
    /\ pending' = << >> /\ chunks' = << >>
    /\ UNCHANGED << correlation, requests, receive, parts, brokerLog >>

Waits(f) == call[f].at \notin {"idle", "done"}

\* timeoutFail may win against a deferred that was just completed; ensuring takes it out.
Timeout(f) ==
    /\ Waits(f)
    /\ pending' = Without(call[f].corr)
    /\ call' = [call EXCEPT ![f].at = "done", ![f].result = Error]
    /\ conn' = IF f = Opener THEN "failed" ELSE conn
    /\ UNCHANGED << correlation, requests, chunks, receive, parts, brokerLog >>

\* fetch: the broker returned the whole batch, the records below the offset are dropped.
FromOffset(records, offset) ==
    LET kept == {i \in DOMAIN records : records[i].offset >= offset}
        Nth(n) == CHOOSE i \in kept : Cardinality({j \in kept : j <= i}) = n IN
    [n \in 1 .. Cardinality(kept) |-> records[Nth(n)]]

EndOffset(page) == IF page.records = << >> THEN 0 ELSE page.watermark

PartitionCount(d) == d.n
Ensured(d) == IF PartitionCount(d) = 1 THEN [got |-> "ensured"] ELSE Error
Listed(d) == [got |-> "names", names |-> d.names]
Produced(d) == [got |-> "base", base |-> d.base]
Page(d, offset) == [got |-> "page", records |-> FromOffset(d.records, offset), watermark |-> d.watermark]

Outcome(c) ==
    LET d == c.deferred IN
    CASE d.got \in {"refusal", "closed"} -> Error
      [] d.got = "partitions" -> Ensured(d)
      [] d.got = "names" -> Listed(d)
      [] d.got = "base" -> Produced(d)
      [] d.got = "batches" /\ c.op = "fetch" -> Page(d, c.offset)
      [] d.got = "batches" /\ c.op = "end" -> [got |-> "end", n |-> EndOffset(Page(d, 0))]
      [] OTHER -> d

Resume(f) ==
    /\ Waits(f) /\ f # Opener /\ call[f].deferred # Nothing
    /\ IF call[f].deferred.got = "created"
       THEN SendRequest(f, "metadata", call[f])
       ELSE /\ call' = [call EXCEPT ![f].at = "done", ![f].result = Outcome(call[f])]
            /\ UNCHANGED << correlation, pending, requests >>
    /\ UNCHANGED << conn, chunks, receive, parts, brokerLog >>

\* The handshake: a refusal, or a pinned version the broker does not offer, fails the layer.
Handshake ==
    /\ Waits(Opener) /\ call[Opener].deferred # Nothing
    /\ \/ call[Opener].deferred.got = "versions" /\ conn' = IF conn = "closed" THEN conn ELSE "open"
       \/ conn' = "failed"
    /\ call' = [call EXCEPT ![Opener].at = "done"]
    /\ UNCHANGED << correlation, pending, requests, chunks, receive, parts, brokerLog >>

Return(f) == /\ call[f].at = "done" /\ f # Opener
             /\ call' = [call EXCEPT ![f] = Quiet]
             /\ UNCHANGED << conn, correlation, pending, requests, chunks, receive, parts, brokerLog >>

NisshiClientNext ==
    \/ Connect \/ Broker \/ Probe \/ Data \/ FailAll \/ Handshake \/ Timeout(Opener)
    \/ \E f \in Callers : Begin(f) \/ Resume(f) \/ Timeout(f) \/ Return(f)

wireVars == <<conn, correlation, pending, requests, chunks, receive, call, parts, brokerLog>>

NisshiClientSpec == NisshiClientInit /\ [][NisshiClientNext]_wireVars

-----------------------------------------------------------------------------
(***************************************************************************)
(* What an operation reports is so, whoever else shares the connection and *)
(* whichever earlier requests timed out before their answers came: an      *)
(* ensured topic has one partition, a produced batch lies at the offset    *)
(* reported, a page is the log from the offset asked for, the end offset   *)
(* is not below what was in the log when it was asked, and no deferred is  *)
(* kept for a request nobody awaits (packages/eventsourcing-nisshi/src/    *)
(* protocol/connection.ts, takePending and ensuring).                      *)
(***************************************************************************)
Honest(c) ==
    LET r == c.result IN
    CASE r.got = "ensured" -> c.op = "ensure" /\ parts[c.topic] = 1
      [] r.got = "base" -> /\ c.op = "produce"
                           /\ \A i \in 1 .. c.size : brokerLog[c.topic][r.base + i].by = c.corr
      [] r.got = "page" -> /\ c.op = "fetch"
                           /\ IsPrefix(r.records, SubSeq(brokerLog[c.topic], c.offset + 1, Len(brokerLog[c.topic])))
      [] r.got = "end" -> c.op = "end" /\ r.n \in c.since .. Len(brokerLog[c.topic])
      [] r.got = "names" -> c.op = "list" /\ \A t \in r.names : parts[t] > 0
      [] OTHER -> r \in {Nothing, Error}

AnswersAreOwn ==
    /\ \A f \in Callers : Honest(call[f])
    /\ \A k \in DOMAIN pending : Waits(pending[k]) /\ call[pending[k]].corr = k
=============================================================================
