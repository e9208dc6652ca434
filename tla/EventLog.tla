------------------------------ MODULE EventLog ------------------------------
(***************************************************************************)
(* What the event-store port promises, whatever the adapter: an append is  *)
(* one atomic extension of the log at its end, versions of a stream follow *)
(* each other without a gap, and an erased stream is closed for ever with  *)
(* its content gone and its positions kept.                                *)
(***************************************************************************)
EXTENDS EventRows

VARIABLES
    events,     \* set of committed rows
    ledger,     \* [Streams -> version at which the stream was erased]
    outbox      \* ids of the messages staged together with events

logVars == <<events, ledger, outbox>>

Init ==
    /\ events = {}
    /\ ledger = [s \in Streams |-> NotErased]
    /\ outbox = {}

\* The rows a step adds all lie beyond every position already visible, and
\* continue their streams exactly where they ended; erased streams take none.
Extends(old, new) ==
    /\ \A n \in new : /\ n \in Row
                      /\ ~n.erased
                      /\ ledger[n.stream] = NotErased
                      /\ \A e \in old : e.position < n.position
    /\ \A n, m \in new : n.position = m.position => n = m
    /\ \A n, m \in new :
          n.stream = m.stream => (n.version < m.version <=> n.position < m.position)
    /\ \A s \in Streams :
          VersionsOf(old \union new, s) = 1..CurrentVersion(old \union new, s)
    /\ \A n \in new : \A e \in old : e.stream = n.stream => e.version < n.version

Append ==
    /\ events \subseteq events'
    /\ Extends(events, events' \ events)
    /\ outbox \subseteq outbox'
    /\ UNCHANGED ledger

Erase(s) ==
    /\ ledger[s] = NotErased
    /\ ledger' = [ledger EXCEPT ![s] = CurrentVersion(events, s)]
    /\ events' = Tombstoned(events, s, CurrentVersion(events, s))
    /\ UNCHANGED outbox

Next == Append \/ \E s \in Streams : Erase(s)

Spec == Init /\ [][Next]_logVars
=============================================================================
