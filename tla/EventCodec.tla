----------------------------- MODULE EventCodec -----------------------------
(***************************************************************************)
(* The event registry under a rolling deployment (packages/eventsourcing/  *)
(* src/codec.ts): every replica writes events in the schema version of its *)
(* own release and reads what replicas of older and newer releases wrote.  *)
(* A payload is its content and the version whose shape it has.            *)
(***************************************************************************)
EXTENDS Naturals, Sequences

CONSTANTS Replicas,
          Releases,    \* the registries in the order they ship: tag -> [version, upcasters]
          MaxStored

VARIABLES release,     \* the release each replica runs
          stored,      \* the events in the log
          position,    \* how far each replica's reader is
          applied,     \* what its last successful decode gave
          halted       \* why its reader stands still, "" when it does not

codecVars == << release, stored, position, applied, halted >>

Registry(r) == Releases[release[r]]
Tags == UNION {DOMAIN Releases[i] : i \in DOMAIN Releases}

CodecInit == /\ release = [r \in Replicas |-> 1]
             /\ stored = << >>
             /\ position = [r \in Replicas |-> 0]
             /\ applied = [r \in Replicas |-> << >>]
             /\ halted = [r \in Replicas |-> ""]

\* encode: the version of the writer's registry; an unregistered tag is a defect.
Encode(r, tag) ==
    /\ tag \in DOMAIN Registry(r) /\ Len(stored) < MaxStored
    /\ LET v == Registry(r)[tag].version IN
       stored' = Append(stored, [tag |-> tag, version |-> v,
                                 payload |-> [content |-> Len(stored) + 1, shape |-> v]])
    /\ UNCHANGED << release, position, applied, halted >>

\* External: upcasters[v] turns the shape of v into that of v + 1, and throws on any other.
Upcast(payload, v) == IF payload.shape = v THEN [payload EXCEPT !.shape = v + 1]
                                           ELSE [payload EXCEPT !.shape = 0]

\* Mutant: the upcaster of the stored version itself is left out.
UpcastersFromNext(version, current) == version + 1 .. current - 1

\* The upcasters from the stored version up to the current one, each once.
UpcastersFrom(version, current) == version .. current - 1

Upcasted(e, current) ==
    LET steps == UpcastersFrom(e.version, current)
        chain[v \in 0 .. current] == IF v - 1 \in steps THEN Upcast(chain[v - 1], v - 1) ELSE e.payload
    IN chain[current]

Problem(e, registry) ==
    IF e.tag \notin DOMAIN registry THEN "unknown event type"
    ELSE LET entry == registry[e.tag] IN
         IF e.version > entry.version THEN "newer"
         ELSE IF ~(UpcastersFrom(e.version, entry.version) \subseteq entry.upcasters) THEN "no upcaster"
         ELSE IF Upcasted(e, entry.version).shape # entry.version THEN "invalid payload"
         ELSE ""

\* decode, in a reader that goes through the log: an event that cannot be decoded halts it there.
Decode(r) ==
    /\ position[r] < Len(stored) /\ halted[r] = ""
    /\ LET e == stored[position[r] + 1]   why == Problem(e, Registry(r)) IN
       /\ halted' = [halted EXCEPT ![r] = why]
       /\ IF why = ""
          THEN /\ position' = [position EXCEPT ![r] = @ + 1]
               /\ applied' = [applied EXCEPT ![r] = Append(@, Upcasted(e, Registry(r)[e.tag].version))]
          ELSE UNCHANGED << position, applied >>
    /\ UNCHANGED << release, stored >>

\* External: a replica is deployed again; its reader resumes from its checkpoint.
Deploy(r) ==
    /\ release[r] < Len(Releases)
    /\ release' = [release EXCEPT ![r] = @ + 1]
    /\ halted' = [halted EXCEPT ![r] = ""]
    /\ UNCHANGED << stored, position, applied >>

CodecNext == \E r \in Replicas : \/ \E tag \in Tags : Encode(r, tag)
                                 \/ Decode(r) \/ Deploy(r)

(***************************************************************************)
(* Whatever the order of the deployment, a reader applies each event once, *)
(* in the log's order, with the content written and in a shape its release *)
(* knows; and it stands still only while it runs an older release than the *)
(* last, so finishing the deployment frees it (packages/eventsourcing/src/ *)
(* codec.ts decode; docs/operations.md on poisoned events).                *)
(***************************************************************************)
ReadAsWritten ==
    \A r \in Replicas :
        /\ Len(applied[r]) = position[r]
        /\ \A i \in 1 .. position[r] :
              /\ applied[r][i].content = stored[i].payload.content
              /\ applied[r][i].shape >= stored[i].version
        /\ halted[r] # "" => release[r] < Len(Releases)
=============================================================================
