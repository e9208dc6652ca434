----------------------------- MODULE EventRows -----------------------------
(***************************************************************************)
(* Rows of the `events` table and the two facts every store computes from  *)
(* them: a stream's current version and its tombstoned form.               *)
(***************************************************************************)
EXTENDS Integers, FiniteSetsExt

CONSTANTS
    Streams         \* stream names

\* No row of `erased_streams` for this stream.
NotErased == -1

\* One committed event.  Its payload and metadata are abstracted to whether
\* they are still there (`erased` = FALSE) or have been overwritten by the
\* tombstone of type `Erased`.
Row == [position : Nat \ {0}, stream : Streams, version : Nat \ {0},
        erased : BOOLEAN]

\* The versions a set of rows holds for one stream.
VersionsOf(rows, s) == {e.version : e \in {f \in rows : f.stream = s}}

\* SELECT max(version) ... WHERE stream_name = s, with NULL read as 0.
CurrentVersion(rows, s) == Max({0} \union VersionsOf(rows, s))

\* UPDATE events SET type = Erased, payload = tombstone, metadata = tombstone
\* for every version up to v: positions and versions stay.
Tombstoned(rows, s, v) ==
    {IF e.stream = s /\ e.version <= v THEN [e EXCEPT !.erased = TRUE] ELSE e
        : e \in rows}
=============================================================================
