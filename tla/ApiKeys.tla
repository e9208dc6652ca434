------------------------------ MODULE ApiKeys ------------------------------
(***************************************************************************)
(* API keys of packages/auth (apikey.ts): machine credentials hashed with  *)
(* a versioned pepper that is rotated lazily, at the first use of a key    *)
(* under a newer current pepper.  Replicas of one deployment run with      *)
(* their own pepper configuration, so that a rotation rolls through them.  *)
(*                                                                         *)
(* A verification reads the key's record once, then works on that copy:    *)
(* replaceHash and markUsed are separate statements, and a revocation or   *)
(* another replica's rehash may land in between.                           *)
(***************************************************************************)
EXTENDS Naturals

CONSTANTS Keys, Replicas, Verifiers, Versions,
          Current,  \* replica -> version of its current pepper
          Known     \* replica -> versions it knows: the current and the retired ones

ASSUME PepperAssumption ==
    /\ Versions \subseteq Nat \ {0}
    /\ \A r \in Replicas : Current[r] \in Known[r] /\ Known[r] \subseteq Versions

VARIABLES keys,     \* key -> [state, version, hash]; hash is the version the digest was made under
          checks,   \* verification in each slot
          revokedKeys  \* history: keys whose revocation has been answered

ApiKeyInit ==
    /\ keys = [k \in Keys |-> [state |-> "unborn", revoked |-> FALSE, version |-> 0, hash |-> 0]]
    /\ checks = [v \in Verifiers |-> [pc |-> "idle"]]
    /\ revokedKeys = {}

\* mint: under the replica's current pepper
MintKey(r, k) ==
    /\ keys[k].state = "unborn"
    /\ keys' = [keys EXCEPT ![k] = [state |-> "live", revoked |-> FALSE,
                                    version |-> Current[r], hash |-> Current[r]]]
    /\ UNCHANGED <<checks, revokedKeys>>

\* verify, up to the comparison: the record must stand, its pepper must be known and the digest match
BeginVerify(v, r, k) ==
    /\ checks[v].pc = "idle"
    /\ keys[k].state = "live" /\ ~keys[k].revoked
    /\ keys[k].version \in Known[r] /\ keys[k].hash = keys[k].version
    /\ checks' = [checks EXCEPT ![v] =
           [pc |-> IF keys[k].version = Current[r] THEN "mark" ELSE "rehash",
            replica |-> r, key |-> k, late |-> k \in revokedKeys]]
    /\ UNCHANGED <<keys, revokedKeys>>

\* Mutant: the row is written back as it was read.
ReplaceHashWholeRow(k, version) == [keys EXCEPT ![k] = [state |-> "live", revoked |-> FALSE,
                                                        version |-> version, hash |-> version]]

\* replaceHash: digest and version change together, nothing else of the row does
ReplaceHash(k, version) == [keys EXCEPT ![k].version = version, ![k].hash = version]

Rehash(v) ==
    /\ checks[v].pc = "rehash"
    /\ keys' = ReplaceHash(checks[v].key, Current[checks[v].replica])
    /\ checks' = [checks EXCEPT ![v].pc = "mark"]
    /\ UNCHANGED revokedKeys

\* markUsed and the standing; the time of last use decides nothing and is left out
Accept(v) ==
    /\ checks[v].pc = "mark"
    /\ checks' = [checks EXCEPT ![v].pc = "accepted"]
    /\ UNCHANGED <<keys, revokedKeys>>

\* The caller goes on to its next request; a crash or a store error ends a verification as well
Done(v) ==
    /\ checks[v].pc /= "idle"
    /\ checks' = [checks EXCEPT ![v] = [pc |-> "idle"]]
    /\ UNCHANGED <<keys, revokedKeys>>

RevokeKey(k) ==
    /\ keys[k].state /= "unborn" /\ ~keys[k].revoked
    /\ keys' = [keys EXCEPT ![k].revoked = TRUE]
    /\ revokedKeys' = revokedKeys \cup {k}
    /\ UNCHANGED checks

ExpireKey(k) ==
    /\ keys[k].state = "live"
    /\ keys' = [keys EXCEPT ![k].state = "expired"]
    /\ UNCHANGED <<checks, revokedKeys>>

ApiKeyNext ==
    \/ \E k \in Keys : RevokeKey(k) \/ ExpireKey(k) \/ \E r \in Replicas : MintKey(r, k)
    \/ \E v \in Verifiers : Rehash(v) \/ Accept(v) \/ Done(v)
                            \/ \E r \in Replicas, k \in Keys : BeginVerify(v, r, k)

keyVars == <<keys, checks, revokedKeys>>

ApiKeySpec == ApiKeyInit /\ [][ApiKeyNext]_keyVars

-----------------------------------------------------------------------------

\* A revoked key stays dead and a good key stays verifiable while replicas with different
\* peppers rehash it concurrently: no verification that began after the revocation was
\* answered is under way or accepted, and the stored digest is always the one made under the
\* pepper version stored beside it (replaceHash swaps both, and only both, in one statement).
KeysSurviveRotation ==
    /\ \A v \in Verifiers : checks[v].pc /= "idle" => ~checks[v].late
    /\ \A k \in Keys : keys[k].hash = keys[k].version
=============================================================================
