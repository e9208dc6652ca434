------------------------------ MODULE OnceOnly ------------------------------
(***************************************************************************)
(* What every single-use credential of packages/auth promises: e-mailed    *)
(* tokens, OAuth states, passkey challenges and assertions, TOTP steps and *)
(* recovery codes are each accepted at most once.  `spent` is the set of   *)
(* credentials accepted so far, `count` the number of acceptances.         *)
(***************************************************************************)
EXTENDS Naturals

CONSTANT Credentials
VARIABLES spent, count

Init == spent = {} /\ count = 0

\* A credential is accepted: it never was before
Accept(c) == c \notin spent /\ spent' = spent \cup {c} /\ count' = count + 1

Next == \E c \in Credentials : Accept(c)

Spec == Init /\ [][Next]_<<spent, count>>
=============================================================================
