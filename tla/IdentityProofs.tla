--------------------------- MODULE IdentityProofs ---------------------------
(***************************************************************************)
(* The authorization server, API keys and logins through providers, for    *)
(* every number of concurrent calls, clients, users, scopes, codes, tokens,*)
(* keys, replicas and key sets: codes and hints work once, scopes were     *)
(* consented to, of the refresh tokens of a grant one works at a time and  *)
(* a reuse leaves none, revoked keys stay dead through a rotation of       *)
(* peppers, and an identity rests on what its provider said.               *)
(***************************************************************************)
EXTENDS OAuthServer, ApiKeys, Providers, SequenceTheorems, FiniteSetTheorems, WellFoundedInduction, TLAPS

\* What a call that issues tokens holds between two store operations, and what
\* one that issues a code does.
Issuance ==
    [pc : {"access", "refresh", "rotate", "check", "lost", "swept", "reuse"}, client : Clients,
     user : Users, scope : SUBSET Scopes, family : Nat, old : Nat, pair : SUBSET Nat]
Authorization == [pc : {"code"}, client : Clients, user : Users, scope : SUBSET Scopes]

Hint == [consumed : BOOLEAN, expired : BOOLEAN, completed : Nat]

\* The family, the new pair and the old token of a call exist; only the first
\* two steps of a code exchange come without an old token.
CallTypeOK(p) == exchanges[p] \in Issuance =>
    /\ exchanges[p].family \in DOMAIN families /\ exchanges[p].pair \subseteq DOMAIN tokens
    /\ \/ exchanges[p].old \in DOMAIN tokens
       \/ exchanges[p].old = 0 /\ exchanges[p].pc \in {"access", "refresh"}

StoreTypeOK ==
    /\ mix \in OAuthMixes
    /\ clients \in [Clients -> SUBSET Scopes]
    /\ consents \in [Clients \X Users -> SUBSET Scopes]
    /\ codes \in Seq(CodeRecord) /\ tokens \in Seq(TokenRecord)
    /\ families \in Seq(Nat) /\ hints \in Seq(Hint)
    /\ exchanges \in [Calls -> {Idle} \union Authorization \union Issuance]
    /\ held \subseteq DOMAIN tokens /\ reused \subseteq DOMAIN families /\ audits \subseteq DOMAIN families
    /\ \A t \in DOMAIN tokens : tokens[t].family \in DOMAIN families
    /\ \A p \in Calls : CallTypeOK(p)

-----------------------------------------------------------------------------
\* The store's sequences.

\* An insert leaves the records there are and adds one under a fresh id.
LEMMA Inserted ==
  ASSUME NEW S, NEW s \in Seq(S), NEW r \in S
  PROVE  /\ Append(s, r) \in Seq(S)
         /\ DOMAIN Append(s, r) = DOMAIN s \union {Len(s) + 1}
         /\ Len(s) + 1 \notin DOMAIN s /\ Len(s) + 1 \in Nat \ {0}
         /\ Append(s, r)[Len(s) + 1] = r
         /\ \A i \in DOMAIN s : Append(s, r)[i] = s[i]
<1>1. Len(s) \in Nat /\ DOMAIN s = 1..Len(s)
  BY LenProperties
<1>2. Append(s, r) \in Seq(S) /\ Len(Append(s, r)) = Len(s) + 1
  OBVIOUS
<1>3. DOMAIN Append(s, r) = 1..(Len(s) + 1)
  BY <1>1, <1>2
<1>4. Append(s, r)[Len(s) + 1] = r /\ \A i \in 1..Len(s) : Append(s, r)[i] = s[i]
  BY <1>1
<1> QED
  BY <1>1, <1>2, <1>3, <1>4

\* An update replaces records in place.
LEMMA Updated ==
  ASSUME NEW S, NEW s \in Seq(S), NEW f \in [DOMAIN s -> S]
  PROVE  f \in Seq(S)
<1>1. Len(s) \in Nat /\ DOMAIN s = 1..Len(s)
  BY LenProperties
<1>2. f \in [1..Len(s) -> S]
  BY <1>1
<1> QED
  BY <1>1, <1>2, SeqDef

\* Ids are natural numbers from 1 and name records of their type.
LEMMA Ids ==
  ASSUME NEW S, NEW s \in Seq(S)
  PROVE  /\ DOMAIN s \subseteq Nat \ {0} /\ s \in [DOMAIN s -> S]
         /\ Len(s) + 1 \notin DOMAIN s /\ \A i \in DOMAIN s : s[i] \in S
<1>1. Len(s) \in Nat /\ DOMAIN s = 1..Len(s) /\ s \in [1..Len(s) -> S]
  BY LenProperties
<1> QED
  BY <1>1

\* The calls that issue tokens.
LEMMA Issuers ==
  ASSUME StoreTypeOK, NEW p \in Calls
  PROVE  /\ exchanges[p].pc \in {"access", "refresh", "rotate", "check", "lost", "swept", "reuse"}
               => exchanges[p] \in Issuance
         /\ exchanges[p].pc = "code" => exchanges[p] \in Authorization
         /\ exchanges[p].pc # "idle" => exchanges[p] # Idle
         /\ Idle \notin Issuance
<1>1. exchanges[p] \in {Idle} \union Authorization \union Issuance
  BY DEF StoreTypeOK
<1>2. Idle.pc = "idle"
  BY DEF Idle
<1>3. \A e \in Authorization : e.pc = "code"
  BY DEF Authorization
<1>4. \A e \in Issuance : e.pc \in {"access", "refresh", "rotate", "check", "lost", "swept", "reuse"}
  BY DEF Issuance
<1> QED
  BY <1>1, <1>2, <1>3, <1>4

-----------------------------------------------------------------------------
\* Types.

LEMMA OAuthStart == OAuthInit => StoreTypeOK
<1> SUFFICES ASSUME OAuthInit PROVE StoreTypeOK
  OBVIOUS
<1>1. \A S : <<>> \in Seq(S) /\ DOMAIN <<>> = {}
  OBVIOUS
<1>2. codes \in Seq(CodeRecord) /\ tokens \in Seq(TokenRecord) /\ families \in Seq(Nat) /\ hints \in Seq(Hint)
  BY <1>1 DEF OAuthInit
<1>3. DOMAIN tokens = {} /\ held = {} /\ reused = {} /\ audits = {}
  BY <1>1 DEF OAuthInit
<1>4. /\ mix \in OAuthMixes /\ clients \in [Clients -> SUBSET Scopes]
      /\ consents \in [Clients \X Users -> SUBSET Scopes]
      /\ exchanges = [p \in Calls |-> Idle]
  BY DEF OAuthInit
<1>5. Idle \notin Issuance
  BY DEF Idle, Issuance
<1> QED
  BY <1>2, <1>3, <1>4, <1>5 DEF StoreTypeOK, CallTypeOK

\* Every update keeps the records' identity and never takes a revocation back.
TokensKeep ==
    /\ DOMAIN tokens' = DOMAIN tokens
    /\ \A t \in DOMAIN tokens :
          /\ tokens'[t].kind = tokens[t].kind /\ tokens'[t].client = tokens[t].client
          /\ tokens'[t].user = tokens[t].user /\ tokens'[t].scope = tokens[t].scope
          /\ tokens'[t].family = tokens[t].family
          /\ tokens[t].revoked => tokens'[t].revoked

\* revokeToken, rotateToken and the clock, on one token.
LEMMA TokenMarked ==
  ASSUME StoreTypeOK, NEW t \in DOMAIN tokens,
         \/ tokens' = RevokeToken(t) \/ tokens' = RotateToken(t)
         \/ tokens' = [tokens EXCEPT ![t].expired = TRUE]
  PROVE  /\ tokens' \in Seq(TokenRecord) /\ TokensKeep
         /\ tokens' = RotateToken(t) => tokens'[t].revoked
         /\ \A u \in DOMAIN tokens \ {t} : tokens'[u] = tokens[u]
<1>1. tokens \in Seq(TokenRecord) /\ tokens \in [DOMAIN tokens -> TokenRecord]
  BY Ids DEF StoreTypeOK
<1> DEFINE revoked == [tokens[t] EXCEPT !.revoked = TRUE]
           rotated == [tokens[t] EXCEPT !.revoked = TRUE, !.rotated = TRUE]
           expired == [tokens[t] EXCEPT !.expired = TRUE]
<1>2. \E r \in {revoked, rotated, expired} : tokens' = [tokens EXCEPT ![t] = r]
  BY DEF RevokeToken, RotateToken
<1>3. tokens[t] \in TokenRecord
  BY <1>1
<1>4. ASSUME NEW r \in {revoked, rotated, expired}
      PROVE  /\ r \in TokenRecord
             /\ r.kind = tokens[t].kind /\ r.client = tokens[t].client /\ r.user = tokens[t].user
             /\ r.scope = tokens[t].scope /\ r.family = tokens[t].family
             /\ tokens[t].revoked => r.revoked
  BY <1>3 DEF TokenRecord
<1>5. rotated.revoked
  BY <1>3 DEF TokenRecord
<1>6. tokens' = RotateToken(t) => tokens' = [tokens EXCEPT ![t] = rotated]
  BY DEF RotateToken
<1> HIDE DEF revoked, rotated, expired
<1>7. PICK r \in {revoked, rotated, expired} : tokens' = [tokens EXCEPT ![t] = r]
  BY <1>2
<1>8. tokens' \in [DOMAIN tokens -> TokenRecord]
  BY <1>1, <1>4, <1>7
<1>9. tokens' \in Seq(TokenRecord)
  BY <1>1, <1>8, Updated
<1>10. TokensKeep /\ \A u \in DOMAIN tokens \ {t} : tokens'[u] = tokens[u]
  BY <1>1, <1>4, <1>7 DEF TokensKeep
<1>11. tokens' = RotateToken(t) => tokens'[t].revoked
  BY <1>5, <1>6
<1> QED
  BY <1>9, <1>10, <1>11

\* revokeFamily.
LEMMA FamilyRevoked ==
  ASSUME StoreTypeOK, NEW f, tokens' = RevokeFamily(f)
  PROVE  /\ tokens' \in Seq(TokenRecord) /\ TokensKeep
         /\ \A t \in DOMAIN tokens : tokens[t].family = f => tokens'[t].revoked
<1>1. tokens \in Seq(TokenRecord) /\ tokens \in [DOMAIN tokens -> TokenRecord]
  BY Ids DEF StoreTypeOK
<1>2. tokens' \in [DOMAIN tokens -> TokenRecord]
  BY <1>1 DEF RevokeFamily, TokenRecord
<1>3. tokens' \in Seq(TokenRecord)
  BY <1>1, <1>2, Updated
<1>4. \A t \in DOMAIN tokens : tokens'[t] = IF t \in LiveOf(f) THEN [tokens[t] EXCEPT !.revoked = TRUE] ELSE tokens[t]
  BY DEF RevokeFamily
<1>5. TokensKeep
  BY <1>1, <1>2, <1>4 DEF TokenRecord, TokensKeep
<1>6. ASSUME NEW t \in DOMAIN tokens, tokens[t].family = f PROVE tokens'[t].revoked
  <2>1. CASE t \in LiveOf(f)
    BY <1>1, <1>4, <2>1 DEF TokenRecord
  <2>2. CASE t \notin LiveOf(f)
    BY <1>4, <1>6, <2>2 DEF LiveOf
  <2> QED
    BY <2>1, <2>2
<1> QED
  BY <1>3, <1>5, <1>6

\* putToken, by a call that issues: a fresh live token with what the call holds.
LEMMA TokenMinted ==
  ASSUME StoreTypeOK, NEW p \in Calls, exchanges[p] \in Issuance, NEW kind \in {"access", "refresh"},
         tokens' = Mint(p, kind)
  PROVE  LET n == Len(tokens) + 1 IN
         /\ tokens' \in Seq(TokenRecord)
         /\ DOMAIN tokens' = DOMAIN tokens \union {n} /\ n \notin DOMAIN tokens /\ n \in Nat \ {0}
         /\ \A t \in DOMAIN tokens : tokens'[t] = tokens[t]
         /\ tokens'[n].kind = kind /\ tokens'[n].family = exchanges[p].family
         /\ tokens'[n].client = exchanges[p].client /\ tokens'[n].user = exchanges[p].user
         /\ tokens'[n].scope = exchanges[p].scope /\ ~tokens'[n].revoked
<1> DEFINE e == exchanges[p]
           r == [kind |-> kind, client |-> e.client, user |-> e.user, scope |-> e.scope,
                 family |-> e.family, revoked |-> FALSE, rotated |-> FALSE, expired |-> FALSE]
<1>1. tokens' = Append(tokens, r) /\ tokens \in Seq(TokenRecord)
  BY DEF Mint, PutTokenRecord, StoreTypeOK
<1>2. r \in TokenRecord
  BY DEF Issuance, TokenRecord
<1>3. /\ r.kind = kind /\ r.client = e.client /\ r.user = e.user /\ r.scope = e.scope
      /\ r.family = e.family /\ ~r.revoked
  OBVIOUS
<1> HIDE DEF r
<1>4. /\ tokens' \in Seq(TokenRecord)
      /\ DOMAIN tokens' = DOMAIN tokens \union {Len(tokens) + 1}
      /\ Len(tokens) + 1 \notin DOMAIN tokens /\ Len(tokens) + 1 \in Nat \ {0}
      /\ tokens'[Len(tokens) + 1] = r
      /\ \A i \in DOMAIN tokens : tokens'[i] = tokens[i]
  BY <1>1, <1>2, Inserted
<1> QED
  BY <1>3, <1>4

\* A code or a hint marked as consumed or expired stays a code or a hint.
LEMMA CodesMarked ==
  ASSUME StoreTypeOK, NEW k \in DOMAIN codes,
         codes' = Consume(k) \/ codes' = [codes EXCEPT ![k].expired = TRUE]
  PROVE  /\ codes' \in Seq(CodeRecord) /\ DOMAIN codes' = DOMAIN codes
         /\ \A i \in DOMAIN codes : /\ codes'[i].client = codes[i].client /\ codes'[i].user = codes[i].user
                                    /\ codes'[i].scope = codes[i].scope
                                    /\ codes[i].consumed => codes'[i].consumed
         /\ codes' = Consume(k) => codes'[k].consumed
<1>1. codes \in Seq(CodeRecord) /\ codes \in [DOMAIN codes -> CodeRecord]
  BY Ids DEF StoreTypeOK
<1> DEFINE consumed == [codes[k] EXCEPT !.consumed = TRUE]
           expired == [codes[k] EXCEPT !.expired = TRUE]
<1>2. \E r \in {consumed, expired} : codes' = [codes EXCEPT ![k] = r]
  BY DEF Consume
<1>3. codes[k] \in CodeRecord
  BY <1>1
<1>4. ASSUME NEW r \in {consumed, expired}
      PROVE  /\ r \in CodeRecord /\ r.client = codes[k].client /\ r.user = codes[k].user
             /\ r.scope = codes[k].scope /\ (codes[k].consumed => r.consumed)
  BY <1>3 DEF CodeRecord
<1>5. consumed.consumed
  BY <1>3 DEF CodeRecord
<1>6. codes' = Consume(k) => codes' = [codes EXCEPT ![k] = consumed]
  BY DEF Consume
<1> HIDE DEF consumed, expired
<1>7. PICK r \in {consumed, expired} : codes' = [codes EXCEPT ![k] = r]
  BY <1>2
<1>8. codes' \in [DOMAIN codes -> CodeRecord]
  BY <1>1, <1>4, <1>7
<1>9. codes' \in Seq(CodeRecord)
  BY <1>1, <1>8, Updated
<1>10. DOMAIN codes' = DOMAIN codes
  BY <1>8
<1>11. \A i \in DOMAIN codes : /\ codes'[i].client = codes[i].client /\ codes'[i].user = codes[i].user
                               /\ codes'[i].scope = codes[i].scope
                               /\ codes[i].consumed => codes'[i].consumed
  BY <1>1, <1>4, <1>7
<1>12. codes' = Consume(k) => codes'[k].consumed
  BY <1>1, <1>5, <1>6
<1> QED
  BY <1>9, <1>10, <1>11, <1>12

LEMMA HintsMarked ==
  ASSUME StoreTypeOK, NEW h \in DOMAIN hints,
         \/ hints' = [hints EXCEPT ![h] = [consumed |-> TRUE, expired |-> FALSE,
                                        completed |-> hints[h].completed + 1]]
         \/ hints' = [hints EXCEPT ![h].expired = TRUE]
  PROVE  /\ hints' \in Seq(Hint) /\ DOMAIN hints' = DOMAIN hints
         /\ \A i \in DOMAIN hints : i # h => hints'[i] = hints[i]
         /\ \/ hints'[h].consumed = TRUE /\ hints'[h].completed = hints[h].completed + 1
            \/ hints'[h].consumed = hints[h].consumed /\ hints'[h].completed = hints[h].completed
<1>1. hints \in Seq(Hint) /\ hints \in [DOMAIN hints -> Hint]
  BY Ids DEF StoreTypeOK
<1> DEFINE completed == [consumed |-> TRUE, expired |-> FALSE, completed |-> hints[h].completed + 1]
           expired == [hints[h] EXCEPT !.expired = TRUE]
<1>2. \E r \in {completed, expired} : hints' = [hints EXCEPT ![h] = r]
  OBVIOUS
<1>3. hints[h] \in Hint
  BY <1>1
<1>4. ASSUME NEW r \in {completed, expired}
      PROVE  /\ r \in Hint
             /\ \/ r.consumed = TRUE /\ r.completed = hints[h].completed + 1
                \/ r.consumed = hints[h].consumed /\ r.completed = hints[h].completed
  <2>1. hints[h].completed + 1 \in Nat
    BY <1>3 DEF Hint
  <2>2. completed \in Hint
    BY <2>1 DEF Hint
  <2>3. completed.consumed = TRUE /\ completed.completed = hints[h].completed + 1
    OBVIOUS
  <2>4. expired \in Hint /\ expired.consumed = hints[h].consumed /\ expired.completed = hints[h].completed
    BY <1>3 DEF Hint
  <2> QED
    BY <2>2, <2>3, <2>4
<1> HIDE DEF completed, expired
<1>5. PICK r \in {completed, expired} : hints' = [hints EXCEPT ![h] = r]
  BY <1>2
<1>6. hints' \in [DOMAIN hints -> Hint]
  BY <1>1, <1>4, <1>5
<1>7. hints' \in Seq(Hint)
  BY <1>1, <1>6, Updated
<1>8. hints'[h] = r /\ \A i \in DOMAIN hints : i # h => hints'[i] = hints[i]
  BY <1>1, <1>5
<1> QED
  BY <1>4, <1>6, <1>7, <1>8

\* A call that issues goes on to its next store operation, with the same grant.
LEMMA CallMoved ==
  ASSUME StoreTypeOK, NEW p \in Calls, exchanges[p] \in Issuance,
         NEW pc \in {"access", "refresh", "rotate", "check", "lost", "swept", "reuse"},
         NEW pair \in SUBSET Nat,
         \/ exchanges' = [exchanges EXCEPT ![p].pc = pc, ![p].pair = pair]
         \/ exchanges' = [exchanges EXCEPT ![p].pc = pc] /\ pair = exchanges[p].pair
  PROVE  /\ exchanges' \in [Calls -> {Idle} \union Authorization \union Issuance]
         /\ exchanges'[p] \in Issuance /\ exchanges'[p].pc = pc /\ exchanges'[p].pair = pair
         /\ exchanges'[p].client = exchanges[p].client /\ exchanges'[p].user = exchanges[p].user
         /\ exchanges'[p].scope = exchanges[p].scope /\ exchanges'[p].family = exchanges[p].family
         /\ exchanges'[p].old = exchanges[p].old
         /\ \A q \in Calls \ {p} : exchanges'[q] = exchanges[q]
<1> DEFINE e == exchanges[p]
           only == [e EXCEPT !.pc = pc]
           both == [only EXCEPT !.pair = pair]
<1>1. exchanges \in [Calls -> {Idle} \union Authorization \union Issuance]
  BY DEF StoreTypeOK
<1>2. \/ exchanges' = [exchanges EXCEPT ![p] = both]
      \/ exchanges' = [exchanges EXCEPT ![p] = only] /\ pair = e.pair
  OBVIOUS
<1>3. /\ only \in Issuance /\ only.pc = pc /\ only.pair = e.pair /\ only.client = e.client
      /\ only.user = e.user /\ only.scope = e.scope /\ only.family = e.family /\ only.old = e.old
  <2>1. only = [pc |-> pc, client |-> e.client, user |-> e.user, scope |-> e.scope, family |-> e.family,
               old |-> e.old, pair |-> e.pair]
    BY DEF Issuance
  <2>2. /\ e.client \in Clients /\ e.user \in Users /\ e.scope \in SUBSET Scopes /\ e.family \in Nat
        /\ e.old \in Nat /\ e.pair \in SUBSET Nat
    BY DEF Issuance
  <2> HIDE DEF e, only
  <2>3. only \in Issuance
    BY <2>1, <2>2 DEF Issuance
  <2> QED
    BY <2>1, <2>3
<1>4. /\ both \in Issuance /\ both.pc = pc /\ both.pair = pair /\ both.client = e.client
      /\ both.user = e.user /\ both.scope = e.scope /\ both.family = e.family /\ both.old = e.old
  <2> HIDE DEF only
  <2>1. both = [pc |-> only.pc, client |-> only.client, user |-> only.user, scope |-> only.scope,
                family |-> only.family, old |-> only.old, pair |-> pair]
    BY <1>3 DEF Issuance
  <2> HIDE DEF both
  <2>2. both = [pc |-> pc, client |-> e.client, user |-> e.user, scope |-> e.scope, family |-> e.family,
                old |-> e.old, pair |-> pair]
    BY <1>3, <2>1
  <2>3. /\ e.client \in Clients /\ e.user \in Users /\ e.scope \in SUBSET Scopes /\ e.family \in Nat
        /\ e.old \in Nat
    BY DEF Issuance
  <2> HIDE DEF e
  <2>4. both \in Issuance
    BY <2>2, <2>3 DEF Issuance
  <2> QED
    BY <2>2, <2>4
<1> HIDE DEF both, only
<1>5. CASE exchanges' = [exchanges EXCEPT ![p] = both]
  BY <1>1, <1>4, <1>5
<1>6. CASE exchanges' = [exchanges EXCEPT ![p] = only] /\ pair = e.pair
  BY <1>1, <1>3, <1>6
<1> QED
  BY <1>2, <1>5, <1>6

\* A call begins or ends.
LEMMA CallSet ==
  ASSUME StoreTypeOK, NEW p \in Calls, NEW e \in {Idle} \union Authorization \union Issuance,
         exchanges' = [exchanges EXCEPT ![p] = e]
  PROVE  /\ exchanges' \in [Calls -> {Idle} \union Authorization \union Issuance]
         /\ exchanges'[p] = e /\ \A q \in Calls \ {p} : exchanges'[q] = exchanges[q]
<1>1. exchanges \in [Calls -> {Idle} \union Authorization \union Issuance]
  BY DEF StoreTypeOK
<1> QED
  BY <1>1

\* The type of a step that leaves clients and consents alone and whose calls
\* keep to what there is.
LEMMA TypeFrame ==
  ASSUME StoreTypeOK, UNCHANGED <<mix, clients, consents>>,
         codes' \in Seq(CodeRecord), hints' \in Seq(Hint), tokens' \in Seq(TokenRecord), families' \in Seq(Nat),
         DOMAIN families \subseteq DOMAIN families', DOMAIN tokens \subseteq DOMAIN tokens',
         exchanges' \in [Calls -> {Idle} \union Authorization \union Issuance],
         held' \subseteq DOMAIN tokens', reused' \subseteq DOMAIN families', audits' \subseteq DOMAIN families',
         \A t \in DOMAIN tokens' : tokens'[t].family \in DOMAIN families',
         \A p \in Calls : CallTypeOK(p)' \/ exchanges'[p] = exchanges[p]
  PROVE  StoreTypeOK'
<1>1. \A p \in Calls : CallTypeOK(p)'
  BY DEF StoreTypeOK, CallTypeOK
<1> QED
  BY <1>1 DEF StoreTypeOK

LEMMA TypeOfClients ==
  ASSUME StoreTypeOK,
         \/ \E c \in Clients, s \in SUBSET mix.scopes : RegisterClient(c, s)
         \/ \E c \in Clients, u \in Users, s \in SUBSET mix.scopes : GrantConsent(c, u, s)
         \/ \E p \in Calls, c \in Clients, u \in Users, s \in SUBSET mix.scopes : AuthorizeBegin(p, c, u, s)
         \/ \E p \in Calls : AuthorizeStore(p) \/ CallFails(p)
  PROVE  StoreTypeOK'
<1>1. \A s \in SUBSET mix.scopes : s \in SUBSET Scopes
  BY OAuthAssumption DEF StoreTypeOK
<1>2. ASSUME NEW c \in Clients, NEW s \in SUBSET mix.scopes, RegisterClient(c, s) PROVE StoreTypeOK'
  BY <1>1, <1>2 DEF StoreTypeOK, CallTypeOK, RegisterClient, PutClient
<1>3. ASSUME NEW c \in Clients, NEW u \in Users, NEW s \in SUBSET mix.scopes, GrantConsent(c, u, s)
      PROVE  StoreTypeOK'
  <2>1. consents' \in [Clients \X Users -> SUBSET Scopes]
    BY <1>1, <1>3 DEF StoreTypeOK, GrantConsent, PutConsent
  <2> QED
    BY <2>1, <1>3 DEF StoreTypeOK, CallTypeOK, GrantConsent
<1>4. ASSUME NEW p \in Calls, NEW c \in Clients, NEW u \in Users, NEW s \in SUBSET mix.scopes,
             AuthorizeBegin(p, c, u, s)
      PROVE  StoreTypeOK'
  <2> DEFINE e == [pc |-> "code", client |-> c, user |-> u, scope |-> s]
  <2>1. e \in Authorization /\ e \notin Issuance
    BY <1>1 DEF Authorization, Issuance
  <2>2. exchanges' = [exchanges EXCEPT ![p] = e]
    BY <1>4 DEF AuthorizeBegin
  <2> HIDE DEF e
  <2>3. /\ exchanges' \in [Calls -> {Idle} \union Authorization \union Issuance]
        /\ exchanges'[p] = e /\ \A q \in Calls \ {p} : exchanges'[q] = exchanges[q]
    BY <2>1, <2>2, CallSet
  <2> QED
    BY <1>4, <2>1, <2>3 DEF StoreTypeOK, AuthorizeBegin, CallTypeOK
<1>5. ASSUME NEW p \in Calls, exchanges' = [exchanges EXCEPT ![p] = Idle]
      PROVE  /\ exchanges' \in [Calls -> {Idle} \union Authorization \union Issuance]
             /\ \A q \in Calls : exchanges'[q] \in Issuance => exchanges'[q] = exchanges[q]
  <2>1. /\ exchanges' \in [Calls -> {Idle} \union Authorization \union Issuance]
        /\ exchanges'[p] = Idle /\ \A q \in Calls \ {p} : exchanges'[q] = exchanges[q]
    BY <1>5, CallSet
  <2>2. Idle \notin Issuance
    BY DEF Idle, Issuance
  <2> QED
    BY <2>1, <2>2
<1>6. ASSUME NEW p \in Calls, AuthorizeStore(p) PROVE StoreTypeOK'
  <2> DEFINE e == exchanges[p]
             r == [client |-> e.client, user |-> e.user, scope |-> e.scope, consumed |-> FALSE, expired |-> FALSE]
  <2>1. e \in Authorization
    BY <1>6, Issuers DEF AuthorizeStore
  <2>2. r \in CodeRecord
    BY <2>1 DEF Authorization, CodeRecord
  <2>3. codes' = Append(codes, r)
    BY <1>6 DEF AuthorizeStore, PutCode
  <2> HIDE DEF r
  <2>4. codes' \in Seq(CodeRecord)
    BY <2>2, <2>3, Inserted DEF StoreTypeOK
  <2> QED
    BY <1>5, <1>6, <2>4 DEF StoreTypeOK, AuthorizeStore, CallTypeOK
<1>7. ASSUME NEW p \in Calls, CallFails(p) PROVE StoreTypeOK'
  BY <1>5, <1>7 DEF StoreTypeOK, CallFails, CallTypeOK
<1> QED
  BY <1>2, <1>3, <1>4, <1>6, <1>7

\* Ids that calls hold are natural numbers.
LEMMA IdsAreNat == StoreTypeOK => DOMAIN tokens \subseteq Nat \ {0} /\ DOMAIN codes \subseteq Nat \ {0}
                                  /\ Len(tokens) + 1 \in Nat \ {0} /\ Len(families) + 1 \in Nat \ {0}
<1> SUFFICES ASSUME StoreTypeOK PROVE DOMAIN tokens \subseteq Nat \ {0} /\ DOMAIN codes \subseteq Nat \ {0}
                                  /\ Len(tokens) + 1 \in Nat \ {0} /\ Len(families) + 1 \in Nat \ {0}
  OBVIOUS
<1>1. DOMAIN tokens \subseteq Nat \ {0} /\ DOMAIN codes \subseteq Nat \ {0}
  BY Ids DEF StoreTypeOK
<1>2. Len(tokens) \in Nat /\ Len(families) \in Nat
  BY LenProperties DEF StoreTypeOK
<1> QED
  BY <1>1, <1>2

\* issueTokens: the access token, then the refresh token.
LEMMA AccessPut ==
  ASSUME StoreTypeOK, NEW p \in Calls, PutAccess(p)
  PROVE  LET e == exchanges[p]
             n == Len(tokens) + 1
         IN
         /\ e \in Issuance /\ e.pc = "access" /\ tokens' = Mint(p, "access")
         /\ exchanges' \in [Calls -> {Idle} \union Authorization \union Issuance]
         /\ exchanges'[p] \in Issuance /\ exchanges'[p].pc = "refresh" /\ exchanges'[p].pair = {n}
         /\ exchanges'[p].client = e.client /\ exchanges'[p].user = e.user
         /\ exchanges'[p].scope = e.scope /\ exchanges'[p].family = e.family /\ exchanges'[p].old = e.old
         /\ \A q \in Calls \ {p} : exchanges'[q] = exchanges[q]
<1> DEFINE n == Len(tokens) + 1
<1>1. exchanges[p] \in Issuance /\ exchanges[p].pc = "access"
  BY Issuers DEF PutAccess
<1>2. {n} \in SUBSET Nat
  BY IdsAreNat
<1>3. exchanges' = [exchanges EXCEPT ![p].pc = "refresh", ![p].pair = {n}]
  BY Zenon DEF PutAccess
<1> HIDE DEF n
<1>4. /\ exchanges' \in [Calls -> {Idle} \union Authorization \union Issuance]
      /\ exchanges'[p] \in Issuance /\ exchanges'[p].pc = "refresh" /\ exchanges'[p].pair = {n}
      /\ exchanges'[p].client = exchanges[p].client /\ exchanges'[p].user = exchanges[p].user
      /\ exchanges'[p].scope = exchanges[p].scope /\ exchanges'[p].family = exchanges[p].family
      /\ exchanges'[p].old = exchanges[p].old
      /\ \A q \in Calls \ {p} : exchanges'[q] = exchanges[q]
  BY <1>1, <1>2, <1>3, CallMoved, Zenon
<1>5. tokens' = Mint(p, "access")
  BY DEF PutAccess
<1> QED
  BY <1>1, <1>4, <1>5 DEF n

LEMMA RefreshPut ==
  ASSUME StoreTypeOK, NEW p \in Calls, PutRefresh(p)
  PROVE  LET e == exchanges[p]
             pair == e.pair \union {Len(tokens) + 1}
         IN
         /\ e \in Issuance /\ e.pc = "refresh" /\ tokens' = Mint(p, "refresh") /\ pair \in SUBSET Nat
         /\ exchanges' \in [Calls -> {Idle} \union Authorization \union Issuance]
         /\ \A q \in Calls \ {p} : exchanges'[q] = exchanges[q]
         /\ e.old = 0 => exchanges'[p] = Idle /\ held' = held \union pair
         /\ e.old # 0 =>
               /\ held' = held
               /\ exchanges'[p] \in Issuance /\ exchanges'[p].pc = "rotate" /\ exchanges'[p].pair = pair
               /\ exchanges'[p].client = e.client /\ exchanges'[p].user = e.user
               /\ exchanges'[p].scope = e.scope /\ exchanges'[p].family = e.family /\ exchanges'[p].old = e.old
<1> DEFINE pair == exchanges[p].pair \union {Len(tokens) + 1}
<1>1. exchanges[p] \in Issuance /\ exchanges[p].pc = "refresh"
  BY Issuers DEF PutRefresh
<1>2. pair \in SUBSET Nat
  BY <1>1, IdsAreNat DEF Issuance
<1>3. /\ exchanges[p].old = 0 => exchanges' = [exchanges EXCEPT ![p] = Idle] /\ held' = held \union pair
      /\ exchanges[p].old # 0 => /\ exchanges' = [exchanges EXCEPT ![p].pc = "rotate", ![p].pair = pair]
                                 /\ held' = held
  BY DEF PutRefresh
<1> HIDE DEF pair
<1>4. CASE exchanges[p].old = 0
  <2>1. /\ exchanges' \in [Calls -> {Idle} \union Authorization \union Issuance]
        /\ exchanges'[p] = Idle /\ \A q \in Calls \ {p} : exchanges'[q] = exchanges[q]
    BY <1>3, <1>4, CallSet
  <2> QED
    BY <1>1, <1>2, <1>3, <1>4, <2>1 DEF PutRefresh, pair
<1>5. CASE exchanges[p].old # 0
  <2>1. /\ exchanges' \in [Calls -> {Idle} \union Authorization \union Issuance]
        /\ exchanges'[p] \in Issuance /\ exchanges'[p].pc = "rotate" /\ exchanges'[p].pair = pair
        /\ exchanges'[p].client = exchanges[p].client /\ exchanges'[p].user = exchanges[p].user
        /\ exchanges'[p].scope = exchanges[p].scope /\ exchanges'[p].family = exchanges[p].family
        /\ exchanges'[p].old = exchanges[p].old
        /\ \A q \in Calls \ {p} : exchanges'[q] = exchanges[q]
    BY <1>1, <1>2, <1>3, <1>5, CallMoved
  <2> QED
    BY <1>1, <1>2, <1>3, <1>5, <2>1 DEF PutRefresh, pair
<1> QED
  BY <1>4, <1>5

\* A sweep of the family of call p, which ends.
LEMMA Swept ==
  ASSUME StoreTypeOK, NEW p \in Calls, ReuseDetected(p) \/ LostRotation(p) \/ RefuseSwept(p)
  PROVE  /\ exchanges[p] \in Issuance /\ exchanges[p].pc \in {"reuse", "lost", "swept"}
         /\ exchanges' \in [Calls -> {Idle} \union Authorization \union Issuance]
         /\ exchanges'[p] = Idle /\ \A q \in Calls \ {p} : exchanges'[q] = exchanges[q]
         /\ tokens' = RevokeFamily(exchanges[p].family) /\ held' = held /\ families' = families
         /\ reused' \subseteq reused \union {exchanges[p].family}
         /\ reused' # reused => exchanges[p].pc \in {"reuse", "lost"}
<1>1. exchanges[p] \in Issuance /\ exchanges[p].pc \in {"reuse", "lost", "swept"}
  BY Issuers DEF ReuseDetected, LostRotation, RefuseSwept
<1>2. PICK isReuse : Sweep(p, isReuse) /\ (isReuse => exchanges[p].pc # "swept")
  <2>1. CASE ReuseDetected(p)
    <3>1. Sweep(p, TRUE) /\ exchanges[p].pc # "swept"
      BY <2>1 DEF ReuseDetected
    <3> QED
      BY <3>1
  <2>2. CASE LostRotation(p)
    <3>1. Sweep(p, tokens[exchanges[p].old].rotated) /\ exchanges[p].pc # "swept"
      BY <2>2 DEF LostRotation
    <3> QED
      BY <3>1
  <2>3. CASE RefuseSwept(p)
    <3>1. Sweep(p, FALSE)
      BY <2>3 DEF RefuseSwept
    <3> QED
      BY <3>1
  <2> QED
    BY <2>1, <2>2, <2>3
<1>3. /\ tokens' = RevokeFamily(exchanges[p].family) /\ held' = held /\ families' = families
      /\ exchanges' = [exchanges EXCEPT ![p] = Idle]
      /\ reused' = IF isReuse THEN reused \union {exchanges[p].family} ELSE reused
  BY <1>2 DEF Sweep
<1>4. /\ exchanges' \in [Calls -> {Idle} \union Authorization \union Issuance]
      /\ exchanges'[p] = Idle /\ \A q \in Calls \ {p} : exchanges'[q] = exchanges[q]
  BY <1>3, CallSet
<1>5. reused' # reused => exchanges[p].pc \in {"reuse", "lost"}
  BY <1>1, <1>2, <1>3
<1> QED
  BY <1>1, <1>3, <1>4, <1>5

\* exchangeCode: the code is consumed and, when the request matches it, a
\* family of its own begins.
LEMMA CodeExchanged ==
  ASSUME StoreTypeOK, NEW p \in Calls, NEW c \in Clients, NEW k \in DOMAIN codes, NEW m, ExchangeCode(p, c, k, m)
  PROVE  LET f == Len(families) + 1 IN
         /\ ~codes[k].consumed /\ codes' = Consume(k) /\ f \notin DOMAIN families
         /\ exchanges' \in [Calls -> {Idle} \union Authorization \union Issuance]
         /\ \A q \in Calls \ {p} : exchanges'[q] = exchanges[q]
         /\ \/ families' = families /\ exchanges' = exchanges
            \/ /\ families' \in Seq(Nat) /\ DOMAIN families' = DOMAIN families \union {f} /\ families'[f] = k
               /\ \A g \in DOMAIN families : families'[g] = families[g]
               /\ exchanges'[p] \in Issuance /\ exchanges'[p].pc = "access" /\ exchanges'[p].family = f
               /\ exchanges'[p].old = 0 /\ exchanges'[p].pair = {} /\ codes[k].client = exchanges'[p].client
               /\ exchanges'[p].user = codes[k].user /\ exchanges'[p].scope = codes[k].scope
<1> DEFINE f == Len(families) + 1
           e == [pc |-> "access", client |-> c, user |-> codes[k].user, scope |-> codes[k].scope, family |-> f,
                 old |-> 0, pair |-> {}]
<1>1. k \in Nat /\ codes[k] \in CodeRecord /\ f \in Nat
  BY IdsAreNat, Ids DEF StoreTypeOK
<1>2. ~codes[k].consumed /\ codes' = Consume(k)
  BY DEF ExchangeCode, CodeIsLive
<1>3. families \in Seq(Nat) /\ f \notin DOMAIN families
  BY Ids DEF StoreTypeOK
<1>4. \/ families' = families /\ exchanges' = exchanges
      \/ /\ families' = Append(families, k) /\ codes[k].client = c
         /\ exchanges' = [exchanges EXCEPT ![p] = e]
  BY DEF ExchangeCode
<1>5. /\ e \in Issuance /\ e.pc = "access" /\ e.family = f /\ e.old = 0 /\ e.pair = {} /\ e.client = c
      /\ e.user = codes[k].user /\ e.scope = codes[k].scope
  BY <1>1 DEF Issuance, CodeRecord
<1> HIDE DEF e
<1>6. CASE families' = families /\ exchanges' = exchanges
  BY <1>2, <1>3, <1>6 DEF StoreTypeOK
<1>7. CASE families' = Append(families, k) /\ codes[k].client = c /\ exchanges' = [exchanges EXCEPT ![p] = e]
  <2>1. /\ families' \in Seq(Nat) /\ DOMAIN families' = DOMAIN families \union {f} /\ families'[f] = k
        /\ \A g \in DOMAIN families : families'[g] = families[g]
    BY <1>1, <1>3, <1>7, Inserted
  <2>2. /\ exchanges' \in [Calls -> {Idle} \union Authorization \union Issuance]
        /\ exchanges'[p] = e /\ \A q \in Calls \ {p} : exchanges'[q] = exchanges[q]
    BY <1>5, <1>7, CallSet
  <2> QED
    BY <1>2, <1>3, <1>5, <1>7, <2>1, <2>2
<1> QED
  BY <1>4, <1>6, <1>7

\* refresh: the call holds the token that was presented, and its family.
LEMMA Refreshing ==
  ASSUME StoreTypeOK, NEW p \in Calls, NEW c \in Clients, NEW t \in DOMAIN tokens, Refresh(p, c, t)
  PROVE  /\ t \in held /\ tokens[t].kind = "refresh" /\ t \in Nat \ {0} /\ tokens[t].family \in DOMAIN families
         /\ exchanges' \in [Calls -> {Idle} \union Authorization \union Issuance]
         /\ \A q \in Calls \ {p} : exchanges'[q] = exchanges[q]
         /\ exchanges[p] = Idle
         /\ exchanges'[p] \in Issuance /\ exchanges'[p].pc \in {"reuse", "access"} /\ exchanges'[p].old = t
         /\ exchanges'[p].pair = {} /\ exchanges'[p].family = tokens[t].family
         /\ exchanges'[p].client = tokens[t].client /\ exchanges'[p].user = tokens[t].user
         /\ exchanges'[p].scope = tokens[t].scope
<1> DEFINE e == [pc |-> IF tokens[t].revoked THEN "reuse" ELSE "access", client |-> c, user |-> tokens[t].user,
                 scope |-> tokens[t].scope, family |-> tokens[t].family, old |-> t, pair |-> {}]
<1>1. t \in Nat \ {0} /\ tokens[t] \in TokenRecord /\ tokens[t].family \in DOMAIN families
  BY IdsAreNat, Ids DEF StoreTypeOK
<1>2. /\ t \in held /\ tokens[t].kind = "refresh" /\ tokens[t].client = c /\ exchanges[p] = Idle
      /\ exchanges' = [exchanges EXCEPT ![p] = e]
  BY DEF Refresh, Presentable
<1>3. /\ e \in Issuance /\ e.pc \in {"reuse", "access"} /\ e.old = t /\ e.pair = {}
      /\ e.family = tokens[t].family /\ e.client = c /\ e.user = tokens[t].user /\ e.scope = tokens[t].scope
  BY <1>1 DEF Issuance, TokenRecord
<1> HIDE DEF e
<1>4. /\ exchanges' \in [Calls -> {Idle} \union Authorization \union Issuance]
      /\ exchanges'[p] = e /\ \A q \in Calls \ {p} : exchanges'[q] = exchanges[q]
  BY <1>2, <1>3, CallSet
<1> QED
  BY <1>1, <1>2, <1>3, <1>4

\* rotateToken and the check after it keep what the call holds.
LEMMA Rotated ==
  ASSUME StoreTypeOK, NEW p \in Calls, Rotate(p)
  PROVE  /\ exchanges[p] \in Issuance /\ exchanges[p].pc = "rotate"
         /\ exchanges' \in [Calls -> {Idle} \union Authorization \union Issuance]
         /\ exchanges'[p] \in Issuance /\ exchanges'[p].pair = exchanges[p].pair
         /\ exchanges'[p].client = exchanges[p].client /\ exchanges'[p].user = exchanges[p].user
         /\ exchanges'[p].scope = exchanges[p].scope /\ exchanges'[p].family = exchanges[p].family
         /\ exchanges'[p].old = exchanges[p].old
         /\ \A q \in Calls \ {p} : exchanges'[q] = exchanges[q]
         /\ \/ exchanges'[p].pc = "lost" /\ tokens' = tokens
            \/ /\ exchanges'[p].pc = "check" /\ ~tokens[exchanges[p].old].revoked
               /\ tokens' = RotateToken(exchanges[p].old)
<1>1. exchanges[p] \in Issuance /\ exchanges[p].pc = "rotate"
  BY Issuers DEF Rotate
<1>2. PICK pc \in {"lost", "check"} :
         /\ exchanges' = [exchanges EXCEPT ![p].pc = pc]
         /\ \/ pc = "lost" /\ tokens' = tokens
            \/ pc = "check" /\ ~tokens[exchanges[p].old].revoked /\ tokens' = RotateToken(exchanges[p].old)
  BY DEF Rotate
<1>3. exchanges[p].pair \in SUBSET Nat
  BY <1>1 DEF Issuance
<1>4. ASSUME NEW new \in {"lost", "check"}, exchanges' = [exchanges EXCEPT ![p].pc = new]
      PROVE  /\ exchanges' \in [Calls -> {Idle} \union Authorization \union Issuance]
             /\ exchanges'[p] \in Issuance /\ exchanges'[p].pc = new /\ exchanges'[p].pair = exchanges[p].pair
             /\ exchanges'[p].client = exchanges[p].client /\ exchanges'[p].user = exchanges[p].user
             /\ exchanges'[p].scope = exchanges[p].scope /\ exchanges'[p].family = exchanges[p].family
             /\ exchanges'[p].old = exchanges[p].old
             /\ \A q \in Calls \ {p} : exchanges'[q] = exchanges[q]
  <2>1. CASE new = "lost"
    <3>1. exchanges' = [exchanges EXCEPT ![p].pc = "lost"]
      BY <1>4, <2>1
    <3>2. /\ exchanges' \in [Calls -> {Idle} \union Authorization \union Issuance]
          /\ exchanges'[p] \in Issuance /\ exchanges'[p].pc = "lost" /\ exchanges'[p].pair = exchanges[p].pair
          /\ exchanges'[p].client = exchanges[p].client /\ exchanges'[p].user = exchanges[p].user
          /\ exchanges'[p].scope = exchanges[p].scope /\ exchanges'[p].family = exchanges[p].family
          /\ exchanges'[p].old = exchanges[p].old
          /\ \A q \in Calls \ {p} : exchanges'[q] = exchanges[q]
      BY <1>1, <1>3, <3>1, CallMoved
    <3> QED
      BY <2>1, <3>2
  <2>2. CASE new = "check"
    <3>1. exchanges' = [exchanges EXCEPT ![p].pc = "check"]
      BY <1>4, <2>2
    <3>2. /\ exchanges' \in [Calls -> {Idle} \union Authorization \union Issuance]
          /\ exchanges'[p] \in Issuance /\ exchanges'[p].pc = "check" /\ exchanges'[p].pair = exchanges[p].pair
          /\ exchanges'[p].client = exchanges[p].client /\ exchanges'[p].user = exchanges[p].user
          /\ exchanges'[p].scope = exchanges[p].scope /\ exchanges'[p].family = exchanges[p].family
          /\ exchanges'[p].old = exchanges[p].old
          /\ \A q \in Calls \ {p} : exchanges'[q] = exchanges[q]
      BY <1>1, <1>3, <3>1, CallMoved
    <3> QED
      BY <2>2, <3>2
  <2> QED
    BY <1>4, <2>1, <2>2
<1> QED
  BY <1>1, <1>2, <1>4

LEMMA Checked ==
  ASSUME StoreTypeOK, NEW p \in Calls, CheckFresh(p)
  PROVE  /\ exchanges[p] \in Issuance /\ exchanges[p].pc = "check"
         /\ exchanges' \in [Calls -> {Idle} \union Authorization \union Issuance]
         /\ \A q \in Calls \ {p} : exchanges'[q] = exchanges[q]
         /\ \/ /\ exchanges'[p] \in Issuance /\ exchanges'[p].pair = exchanges[p].pair
               /\ exchanges'[p].client = exchanges[p].client /\ exchanges'[p].user = exchanges[p].user
               /\ exchanges'[p].scope = exchanges[p].scope /\ exchanges'[p].family = exchanges[p].family
               /\ exchanges'[p].old = exchanges[p].old /\ exchanges'[p].pc = "swept" /\ held' = held
            \/ /\ exchanges'[p] = Idle /\ held' = held \union exchanges[p].pair
               /\ \A t \in exchanges[p].pair : tokens[t].kind = "refresh" => ~tokens[t].revoked
<1>1. exchanges[p] \in Issuance /\ exchanges[p].pc = "check"
  BY Issuers DEF CheckFresh
<1>2. exchanges[p].pair \in SUBSET Nat
  BY <1>1 DEF Issuance
<1>3. CASE exchanges' = [exchanges EXCEPT ![p].pc = "swept"] /\ held' = held
  <2>1. /\ exchanges' \in [Calls -> {Idle} \union Authorization \union Issuance]
        /\ exchanges'[p] \in Issuance /\ exchanges'[p].pc = "swept" /\ exchanges'[p].pair = exchanges[p].pair
        /\ exchanges'[p].client = exchanges[p].client /\ exchanges'[p].user = exchanges[p].user
        /\ exchanges'[p].scope = exchanges[p].scope /\ exchanges'[p].family = exchanges[p].family
        /\ exchanges'[p].old = exchanges[p].old
        /\ \A q \in Calls \ {p} : exchanges'[q] = exchanges[q]
    BY <1>1, <1>2, <1>3, CallMoved
  <2> QED
    BY <1>1, <1>3, <2>1
<1>4. CASE /\ exchanges' = [exchanges EXCEPT ![p] = Idle] /\ held' = held \union exchanges[p].pair
           /\ \A t \in exchanges[p].pair : tokens[t].kind = "refresh" => ~tokens[t].revoked
  <2>1. /\ exchanges' \in [Calls -> {Idle} \union Authorization \union Issuance]
        /\ exchanges'[p] = Idle /\ \A q \in Calls \ {p} : exchanges'[q] = exchanges[q]
    BY <1>4, CallSet
  <2> QED
    BY <1>1, <1>4, <2>1
<1> QED
  BY <1>3, <1>4 DEF CheckFresh

\* What issues tokens, rotates them or sweeps them.
LEMMA TypeOfTokens ==
  ASSUME StoreTypeOK, NEW p \in Calls,
         \/ PutAccess(p) \/ PutRefresh(p) \/ ReuseDetected(p) \/ Rotate(p) \/ LostRotation(p)
         \/ CheckFresh(p) \/ RefuseSwept(p)
  PROVE  StoreTypeOK'
<1> USE DEF CallTypeOK
<1>1. /\ mix \in OAuthMixes /\ codes \in Seq(CodeRecord) /\ hints \in Seq(Hint) /\ families \in Seq(Nat)
      /\ tokens \in Seq(TokenRecord)
      /\ held \subseteq DOMAIN tokens /\ reused \subseteq DOMAIN families /\ audits \subseteq DOMAIN families
      /\ \A t \in DOMAIN tokens : tokens[t].family \in DOMAIN families
      /\ \A q \in Calls : CallTypeOK(q)
      /\ Idle \notin Issuance
  BY DEF StoreTypeOK, Idle, Issuance
<1>2. CASE PutAccess(p)
  <2> DEFINE n == Len(tokens) + 1
  <2>1. /\ exchanges[p] \in Issuance /\ exchanges[p].pc = "access" /\ tokens' = Mint(p, "access")
        /\ exchanges' \in [Calls -> {Idle} \union Authorization \union Issuance]
        /\ exchanges'[p] \in Issuance /\ exchanges'[p].pc = "refresh" /\ exchanges'[p].pair = {n}
        /\ exchanges'[p].family = exchanges[p].family /\ exchanges'[p].old = exchanges[p].old
        /\ \A q \in Calls \ {p} : exchanges'[q] = exchanges[q]
    BY <1>2, AccessPut
  <2>2. /\ tokens' \in Seq(TokenRecord) /\ DOMAIN tokens' = DOMAIN tokens \union {n}
        /\ \A t \in DOMAIN tokens : tokens'[t] = tokens[t]
        /\ tokens'[n].family = exchanges[p].family
    BY <2>1, TokenMinted
  <2>3. UNCHANGED <<mix, clients, consents, codes, families, hints, held, reused, audits>>
    BY <1>2 DEF PutAccess
  <2> HIDE DEF n
  <2>4. \A q \in Calls : CallTypeOK(q)' \/ exchanges'[q] = exchanges[q]
    BY <1>1, <2>1, <2>2, <2>3
  <2>5. \A t \in DOMAIN tokens' : tokens'[t].family \in DOMAIN families'
    BY <1>1, <2>1, <2>2, <2>3
  <2> QED
    BY <1>1, <2>1, <2>2, <2>3, <2>4, <2>5, TypeFrame
<1>3. CASE PutRefresh(p)
  <2> DEFINE n == Len(tokens) + 1
             pair == exchanges[p].pair \union {n}
  <2>1. /\ exchanges[p] \in Issuance /\ exchanges[p].pc = "refresh" /\ tokens' = Mint(p, "refresh")
        /\ exchanges' \in [Calls -> {Idle} \union Authorization \union Issuance]
        /\ \A q \in Calls \ {p} : exchanges'[q] = exchanges[q]
        /\ exchanges[p].old = 0 => exchanges'[p] = Idle /\ held' = held \union pair
        /\ exchanges[p].old # 0 =>
               /\ held' = held
               /\ exchanges'[p] \in Issuance /\ exchanges'[p].pc = "rotate" /\ exchanges'[p].pair = pair
               /\ exchanges'[p].family = exchanges[p].family /\ exchanges'[p].old = exchanges[p].old
    BY <1>3, RefreshPut
  <2>2. /\ tokens' \in Seq(TokenRecord) /\ DOMAIN tokens' = DOMAIN tokens \union {n}
        /\ \A t \in DOMAIN tokens : tokens'[t] = tokens[t]
        /\ tokens'[n].family = exchanges[p].family
    BY <2>1, TokenMinted
  <2>3. UNCHANGED <<mix, clients, consents, codes, families, hints, reused, audits>>
    BY <1>3 DEF PutRefresh
  <2> HIDE DEF n
  <2>4. pair \subseteq DOMAIN tokens'
    BY <1>1, <2>1, <2>2
  <2> HIDE DEF pair
  <2>5. \A q \in Calls : CallTypeOK(q)' \/ exchanges'[q] = exchanges[q]
    BY <1>1, <2>1, <2>2, <2>3, <2>4
  <2>6. \A t \in DOMAIN tokens' : tokens'[t].family \in DOMAIN families'
    BY <1>1, <2>1, <2>2, <2>3
  <2>7. held' \subseteq DOMAIN tokens'
    BY <1>1, <2>1, <2>2, <2>4
  <2> QED
    BY <1>1, <2>1, <2>2, <2>3, <2>5, <2>6, <2>7, TypeFrame
<1>4. CASE ReuseDetected(p) \/ LostRotation(p) \/ RefuseSwept(p)
  <2>1. /\ exchanges[p] \in Issuance
        /\ exchanges' \in [Calls -> {Idle} \union Authorization \union Issuance]
        /\ exchanges'[p] = Idle /\ \A q \in Calls \ {p} : exchanges'[q] = exchanges[q]
        /\ tokens' = RevokeFamily(exchanges[p].family) /\ held' = held /\ families' = families
        /\ reused' \subseteq reused \union {exchanges[p].family}
    BY <1>4, Swept
  <2>2. tokens' \in Seq(TokenRecord) /\ TokensKeep
    BY <2>1, FamilyRevoked
  <2>3. /\ UNCHANGED <<mix, clients, consents, codes, hints>>
        /\ audits' \subseteq audits \union {exchanges[p].family}
    BY <1>4 DEF ReuseDetected, LostRotation, RefuseSwept, Sweep
  <2>4. \A q \in Calls : CallTypeOK(q)' \/ exchanges'[q] = exchanges[q]
    BY <1>1, <2>1
  <2>5. \A t \in DOMAIN tokens' : tokens'[t].family \in DOMAIN families'
    BY <1>1, <2>1, <2>2 DEF TokensKeep
  <2>6. DOMAIN tokens' = DOMAIN tokens
    BY <2>2 DEF TokensKeep
  <2>7. reused' \subseteq DOMAIN families' /\ audits' \subseteq DOMAIN families'
    BY <1>1, <2>1, <2>3
  <2> QED
    BY <1>1, <2>1, <2>2, <2>3, <2>4, <2>5, <2>6, <2>7, TypeFrame
<1>5. CASE Rotate(p)
  <2>1. /\ exchanges[p] \in Issuance /\ exchanges[p].pc = "rotate"
        /\ exchanges' \in [Calls -> {Idle} \union Authorization \union Issuance]
        /\ exchanges'[p].pair = exchanges[p].pair /\ exchanges'[p].family = exchanges[p].family
        /\ exchanges'[p].old = exchanges[p].old
        /\ \A q \in Calls \ {p} : exchanges'[q] = exchanges[q]
        /\ tokens' = tokens \/ tokens' = RotateToken(exchanges[p].old)
    BY <1>5, Rotated
  <2>2. UNCHANGED <<mix, clients, consents, codes, families, hints, held, reused, audits>>
    BY <1>5 DEF Rotate
  <2>3. exchanges[p].old \in DOMAIN tokens
    BY <1>1, <2>1
  <2>4. tokens' = tokens \/ (tokens' \in Seq(TokenRecord) /\ TokensKeep)
    BY <2>1, <2>3, TokenMarked
  <2>5. tokens' \in Seq(TokenRecord) /\ DOMAIN tokens' = DOMAIN tokens
    BY <1>1, <2>4 DEF TokensKeep
  <2>6. \A t \in DOMAIN tokens' : tokens'[t].family \in DOMAIN families'
    BY <1>1, <2>2, <2>4 DEF TokensKeep
  <2>7. \A q \in Calls : CallTypeOK(q)' \/ exchanges'[q] = exchanges[q]
    BY <1>1, <2>1, <2>2, <2>3, <2>5
  <2> QED
    BY <1>1, <2>1, <2>2, <2>5, <2>6, <2>7, TypeFrame
<1>6. CASE CheckFresh(p)
  <2>1. /\ exchanges[p] \in Issuance /\ exchanges[p].pc = "check"
        /\ exchanges' \in [Calls -> {Idle} \union Authorization \union Issuance]
        /\ \A q \in Calls \ {p} : exchanges'[q] = exchanges[q]
        /\ \/ /\ exchanges'[p] \in Issuance /\ exchanges'[p].pair = exchanges[p].pair
              /\ exchanges'[p].family = exchanges[p].family
              /\ exchanges'[p].old = exchanges[p].old /\ held' = held
           \/ exchanges'[p] = Idle /\ held' = held \union exchanges[p].pair
    BY <1>6, Checked
  <2>2. UNCHANGED <<mix, clients, consents, codes, tokens, families, hints, reused, audits>>
    BY <1>6 DEF CheckFresh
  <2>3. exchanges[p].old \in DOMAIN tokens /\ exchanges[p].pair \subseteq DOMAIN tokens
    BY <1>1, <2>1
  <2>4. \A q \in Calls : CallTypeOK(q)' \/ exchanges'[q] = exchanges[q]
    BY <1>1, <2>1, <2>2, <2>3
  <2> QED
    BY <1>1, <2>1, <2>2, <2>3, <2>4, TypeFrame
<1> QED
  BY <1>2, <1>3, <1>4, <1>5, <1>6

\* What begins a call at the token endpoint, and the rest of the surface.
LEMMA TypeOfTheRest ==
  ASSUME StoreTypeOK,
         \/ \E p \in Calls, c \in Clients, k \in DOMAIN codes, m \in BOOLEAN : ExchangeCode(p, c, k, m)
         \/ \E p \in Calls, c \in Clients, t \in DOMAIN tokens : Refresh(p, c, t)
         \/ \E t \in DOMAIN tokens : Revoke(t)
         \/ StartEndSession
         \/ \E h \in DOMAIN hints : CompleteEndSession(h)
         \/ RecordsExpire
  PROVE  StoreTypeOK'
<1> USE DEF CallTypeOK
<1>1. /\ codes \in Seq(CodeRecord) /\ hints \in Seq(Hint) /\ families \in Seq(Nat)
      /\ tokens \in Seq(TokenRecord)
      /\ exchanges \in [Calls -> {Idle} \union Authorization \union Issuance]
      /\ held \subseteq DOMAIN tokens /\ reused \subseteq DOMAIN families /\ audits \subseteq DOMAIN families
      /\ \A t \in DOMAIN tokens : tokens[t].family \in DOMAIN families
      /\ \A q \in Calls : CallTypeOK(q)
  BY DEF StoreTypeOK
<1>2. ASSUME NEW p \in Calls, NEW c \in Clients, NEW k \in DOMAIN codes, NEW m \in BOOLEAN, ExchangeCode(p, c, k, m)
      PROVE  StoreTypeOK'
  <2> DEFINE f == Len(families) + 1
  <2>1. /\ codes' = Consume(k)
        /\ exchanges' \in [Calls -> {Idle} \union Authorization \union Issuance]
        /\ \A q \in Calls \ {p} : exchanges'[q] = exchanges[q]
        /\ \/ families' = families /\ exchanges' = exchanges
           \/ /\ families' \in Seq(Nat) /\ DOMAIN families' = DOMAIN families \union {f}
              /\ exchanges'[p] \in Issuance /\ exchanges'[p].pc = "access" /\ exchanges'[p].family = f
              /\ exchanges'[p].old = 0 /\ exchanges'[p].pair = {}
    BY <1>2, CodeExchanged
  <2>2. codes' \in Seq(CodeRecord)
    BY <2>1, CodesMarked
  <2>3. UNCHANGED <<mix, clients, consents, tokens, hints, held, reused, audits>>
    BY <1>2 DEF ExchangeCode
  <2> HIDE DEF f
  <2>4. families' \in Seq(Nat) /\ DOMAIN families \subseteq DOMAIN families'
    BY <1>1, <2>1
  <2>5. \A q \in Calls : CallTypeOK(q)' \/ exchanges'[q] = exchanges[q]
    BY <2>1
  <2>6. \A t \in DOMAIN tokens' : tokens'[t].family \in DOMAIN families'
    BY <1>1, <2>3, <2>4
  <2> QED
    BY <1>1, <2>1, <2>2, <2>3, <2>4, <2>5, <2>6, TypeFrame
<1>3. ASSUME NEW p \in Calls, NEW c \in Clients, NEW t \in DOMAIN tokens, Refresh(p, c, t)
      PROVE  StoreTypeOK'
  <2>1. /\ tokens[t].family \in DOMAIN families
        /\ exchanges' \in [Calls -> {Idle} \union Authorization \union Issuance]
        /\ \A q \in Calls \ {p} : exchanges'[q] = exchanges[q]
        /\ exchanges'[p].old = t /\ exchanges'[p].pair = {} /\ exchanges'[p].family = tokens[t].family
    BY <1>3, Refreshing
  <2>2. UNCHANGED <<mix, clients, consents, codes, tokens, families, hints, held, reused, audits>>
    BY <1>3 DEF Refresh
  <2>3. \A q \in Calls : CallTypeOK(q)' \/ exchanges'[q] = exchanges[q]
    BY <2>1, <2>2
  <2> QED
    BY <1>1, <2>1, <2>2, <2>3, TypeFrame
<1>4. ASSUME UNCHANGED <<mix, clients, consents, families, exchanges, held, reused, audits>>,
             codes' \in Seq(CodeRecord), hints' \in Seq(Hint), tokens' \in Seq(TokenRecord),
             tokens' = tokens \/ TokensKeep
      PROVE  StoreTypeOK'
  <2>1. DOMAIN tokens' = DOMAIN tokens /\ \A t \in DOMAIN tokens' : tokens'[t].family \in DOMAIN families'
    BY <1>1, <1>4 DEF TokensKeep
  <2> QED
    BY <1>1, <1>4, <2>1, TypeFrame
<1>5. ASSUME NEW t \in DOMAIN tokens, Revoke(t) PROVE StoreTypeOK'
  <2>1. tokens' = RevokeToken(t) /\ UNCHANGED <<mix, clients, consents, codes, families, hints, exchanges, held, reused, audits>>
    BY <1>5 DEF Revoke
  <2>2. tokens' \in Seq(TokenRecord) /\ TokensKeep
    BY <2>1, TokenMarked
  <2> QED
    BY <1>1, <1>4, <2>1, <2>2
<1>6. CASE StartEndSession
  <2> DEFINE r == [consumed |-> FALSE, expired |-> FALSE, completed |-> 0]
  <2>1. hints' = Append(hints, r) /\ UNCHANGED <<mix, clients, consents, codes, tokens, families, exchanges, held, reused, audits>>
    BY <1>6 DEF StartEndSession
  <2>2. r \in Hint
    BY DEF Hint
  <2> HIDE DEF r
  <2>3. hints' \in Seq(Hint)
    BY <1>1, <2>1, <2>2, Inserted
  <2> QED
    BY <1>1, <1>4, <2>1, <2>3
<1>7. ASSUME NEW h \in DOMAIN hints, CompleteEndSession(h) PROVE StoreTypeOK'
  <2>1. /\ hints' = [hints EXCEPT ![h] = [consumed |-> TRUE, expired |-> FALSE, completed |-> hints[h].completed + 1]]
        /\ UNCHANGED <<mix, clients, consents, codes, tokens, families, exchanges, held, reused, audits>>
    BY <1>7 DEF CompleteEndSession
  <2>2. hints' \in Seq(Hint)
    BY <2>1, HintsMarked
  <2> QED
    BY <1>1, <1>4, <2>1, <2>2
<1>8. CASE RecordsExpire
  <2>1. UNCHANGED <<mix, clients, consents, families, exchanges, held, reused, audits>>
    BY <1>8 DEF RecordsExpire
  <2>2. ASSUME NEW k \in DOMAIN codes, codes' = [codes EXCEPT ![k].expired = TRUE], UNCHANGED <<tokens, hints>>
        PROVE  StoreTypeOK'
    <3>1. codes' \in Seq(CodeRecord)
      BY <2>2, CodesMarked
    <3> QED
      BY <1>1, <1>4, <2>1, <2>2, <3>1
  <2>3. ASSUME NEW t \in DOMAIN tokens, tokens' = [tokens EXCEPT ![t].expired = TRUE], UNCHANGED <<codes, hints>>
        PROVE  StoreTypeOK'
    <3>1. tokens' \in Seq(TokenRecord) /\ TokensKeep
      BY <2>3, TokenMarked
    <3> QED
      BY <1>1, <1>4, <2>1, <2>3, <3>1
  <2>4. ASSUME NEW h \in DOMAIN hints, hints' = [hints EXCEPT ![h].expired = TRUE], UNCHANGED <<codes, tokens>>
        PROVE  StoreTypeOK'
    <3>1. hints' \in Seq(Hint)
      BY <2>4, HintsMarked
    <3> QED
      BY <1>1, <1>4, <2>1, <2>4, <3>1
  <2> QED
    BY <1>8, <2>2, <2>3, <2>4 DEF RecordsExpire
<1> QED
  BY <1>2, <1>3, <1>5, <1>6, <1>7, <1>8

LEMMA OAuthStep == StoreTypeOK /\ OAuthNext => StoreTypeOK'
<1> SUFFICES ASSUME StoreTypeOK, OAuthNext PROVE StoreTypeOK'
  OBVIOUS
<1>1. ASSUME NEW p \in Calls, CallStep(p) \/ CallFails(p) PROVE StoreTypeOK'
  BY <1>1, TypeOfTokens, TypeOfClients DEF CallStep
<1> QED
  BY <1>1, TypeOfClients, TypeOfTheRest DEF OAuthNext

-----------------------------------------------------------------------------
\* Grants.

\* The users of A agreed to the scope of r for its client, in one consent.
Sound(r, A) == \E a \in A : a[1] = r.client /\ a[2] = r.user /\ r.scope \subseteq a[3]

\* A consent on record, a code, a token and a call under way carry a scope that
\* was agreed to.
ScopesAreAgreed ==
    /\ \A c \in Clients, u \in Users : consents[<<c, u>>] # {} => <<c, u, consents[<<c, u>>]>> \in agreed
    /\ \A k \in DOMAIN codes : Sound(codes[k], agreed)
    /\ \A t \in DOMAIN tokens : Sound(tokens[t], agreed)
    /\ \A p \in Calls : exchanges[p] # Idle => Sound(exchanges[p], agreed)

\* A family descends from a code of its own, which is consumed; a consumed hint
\* has completed one logout, another none.
SpentOnce ==
    /\ \A f \in DOMAIN families : families[f] \in DOMAIN codes /\ codes[families[f]].consumed
    /\ \A f, g \in DOMAIN families : families[f] = families[g] => f = g
    /\ \A h \in DOMAIN hints : hints[h].completed = IF hints[h].consumed THEN 1 ELSE 0

SameGrant(r, s) == r.client = s.client /\ r.user = s.user /\ r.scope = s.scope

LEMMA Carried ==
  ASSUME NEW A, NEW r, NEW s, Sound(s, A), SameGrant(r, s)
  PROVE  Sound(r, A)
BY DEF Sound, SameGrant

\* A step under the consents there are, after which every record carries the
\* grant of one there was.
LEMMA ScopeFrame ==
  ASSUME ScopesAreAgreed, agreed' = agreed, consents' = consents,
         \A k \in DOMAIN codes' : Sound(codes'[k], agreed) \/ (k \in DOMAIN codes /\ SameGrant(codes'[k], codes[k])),
         \A t \in DOMAIN tokens' : Sound(tokens'[t], agreed) \/ (t \in DOMAIN tokens /\ SameGrant(tokens'[t], tokens[t])),
         \A p \in Calls : \/ exchanges'[p] = Idle \/ exchanges'[p] = exchanges[p] \/ Sound(exchanges'[p], agreed)
                          \/ exchanges[p] # Idle /\ SameGrant(exchanges'[p], exchanges[p])
  PROVE  ScopesAreAgreed'
<1>1. \A k \in DOMAIN codes' : Sound(codes'[k], agreed)
  BY Carried DEF ScopesAreAgreed
<1>2. \A t \in DOMAIN tokens' : Sound(tokens'[t], agreed)
  BY Carried DEF ScopesAreAgreed
<1>3. \A p \in Calls : exchanges'[p] # Idle => Sound(exchanges'[p], agreed)
  BY Carried DEF ScopesAreAgreed
<1>4. \A c \in Clients, u \in Users : consents'[<<c, u>>] # {} => <<c, u, consents'[<<c, u>>]>> \in agreed'
  BY DEF ScopesAreAgreed
<1> QED
  BY <1>1, <1>2, <1>3, <1>4 DEF ScopesAreAgreed

\* Tokens that are only marked carry what they carried.
LEMMA MarkedGrants ==
  ASSUME TokensKeep
  PROVE  \A t \in DOMAIN tokens' : t \in DOMAIN tokens /\ SameGrant(tokens'[t], tokens[t])
BY DEF TokensKeep, SameGrant

LEMMA ScopesStart == OAuthInit => ScopesAreAgreed /\ SpentOnce
<1> SUFFICES ASSUME OAuthInit PROVE ScopesAreAgreed /\ SpentOnce
  OBVIOUS
<1>1. DOMAIN codes = {} /\ DOMAIN tokens = {} /\ DOMAIN families = {} /\ DOMAIN hints = {}
  BY DEF OAuthInit
<1>2. /\ \A p \in Calls : exchanges[p] = Idle
      /\ \A c \in Clients, u \in Users : consents[<<c, u>>] = {}
  BY DEF OAuthInit
<1> QED
  BY <1>1, <1>2 DEF ScopesAreAgreed, SpentOnce

\* Consent, authorization and the token endpoint keep to what was agreed.
LEMMA ScopesOfConsent ==
  ASSUME StoreTypeOK, ScopesAreAgreed,
         \/ \E c \in Clients, s \in SUBSET mix.scopes : RegisterClient(c, s)
         \/ \E c \in Clients, u \in Users, s \in SUBSET mix.scopes : GrantConsent(c, u, s)
         \/ \E p \in Calls, c \in Clients, u \in Users, s \in SUBSET mix.scopes : AuthorizeBegin(p, c, u, s)
         \/ \E p \in Calls : AuthorizeStore(p) \/ CallFails(p)
         \/ \E p \in Calls, c \in Clients, k \in DOMAIN codes, m \in BOOLEAN : ExchangeCode(p, c, k, m)
         \/ \E p \in Calls, c \in Clients, t \in DOMAIN tokens : Refresh(p, c, t)
  PROVE  ScopesAreAgreed'
<1>1. ASSUME NEW c \in Clients, NEW s \in SUBSET mix.scopes, RegisterClient(c, s) PROVE ScopesAreAgreed'
  BY <1>1 DEF ScopesAreAgreed, RegisterClient
<1>2. ASSUME NEW c \in Clients, NEW u \in Users, NEW s \in SUBSET mix.scopes, GrantConsent(c, u, s)
      PROVE  ScopesAreAgreed'
  <2>1. /\ consents' = [consents EXCEPT ![<<c, u>>] = s] /\ agreed' = agreed \union {<<c, u, s>>}
        /\ codes' = codes /\ tokens' = tokens /\ exchanges' = exchanges
    BY <1>2 DEF GrantConsent, PutConsent
  <2>2. \A r : Sound(r, agreed) => Sound(r, agreed')
    BY <2>1 DEF Sound
  <2>3. ASSUME NEW d \in Clients, NEW v \in Users
        PROVE  consents'[<<d, v>>] # {} => <<d, v, consents'[<<d, v>>]>> \in agreed'
    <3>1. consents \in [Clients \X Users -> SUBSET Scopes] /\ <<d, v>> \in Clients \X Users
      BY DEF StoreTypeOK
    <3>2. CASE d = c /\ v = u
      BY <2>1, <3>1, <3>2
    <3>3. CASE <<d, v>> # <<c, u>>
      BY <2>1, <3>1, <3>3 DEF ScopesAreAgreed
    <3> QED
      BY <3>2, <3>3
  <2> QED
    BY <2>1, <2>2, <2>3 DEF ScopesAreAgreed
<1>3. ASSUME NEW p \in Calls, NEW c \in Clients, NEW u \in Users, NEW s \in SUBSET mix.scopes,
             AuthorizeBegin(p, c, u, s)
      PROVE  ScopesAreAgreed'
  <2> DEFINE e == [pc |-> "code", client |-> c, user |-> u, scope |-> s]
  <2>1. /\ s # {} /\ s \subseteq consents[<<c, u>>] /\ s \in SUBSET Scopes
        /\ exchanges' = [exchanges EXCEPT ![p] = e]
        /\ UNCHANGED <<agreed, consents, codes, tokens>>
    BY <1>3, OAuthAssumption DEF AuthorizeBegin, ScopesCovered, StoreTypeOK
  <2>2. <<c, u, consents[<<c, u>>]>> \in agreed
    BY <2>1 DEF ScopesAreAgreed
  <2>3. Sound(e, agreed)
    BY <2>1, <2>2 DEF Sound
  <2>4. e \in Authorization
    BY <2>1 DEF Authorization
  <2> HIDE DEF e
  <2>5. exchanges'[p] = e /\ \A q \in Calls \ {p} : exchanges'[q] = exchanges[q]
    BY <2>1, <2>4, CallSet
  <2> QED
    BY <2>1, <2>3, <2>5, ScopeFrame DEF ScopesAreAgreed
<1>4. ASSUME NEW p \in Calls, exchanges' = [exchanges EXCEPT ![p] = Idle]
      PROVE  exchanges'[p] = Idle /\ \A q \in Calls \ {p} : exchanges'[q] = exchanges[q]
  BY <1>4, CallSet
<1>5. ASSUME NEW p \in Calls, AuthorizeStore(p) PROVE ScopesAreAgreed'
  <2> DEFINE e == exchanges[p]
             r == [client |-> e.client, user |-> e.user, scope |-> e.scope, consumed |-> FALSE, expired |-> FALSE]
  <2>1. e \in Authorization /\ e # Idle
    BY <1>5, Issuers DEF AuthorizeStore, Idle
  <2>2. r \in CodeRecord /\ SameGrant(r, e)
    BY <2>1 DEF Authorization, CodeRecord, SameGrant
  <2>3. /\ codes' = Append(codes, r) /\ codes \in Seq(CodeRecord)
        /\ UNCHANGED <<agreed, consents, tokens>> /\ exchanges' = [exchanges EXCEPT ![p] = Idle]
    BY <1>5 DEF AuthorizeStore, PutCode, StoreTypeOK
  <2> HIDE DEF r
  <2>4. /\ DOMAIN codes' = DOMAIN codes \union {Len(codes) + 1} /\ codes'[Len(codes) + 1] = r
        /\ \A k \in DOMAIN codes : codes'[k] = codes[k]
    BY <2>2, <2>3, Inserted
  <2>5. Sound(r, agreed)
    BY <2>1, <2>2, Carried DEF ScopesAreAgreed
  <2>6. \A k \in DOMAIN codes' : Sound(codes'[k], agreed)
    BY <2>4, <2>5 DEF ScopesAreAgreed
  <2> QED
    BY <1>4, <2>3, <2>6, ScopeFrame DEF ScopesAreAgreed
<1>6. ASSUME NEW p \in Calls, CallFails(p) PROVE ScopesAreAgreed'
  <2>1. UNCHANGED <<agreed, consents, codes, tokens>> /\ exchanges' = [exchanges EXCEPT ![p] = Idle]
    BY <1>6 DEF CallFails
  <2> QED
    BY <1>4, <2>1, ScopeFrame DEF ScopesAreAgreed
<1>7. ASSUME NEW p \in Calls, NEW c \in Clients, NEW k \in DOMAIN codes, NEW m \in BOOLEAN, ExchangeCode(p, c, k, m)
      PROVE  ScopesAreAgreed'
  <2>1. /\ codes' = Consume(k) /\ \A q \in Calls \ {p} : exchanges'[q] = exchanges[q]
        /\ exchanges' = exchanges \/ SameGrant(exchanges'[p], codes[k])
    BY <1>7, CodeExchanged DEF SameGrant
  <2>2. \A i \in DOMAIN codes' : i \in DOMAIN codes /\ SameGrant(codes'[i], codes[i])
    BY <2>1, CodesMarked DEF SameGrant
  <2>3. exchanges' = exchanges \/ Sound(exchanges'[p], agreed)
    BY <2>1, Carried DEF ScopesAreAgreed
  <2>4. UNCHANGED <<agreed, consents, tokens>>
    BY <1>7 DEF ExchangeCode
  <2> QED
    BY <2>1, <2>2, <2>3, <2>4, ScopeFrame DEF ScopesAreAgreed
<1>8. ASSUME NEW p \in Calls, NEW c \in Clients, NEW t \in DOMAIN tokens, Refresh(p, c, t)
      PROVE  ScopesAreAgreed'
  <2>1. SameGrant(exchanges'[p], tokens[t]) /\ \A q \in Calls \ {p} : exchanges'[q] = exchanges[q]
    BY <1>8, Refreshing DEF SameGrant
  <2>2. Sound(exchanges'[p], agreed)
    BY <2>1, Carried DEF ScopesAreAgreed
  <2>3. UNCHANGED <<agreed, consents, codes, tokens>>
    BY <1>8 DEF Refresh
  <2> QED
    BY <2>1, <2>2, <2>3, ScopeFrame DEF ScopesAreAgreed
<1> QED
  BY <1>1, <1>2, <1>3, <1>5, <1>6, <1>7, <1>8

\* Minting, rotating and sweeping keep the grant of the call.
LEMMA ScopesOfTokens ==
  ASSUME StoreTypeOK, ScopesAreAgreed, NEW p \in Calls,
         \/ PutAccess(p) \/ PutRefresh(p) \/ ReuseDetected(p) \/ Rotate(p) \/ LostRotation(p)
         \/ CheckFresh(p) \/ RefuseSwept(p)
  PROVE  ScopesAreAgreed'
<1>1. UNCHANGED <<agreed, consents, codes>>
  BY DEF PutAccess, PutRefresh, ReuseDetected, Rotate, LostRotation, CheckFresh, RefuseSwept, Sweep
<1>2. /\ \A q \in Calls \ {p} : exchanges'[q] = exchanges[q]
      /\ exchanges'[p] = Idle \/ SameGrant(exchanges'[p], exchanges[p])
      /\ exchanges[p] \in Issuance
  <2>1. CASE PutAccess(p)
    BY <2>1, AccessPut DEF SameGrant
  <2>2. CASE PutRefresh(p)
    BY <2>2, RefreshPut DEF SameGrant
  <2>3. CASE ReuseDetected(p) \/ LostRotation(p) \/ RefuseSwept(p)
    BY <2>3, Swept
  <2>4. CASE Rotate(p)
    BY <2>4, Rotated DEF SameGrant
  <2>5. CASE CheckFresh(p)
    BY <2>5, Checked DEF SameGrant
  <2> QED
    BY <2>1, <2>2, <2>3, <2>4, <2>5
<1>3. exchanges[p] # Idle
  BY <1>2 DEF Idle, Issuance
<1>4. \A t \in DOMAIN tokens' : Sound(tokens'[t], agreed) \/ (t \in DOMAIN tokens /\ SameGrant(tokens'[t], tokens[t]))
  <2>1. ASSUME NEW kind \in {"access", "refresh"}, tokens' = Mint(p, kind)
        PROVE  \A t \in DOMAIN tokens' : Sound(tokens'[t], agreed) \/ (t \in DOMAIN tokens /\ SameGrant(tokens'[t], tokens[t]))
    <3> DEFINE n == Len(tokens) + 1
    <3>1. /\ DOMAIN tokens' = DOMAIN tokens \union {n} /\ \A t \in DOMAIN tokens : tokens'[t] = tokens[t]
          /\ SameGrant(tokens'[n], exchanges[p])
      BY <1>2, <2>1, TokenMinted DEF SameGrant
    <3>2. Sound(tokens'[n], agreed)
      BY <1>3, <3>1, Carried DEF ScopesAreAgreed
    <3> QED
      BY <3>1, <3>2 DEF SameGrant
  <2>2. CASE PutAccess(p)
    BY <2>1, <2>2 DEF PutAccess
  <2>3. CASE PutRefresh(p)
    BY <2>1, <2>3 DEF PutRefresh
  <2>4. CASE ReuseDetected(p) \/ LostRotation(p) \/ RefuseSwept(p)
    BY <2>4, Swept, FamilyRevoked, MarkedGrants
  <2>5. CASE Rotate(p)
    <3>1. exchanges[p].old \in DOMAIN tokens
      BY <2>5, Rotated DEF StoreTypeOK, CallTypeOK
    <3> QED
      BY <2>5, <3>1, Rotated, TokenMarked, MarkedGrants DEF SameGrant
  <2>6. CASE CheckFresh(p)
    BY <2>6 DEF CheckFresh, SameGrant
  <2> QED
    BY <2>2, <2>3, <2>4, <2>5, <2>6
<1> QED
  BY <1>1, <1>2, <1>3, <1>4, ScopeFrame DEF ScopesAreAgreed

LEMMA ScopesStep == StoreTypeOK /\ ScopesAreAgreed /\ OAuthNext => ScopesAreAgreed'
<1> SUFFICES ASSUME StoreTypeOK, ScopesAreAgreed, OAuthNext PROVE ScopesAreAgreed'
  OBVIOUS
<1>1. ASSUME NEW p \in Calls, CallStep(p) \/ CallFails(p) PROVE ScopesAreAgreed'
  BY <1>1, ScopesOfTokens, ScopesOfConsent DEF CallStep
<1>2. ASSUME NEW t \in DOMAIN tokens, Revoke(t) PROVE ScopesAreAgreed'
  <2>1. tokens' = RevokeToken(t) /\ UNCHANGED <<agreed, consents, codes, exchanges>>
    BY <1>2 DEF Revoke
  <2> QED
    BY <2>1, TokenMarked, MarkedGrants, ScopeFrame DEF SameGrant
<1>3. ASSUME UNCHANGED <<agreed, consents, codes, tokens, exchanges>> PROVE ScopesAreAgreed'
  BY <1>3 DEF ScopesAreAgreed
<1>4. CASE StartEndSession
  BY <1>3, <1>4 DEF StartEndSession
<1>5. ASSUME NEW h \in DOMAIN hints, CompleteEndSession(h) PROVE ScopesAreAgreed'
  BY <1>3, <1>5 DEF CompleteEndSession
<1>6. CASE RecordsExpire
  <2>1. UNCHANGED <<agreed, consents, exchanges>>
    BY <1>6 DEF RecordsExpire
  <2>2. ASSUME NEW k \in DOMAIN codes, codes' = [codes EXCEPT ![k].expired = TRUE], UNCHANGED tokens
        PROVE  ScopesAreAgreed'
    <3>1. \A i \in DOMAIN codes' : i \in DOMAIN codes /\ SameGrant(codes'[i], codes[i])
      BY <2>2, CodesMarked DEF SameGrant
    <3> QED
      BY <2>1, <2>2, <3>1, ScopeFrame DEF ScopesAreAgreed
  <2>3. ASSUME NEW t \in DOMAIN tokens, tokens' = [tokens EXCEPT ![t].expired = TRUE], UNCHANGED codes
        PROVE  ScopesAreAgreed'
    BY <2>1, <2>3, TokenMarked, MarkedGrants, ScopeFrame DEF SameGrant
  <2>4. CASE UNCHANGED <<codes, tokens>>
    BY <1>3, <2>1, <2>4
  <2> QED
    BY <1>6, <2>2, <2>3, <2>4 DEF RecordsExpire
<1> QED
  BY <1>1, <1>2, <1>4, <1>5, <1>6, ScopesOfConsent DEF OAuthNext

\* Families there are keep their consumed codes.
LEMMA SpentFrame ==
  ASSUME SpentOnce, families' = families, DOMAIN codes \subseteq DOMAIN codes',
         \A k \in DOMAIN codes : codes[k].consumed => codes'[k].consumed,
         \A h \in DOMAIN hints' : hints'[h].completed = IF hints'[h].consumed THEN 1 ELSE 0
  PROVE  SpentOnce'
BY DEF SpentOnce

LEMMA SpentStep == StoreTypeOK /\ SpentOnce /\ OAuthNext => SpentOnce'
<1> SUFFICES ASSUME StoreTypeOK, SpentOnce, OAuthNext PROVE SpentOnce'
  OBVIOUS
<1>1. ASSUME UNCHANGED <<codes, families, hints>> PROVE SpentOnce'
  BY <1>1 DEF SpentOnce
<1>2. ASSUME NEW p \in Calls, NEW c \in Clients, NEW k \in DOMAIN codes, NEW m \in BOOLEAN, ExchangeCode(p, c, k, m)
      PROVE  SpentOnce'
  <2> DEFINE n == Len(families) + 1
  <2>1. /\ ~codes[k].consumed /\ codes' = Consume(k) /\ n \notin DOMAIN families
        /\ \/ families' = families
           \/ /\ DOMAIN families' = DOMAIN families \union {n} /\ families'[n] = k
              /\ \A g \in DOMAIN families : families'[g] = families[g]
    BY <1>2, CodeExchanged
  <2>2. /\ DOMAIN codes' = DOMAIN codes /\ codes'[k].consumed
        /\ \A i \in DOMAIN codes : codes[i].consumed => codes'[i].consumed
    BY <2>1, CodesMarked
  <2>3. hints' = hints
    BY <1>2 DEF ExchangeCode
  <2> HIDE DEF n
  <2>4. CASE families' = families
    BY <2>2, <2>3, <2>4, SpentFrame DEF SpentOnce
  <2>5. CASE /\ DOMAIN families' = DOMAIN families \union {n} /\ families'[n] = k
             /\ \A g \in DOMAIN families : families'[g] = families[g]
    <3>1. \A f \in DOMAIN families : families[f] # k
      BY <2>1 DEF SpentOnce
    <3>2. \A f \in DOMAIN families' : families'[f] \in DOMAIN codes' /\ codes'[families'[f]].consumed
      BY <2>2, <2>5 DEF SpentOnce
    <3>3. \A f, g \in DOMAIN families' : families'[f] = families'[g] => f = g
      BY <2>5, <3>1 DEF SpentOnce
    <3> QED
      BY <2>3, <3>2, <3>3 DEF SpentOnce
  <2> QED
    BY <2>1, <2>4, <2>5
<1>3. ASSUME NEW p \in Calls, AuthorizeStore(p) PROVE SpentOnce'
  <2> DEFINE e == exchanges[p]
             r == [client |-> e.client, user |-> e.user, scope |-> e.scope, consumed |-> FALSE, expired |-> FALSE]
  <2>1. e \in Authorization
    BY <1>3, Issuers DEF AuthorizeStore
  <2>2. r \in CodeRecord
    BY <2>1 DEF Authorization, CodeRecord
  <2>3. codes' = Append(codes, r) /\ codes \in Seq(CodeRecord) /\ families' = families /\ hints' = hints
    BY <1>3 DEF AuthorizeStore, PutCode, StoreTypeOK
  <2> HIDE DEF r
  <2>4. DOMAIN codes' = DOMAIN codes \union {Len(codes) + 1} /\ \A k \in DOMAIN codes : codes'[k] = codes[k]
    BY <2>2, <2>3, Inserted
  <2> QED
    BY <2>3, <2>4, SpentFrame DEF SpentOnce
<1>4. CASE StartEndSession
  <2> DEFINE r == [consumed |-> FALSE, expired |-> FALSE, completed |-> 0]
  <2>1. hints' = Append(hints, r) /\ UNCHANGED <<codes, families>> /\ hints \in Seq(Hint)
    BY <1>4 DEF StartEndSession, StoreTypeOK
  <2>2. r \in Hint /\ r.completed = IF r.consumed THEN 1 ELSE 0
    BY DEF Hint
  <2> HIDE DEF r
  <2>3. /\ DOMAIN hints' = DOMAIN hints \union {Len(hints) + 1} /\ hints'[Len(hints) + 1] = r
        /\ \A h \in DOMAIN hints : hints'[h] = hints[h]
    BY <2>1, <2>2, Inserted
  <2>4. \A h \in DOMAIN hints' : hints'[h].completed = IF hints'[h].consumed THEN 1 ELSE 0
    BY <2>2, <2>3 DEF SpentOnce
  <2> QED
    BY <2>1, <2>4, SpentFrame
<1>5. ASSUME NEW h \in DOMAIN hints, CompleteEndSession(h) PROVE SpentOnce'
  <2>1. /\ ~hints[h].consumed
        /\ hints' = [hints EXCEPT ![h] = [consumed |-> TRUE, expired |-> FALSE, completed |-> hints[h].completed + 1]]
        /\ UNCHANGED <<codes, families>>
    BY <1>5 DEF CompleteEndSession
  <2>2. hints \in [DOMAIN hints -> Hint] /\ hints[h].completed = 0
    BY <2>1, Ids DEF StoreTypeOK, SpentOnce
  <2>3. /\ DOMAIN hints' = DOMAIN hints /\ \A i \in DOMAIN hints : i # h => hints'[i] = hints[i]
        /\ hints'[h].consumed = TRUE /\ hints'[h].completed = 1
    BY <2>1, <2>2
  <2>4. \A i \in DOMAIN hints' : hints'[i].completed = IF hints'[i].consumed THEN 1 ELSE 0
    BY <2>3 DEF SpentOnce
  <2> QED
    BY <2>1, <2>4, SpentFrame
<1>6. CASE RecordsExpire
  <2>1. families' = families
    BY <1>6 DEF RecordsExpire
  <2>2. ASSUME NEW k \in DOMAIN codes, codes' = [codes EXCEPT ![k].expired = TRUE], UNCHANGED hints
        PROVE  SpentOnce'
    BY <2>1, <2>2, CodesMarked, SpentFrame DEF SpentOnce
  <2>3. ASSUME NEW h \in DOMAIN hints, hints' = [hints EXCEPT ![h].expired = TRUE], UNCHANGED codes
        PROVE  SpentOnce'
    <3>1. hints \in [DOMAIN hints -> Hint]
      BY Ids DEF StoreTypeOK
    <3>2. /\ DOMAIN hints' = DOMAIN hints
          /\ \A i \in DOMAIN hints : hints'[i].completed = hints[i].completed /\ hints'[i].consumed = hints[i].consumed
      BY <2>3, <3>1 DEF Hint
    <3>3. \A i \in DOMAIN hints' : hints'[i].completed = IF hints'[i].consumed THEN 1 ELSE 0
      BY <3>2 DEF SpentOnce
    <3> QED
      BY <2>1, <2>3, <3>3, SpentFrame
  <2>4. CASE UNCHANGED <<codes, hints>>
    BY <1>1, <2>1, <2>4
  <2> QED
    BY <1>6, <2>2, <2>3, <2>4 DEF RecordsExpire
<1>7. ASSUME NEW p \in Calls, CallStep(p) \/ CallFails(p) PROVE SpentOnce'
  <2>1. CASE AuthorizeStore(p)
    BY <1>3, <2>1
  <2>2. CASE ~AuthorizeStore(p)
    BY <1>1, <1>7, <2>2 DEF CallStep, CallFails, PutAccess, PutRefresh, ReuseDetected, Rotate, LostRotation,
                           CheckFresh, RefuseSwept, Sweep
  <2> QED
    BY <2>1, <2>2
<1>8. ASSUME \/ \E c \in Clients, s \in SUBSET mix.scopes : RegisterClient(c, s)
             \/ \E c \in Clients, u \in Users, s \in SUBSET mix.scopes : GrantConsent(c, u, s)
             \/ \E p \in Calls, c \in Clients, u \in Users, s \in SUBSET mix.scopes : AuthorizeBegin(p, c, u, s)
             \/ \E p \in Calls, c \in Clients, t \in DOMAIN tokens : Refresh(p, c, t)
             \/ \E t \in DOMAIN tokens : Revoke(t)
      PROVE  SpentOnce'
  BY <1>1, <1>8 DEF RegisterClient, GrantConsent, AuthorizeBegin, Refresh, Revoke
<1> QED
  BY <1>2, <1>4, <1>5, <1>6, <1>7, <1>8 DEF OAuthNext

\* A code and an end-session hint work once, and a token's scope is one its
\* user agreed to for its client in one consent, however many calls race and
\* whichever of them fail (oauth-server.ts authorize, exchangeCode, refresh,
\* completeEndSession).
THEOREM GrantsHold == OAuthSpec => []GrantsAreConsented
<1> DEFINE GrantsInv == StoreTypeOK /\ ScopesAreAgreed /\ SpentOnce
<1>1. OAuthInit => GrantsInv
  BY OAuthStart, ScopesStart
<1>2. GrantsInv /\ [OAuthNext]_oauthVars => GrantsInv'
  <2> SUFFICES ASSUME GrantsInv, [OAuthNext]_oauthVars PROVE GrantsInv'
    OBVIOUS
  <2>1. CASE OAuthNext
    BY <2>1, OAuthStep, ScopesStep, SpentStep
  <2>2. CASE UNCHANGED oauthVars
    <3>1. StoreTypeOK'
      BY <2>2 DEF oauthVars, StoreTypeOK, CallTypeOK
    <3>2. ScopesAreAgreed' /\ SpentOnce'
      BY <2>2 DEF oauthVars, ScopesAreAgreed, SpentOnce
    <3> QED
      BY <3>1, <3>2
  <2> QED
    BY <2>1, <2>2
<1>3. GrantsInv => GrantsAreConsented
  <2> SUFFICES ASSUME GrantsInv PROVE GrantsAreConsented
    OBVIOUS
  <2>1. OAuthTypeOK
    BY Ids DEF StoreTypeOK, OAuthTypeOK
  <2>2. SingleUse
    BY DEF SpentOnce, SingleUse
  <2>3. ScopeWasConsented
    BY DEF ScopesAreAgreed, Sound, ScopeWasConsented
  <2> QED
    BY <2>1, <2>2, <2>3 DEF GrantsAreConsented
<1> QED
  BY <1>1, <1>2, <1>3, PTL DEF OAuthSpec

-----------------------------------------------------------------------------
\* Rotation.

Issues(p) == exchanges[p] \in Issuance
IsRefresh(t) == tokens[t].kind = "refresh"

\* The pair of a call is of its family and nobody holds it; the call has a
\* refresh token from its second insert on, and one; its old token is a
\* refresh token of the family that was disclosed.
Chain(p) == Issues(p) =>
    /\ \A t \in exchanges[p].pair : tokens[t].family = exchanges[p].family /\ t \notin held
    /\ exchanges[p].pc \in {"access", "reuse"} => exchanges[p].pair = {}
    /\ exchanges[p].pc = "refresh" => \A t \in exchanges[p].pair : ~IsRefresh(t)
    /\ exchanges[p].pc \in {"rotate", "check"} => \E t \in exchanges[p].pair : IsRefresh(t)
    /\ \A t, u \in exchanges[p].pair : IsRefresh(t) /\ IsRefresh(u) => t = u
    /\ exchanges[p].old # 0 => /\ exchanges[p].old \in held /\ IsRefresh(exchanges[p].old)
                               /\ tokens[exchanges[p].old].family = exchanges[p].family

OwnPairs == \A p, q \in Calls :
    p # q /\ Issues(p) /\ Issues(q) => exchanges[p].pair \intersect exchanges[q].pair = {}

\* The exchange of a code is alone with its family until it answers.
FirstPair == \A p \in Calls : Issues(p) /\ exchanges[p].old = 0 =>
    /\ exchanges[p].family \notin reused
    /\ \A t \in held : tokens[t].family # exchanges[p].family
    /\ \A q \in Calls : q # p /\ Issues(q) => exchanges[q].family # exchanges[p].family

\* t was disclosed, or is in a pair whose rotation landed and may be.
Landing(p, t) == Issues(p) /\ exchanges[p].pc = "check" /\ t \in exchanges[p].pair
Claimed(t) == t \in held \/ \E p \in Calls : Landing(p, t)

\* Of the claimed refresh tokens of a family one is live, and of a family in
\* which a reuse was answered none.
OneClaim == \A t, u \in DOMAIN tokens :
    (/\ Claimed(t) /\ Claimed(u) /\ IsRefresh(t) /\ IsRefresh(u) /\ tokens[t].family = tokens[u].family
     /\ ~tokens[t].revoked /\ ~tokens[u].revoked) => t = u
DeadFamilies == \A t \in DOMAIN tokens : Claimed(t) /\ tokens[t].family \in reused => tokens[t].revoked

LinearInv == (\A p \in Calls : Chain(p)) /\ OwnPairs /\ FirstPair /\ OneClaim /\ DeadFamilies

\* What a step leaves to the calls it is not of.
LEMMA OthersKeep ==
  ASSUME StoreTypeOK, LinearInv, NEW q \in Calls, exchanges'[q] = exchanges[q],
         \A t \in DOMAIN tokens : tokens'[t].kind = tokens[t].kind /\ tokens'[t].family = tokens[t].family,
         held \subseteq held',
         Issues(q) => exchanges[q].pair \intersect held' = {}
  PROVE  Chain(q)'
<1>1. Issues(q) => /\ exchanges[q].pair \subseteq DOMAIN tokens
                   /\ exchanges[q].old # 0 => exchanges[q].old \in DOMAIN tokens
  BY DEF StoreTypeOK, CallTypeOK, Issues
<1>2. Chain(q)
  BY DEF LinearInv
<1> QED
  BY <1>1, <1>2 DEF Chain, Issues, IsRefresh

\* A step that claims nothing: calls go on as they were, end, or turn to their
\* refusal, and a reuse is answered once the family is swept.
LEMMA NothingClaimed ==
  ASSUME StoreTypeOK, LinearInv, TokensKeep, held' = held,
         \A q \in Calls :
            \/ exchanges'[q] = exchanges[q]
            \/ exchanges'[q] \notin Issuance
            \/ /\ Issues(q) /\ exchanges'[q].pc \in {"lost", "swept"} /\ exchanges'[q].pair = exchanges[q].pair
               /\ exchanges'[q].family = exchanges[q].family /\ exchanges'[q].old = exchanges[q].old,
         \/ reused' = reused
         \/ \E p \in Calls :
               /\ Issues(p) /\ exchanges'[p] \notin Issuance /\ reused' \subseteq reused \union {exchanges[p].family}
               /\ \A t \in DOMAIN tokens : tokens[t].family = exchanges[p].family => tokens'[t].revoked
  PROVE  LinearInv'
<1>1. \A q \in Calls : exchanges'[q] \in Issuance =>
         /\ Issues(q) /\ exchanges'[q].pair = exchanges[q].pair /\ exchanges'[q].family = exchanges[q].family
         /\ exchanges'[q].old = exchanges[q].old
         /\ exchanges'[q].pc = exchanges[q].pc \/ exchanges'[q].pc \in {"lost", "swept"}
  BY DEF Issues
<1>2. held \subseteq DOMAIN tokens
  BY DEF StoreTypeOK
<1>3. ASSUME NEW q \in Calls PROVE Chain(q)'
  <2>1. CASE exchanges'[q] = exchanges[q]
    <3>1. Issues(q) => exchanges[q].pair \intersect held' = {}
      BY DEF LinearInv, Chain
    <3> QED
      BY <2>1, <3>1, OthersKeep DEF TokensKeep
  <2>2. CASE exchanges'[q] \notin Issuance
    BY <2>2 DEF Chain, Issues
  <2>3. CASE /\ Issues(q) /\ exchanges'[q].pc \in {"lost", "swept"} /\ exchanges'[q].pair = exchanges[q].pair
             /\ exchanges'[q].family = exchanges[q].family /\ exchanges'[q].old = exchanges[q].old
    <3>1. /\ exchanges[q].pair \subseteq DOMAIN tokens
          /\ exchanges[q].old # 0 => exchanges[q].old \in DOMAIN tokens
      BY <2>3 DEF StoreTypeOK, CallTypeOK, Issues
    <3> QED
      BY <2>3, <3>1 DEF LinearInv, Chain, IsRefresh, TokensKeep
  <2> QED
    BY <2>1, <2>2, <2>3
<1>4. OwnPairs'
  BY <1>1 DEF LinearInv, OwnPairs, Issues
<1>5. FirstPair'
  <2> SUFFICES ASSUME NEW q \in Calls, Issues(q)', exchanges'[q].old = 0
               PROVE  /\ exchanges'[q].family \notin reused'
                      /\ \A t \in held' : tokens'[t].family # exchanges'[q].family
                      /\ \A r \in Calls : r # q /\ Issues(r)' => exchanges'[r].family # exchanges'[q].family
    BY DEF FirstPair
  <2>1. /\ Issues(q) /\ exchanges[q].old = 0 /\ exchanges'[q].family = exchanges[q].family
    BY <1>1 DEF Issues
  <2>2. /\ exchanges[q].family \notin reused
        /\ \A t \in held : tokens[t].family # exchanges[q].family
        /\ \A r \in Calls : r # q /\ Issues(r) => exchanges[r].family # exchanges[q].family
    BY <2>1 DEF LinearInv, FirstPair
  <2>3. exchanges'[q].family \notin reused'
    BY <2>1, <2>2 DEF Issues
  <2>4. \A t \in held' : tokens'[t].family # exchanges'[q].family
    BY <1>2, <2>1, <2>2 DEF TokensKeep
  <2>5. \A r \in Calls : r # q /\ Issues(r)' => exchanges'[r].family # exchanges'[q].family
    BY <1>1, <2>1, <2>2 DEF Issues
  <2> QED
    BY <2>3, <2>4, <2>5
<1>6. \A t : Claimed(t)' => Claimed(t)
  BY <1>1 DEF Claimed, Landing, Issues
<1>7. OneClaim'
  BY <1>6 DEF LinearInv, OneClaim, IsRefresh, TokensKeep
<1>8. DeadFamilies'
  BY <1>6 DEF LinearInv, DeadFamilies, TokensKeep
<1> QED
  BY <1>3, <1>4, <1>5, <1>7, <1>8 DEF LinearInv

\* Claims are the same when no call that checks comes or goes.
LEMMA SameClaims ==
  ASSUME NEW p \in Calls, held' = held, ~(Issues(p) /\ exchanges[p].pc = "check"),
         ~(exchanges'[p] \in Issuance /\ exchanges'[p].pc = "check"),
         \A q \in Calls \ {p} : exchanges'[q] = exchanges[q]
  PROVE  \A t : Claimed(t)' <=> Claimed(t)
BY DEF Claimed, Landing, Issues

\* A call begins: with a family nobody has yet, or with a refresh token that
\* was disclosed.
LEMMA Begun ==
  ASSUME StoreTypeOK, LinearInv, NEW p \in Calls, exchanges[p] = Idle, UNCHANGED <<tokens, held, reused>>,
         \A q \in Calls \ {p} : exchanges'[q] = exchanges[q],
         exchanges'[p] \in Issuance, exchanges'[p].pc \in {"access", "reuse"}, exchanges'[p].pair = {},
         \/ exchanges'[p].old = 0 /\ exchanges'[p].family \notin DOMAIN families
         \/ /\ exchanges'[p].old # 0 /\ exchanges'[p].old \in held /\ IsRefresh(exchanges'[p].old)
            /\ exchanges'[p].family = tokens[exchanges'[p].old].family
  PROVE  LinearInv'
<1>1. ~Issues(p) /\ \A q \in Calls : Issues(q) => exchanges'[q] = exchanges[q]
  BY Issuers DEF Issues
<1>2. ASSUME NEW q \in Calls PROVE Chain(q)'
  <2>1. CASE q = p
    BY <2>1 DEF Chain, IsRefresh
  <2>2. CASE q # p
    <3>1. Issues(q) => exchanges[q].pair \intersect held' = {}
      BY DEF LinearInv, Chain
    <3> QED
      BY <2>2, <3>1, OthersKeep
  <2> QED
    BY <2>1, <2>2
<1>3. OwnPairs'
  BY <1>1 DEF LinearInv, OwnPairs, Issues
<1>4. FirstPair'
  <2> SUFFICES ASSUME NEW q \in Calls, Issues(q)', exchanges'[q].old = 0
               PROVE  /\ exchanges'[q].family \notin reused'
                      /\ \A t \in held' : tokens'[t].family # exchanges'[q].family
                      /\ \A r \in Calls : r # q /\ Issues(r)' => exchanges'[r].family # exchanges'[q].family
    BY DEF FirstPair
  <2>1. /\ reused \subseteq DOMAIN families /\ \A t \in held : tokens[t].family \in DOMAIN families
        /\ \A r \in Calls : Issues(r) => exchanges[r].family \in DOMAIN families
    BY DEF StoreTypeOK, CallTypeOK, Issues
  <2>2. CASE q = p
    <3>1. exchanges'[q].family \notin DOMAIN families
      BY <2>2
    <3>2. \A r \in Calls : r # q /\ Issues(r)' => exchanges'[r].family # exchanges'[q].family
      BY <2>1, <2>2, <3>1 DEF Issues
    <3> QED
      BY <2>1, <3>1, <3>2
  <2>3. CASE q # p
    <3>1. exchanges'[q] = exchanges[q] /\ Issues(q)
      BY <2>3 DEF Issues
    <3>2. /\ exchanges[q].family \notin reused /\ \A t \in held : tokens[t].family # exchanges[q].family
          /\ \A r \in Calls : r # q /\ Issues(r) => exchanges[r].family # exchanges[q].family
      BY <3>1 DEF LinearInv, FirstPair
    <3>3. exchanges'[p].family # exchanges[q].family
      BY <2>1, <3>1, <3>2
    <3> QED
      BY <3>1, <3>2, <3>3 DEF Issues
  <2> QED
    BY <2>2, <2>3
<1>5. \A t : Claimed(t)' <=> Claimed(t)
  BY <1>1, SameClaims
<1> QED
  BY <1>2, <1>3, <1>4, <1>5 DEF LinearInv, OneClaim, DeadFamilies, IsRefresh

\* A call inserts a token and goes on with it in its pair.
LEMMA PairGrows ==
  ASSUME StoreTypeOK, LinearInv, NEW p \in Calls, NEW kind \in {"access", "refresh"},
         tokens' = Mint(p, kind), UNCHANGED <<held, reused>>, Issues(p),
         \/ exchanges[p].pc = "access" /\ kind = "access" /\ exchanges'[p].pc = "refresh"
         \/ exchanges[p].pc = "refresh" /\ kind = "refresh" /\ exchanges'[p].pc = "rotate",
         exchanges'[p] \in Issuance, exchanges'[p].pair = exchanges[p].pair \union {Len(tokens) + 1},
         exchanges'[p].family = exchanges[p].family, exchanges'[p].old = exchanges[p].old,
         \A q \in Calls \ {p} : exchanges'[q] = exchanges[q]
  PROVE  LinearInv'
<1> DEFINE n == Len(tokens) + 1
<1>1. /\ DOMAIN tokens' = DOMAIN tokens \union {n} /\ n \notin DOMAIN tokens
      /\ \A t \in DOMAIN tokens : tokens'[t] = tokens[t]
      /\ tokens'[n].kind = kind /\ tokens'[n].family = exchanges[p].family
  BY TokenMinted DEF Issues
<1>2. /\ held \subseteq DOMAIN tokens
      /\ \A q \in Calls : Issues(q) => /\ exchanges[q].pair \subseteq DOMAIN tokens
                                       /\ exchanges[q].old # 0 => exchanges[q].old \in DOMAIN tokens
  BY DEF StoreTypeOK, CallTypeOK, Issues
<1>3. exchanges'[p].pair = exchanges[p].pair \union {n}
  OBVIOUS
<1> HIDE DEF n
<1>4. ASSUME NEW q \in Calls PROVE Chain(q)'
  <2>1. CASE q = p
    <3>1. Chain(p) /\ p \in Calls
      BY DEF LinearInv
    <3>2. \A t \in exchanges'[p].pair : tokens'[t].family = exchanges'[p].family /\ t \notin held'
      BY <1>1, <1>2, <1>3, <3>1 DEF Chain
    <3>3. \A t \in exchanges[p].pair : tokens'[t].kind # "refresh"
      BY <1>1, <1>2, <3>1 DEF Chain, IsRefresh
    <3>4. exchanges'[p].pc = "refresh" => \A t \in exchanges'[p].pair : ~IsRefresh(t)'
      BY <1>1, <1>3, <3>3 DEF IsRefresh
    <3>5. exchanges'[p].pc \in {"rotate", "check"} => \E t \in exchanges'[p].pair : IsRefresh(t)'
      BY <1>1, <1>3 DEF IsRefresh
    <3>6. \A t, u \in exchanges'[p].pair : IsRefresh(t)' /\ IsRefresh(u)' => t = u
      BY <1>3, <3>3 DEF IsRefresh
    <3>7. exchanges'[p].old # 0 => /\ exchanges'[p].old \in held' /\ IsRefresh(exchanges[p].old)'
                                   /\ tokens'[exchanges'[p].old].family = exchanges'[p].family
      BY <1>1, <1>2, <3>1 DEF Chain, IsRefresh
    <3> QED
      BY <2>1, <3>2, <3>4, <3>5, <3>6, <3>7 DEF Chain, IsRefresh
  <2>2. CASE q # p
    <3>1. Issues(q) => exchanges[q].pair \intersect held' = {}
      BY DEF LinearInv, Chain
    <3> QED
      BY <1>1, <2>2, <3>1, OthersKeep
  <2> QED
    BY <2>1, <2>2
<1>5. OwnPairs'
  BY <1>1, <1>2, <1>3 DEF LinearInv, OwnPairs, Issues
<1>6. FirstPair'
  <2>1. \A q \in Calls : Issues(q)' => Issues(q) /\ exchanges'[q].family = exchanges[q].family
                                       /\ exchanges'[q].old = exchanges[q].old
    BY DEF Issues
  <2> QED
    BY <1>1, <1>2, <2>1 DEF LinearInv, FirstPair
<1>7. \A t : Claimed(t)' <=> Claimed(t)
  BY SameClaims
<1>8. ~Claimed(n)
  BY <1>1, <1>2 DEF Claimed, Landing
<1>9. OneClaim'
  BY <1>1, <1>7, <1>8 DEF LinearInv, OneClaim, IsRefresh
<1>10. DeadFamilies'
  BY <1>1, <1>7, <1>8 DEF LinearInv, DeadFamilies
<1> QED
  BY <1>4, <1>5, <1>6, <1>9, <1>10 DEF LinearInv

\* The exchange of a code answers with the first pair of its family.
LEMMA FirstAnswer ==
  ASSUME StoreTypeOK, LinearInv, NEW p \in Calls, Issues(p), exchanges[p].pc = "refresh", exchanges[p].old = 0,
         tokens' = Mint(p, "refresh"), held' = held \union exchanges[p].pair \union {Len(tokens) + 1},
         reused' = reused, exchanges'[p] = Idle, \A q \in Calls \ {p} : exchanges'[q] = exchanges[q]
  PROVE  LinearInv'
<1> DEFINE n == Len(tokens) + 1
           new == exchanges[p].pair \union {n}
<1>1. /\ DOMAIN tokens' = DOMAIN tokens \union {n} /\ n \notin DOMAIN tokens
      /\ \A t \in DOMAIN tokens : tokens'[t] = tokens[t]
      /\ tokens'[n].kind = "refresh" /\ tokens'[n].family = exchanges[p].family
  BY TokenMinted DEF Issues
<1>2. /\ held \subseteq DOMAIN tokens
      /\ \A q \in Calls : Issues(q) => exchanges[q].pair \subseteq DOMAIN tokens
  BY DEF StoreTypeOK, CallTypeOK, Issues
<1>3. held' = held \union new
  OBVIOUS
<1>4. /\ exchanges[p].family \notin reused /\ \A t \in held : tokens[t].family # exchanges[p].family
      /\ \A q \in Calls : q # p /\ Issues(q) => exchanges[q].family # exchanges[p].family
  BY DEF LinearInv, FirstPair
<1>5. /\ \A t \in new : tokens'[t].family = exchanges[p].family
      /\ \A t \in new : tokens'[t].kind = "refresh" => t = n
  BY <1>1, <1>2 DEF LinearInv, Chain, IsRefresh
<1>6. \A q \in Calls : Issues(q)' => q # p /\ Issues(q) /\ exchanges'[q] = exchanges[q]
  BY DEF Issues, Idle, Issuance
<1> HIDE DEF n
<1>7. ASSUME NEW q \in Calls PROVE Chain(q)'
  <2>1. CASE q = p
    BY <1>6, <2>1 DEF Chain
  <2>2. CASE q # p
    <3>1. Issues(q) => exchanges[q].pair \intersect held' = {}
      BY <1>1, <1>2, <1>3, <2>2 DEF LinearInv, Chain, OwnPairs
    <3> QED
      BY <1>1, <2>2, <3>1, OthersKeep
  <2> QED
    BY <2>1, <2>2
<1> HIDE DEF new
<1>8. OwnPairs'
  BY <1>6 DEF LinearInv, OwnPairs
<1>9. FirstPair'
  BY <1>1, <1>2, <1>3, <1>4, <1>5, <1>6 DEF LinearInv, FirstPair
<1>10. \A t : Claimed(t)' => Claimed(t) \/ t \in new
  BY <1>3, <1>6 DEF Claimed, Landing
<1>11. \A t : Claimed(t) => t \in DOMAIN tokens /\ tokens[t].family # exchanges[p].family
  <2> SUFFICES ASSUME NEW t, Claimed(t) PROVE t \in DOMAIN tokens /\ tokens[t].family # exchanges[p].family
    OBVIOUS
  <2>1. CASE t \in held
    BY <1>2, <1>4, <2>1
  <2>2. ASSUME NEW q \in Calls, Landing(q, t) PROVE t \in DOMAIN tokens /\ tokens[t].family # exchanges[p].family
    <3>1. q # p /\ Issues(q) /\ t \in exchanges[q].pair
      BY <2>2 DEF Landing
    <3> QED
      BY <1>2, <1>4, <3>1 DEF LinearInv, Chain
  <2> QED
    BY <2>1, <2>2 DEF Claimed
<1>12. OneClaim'
  BY <1>1, <1>5, <1>10, <1>11 DEF LinearInv, OneClaim, IsRefresh
<1>13. DeadFamilies'
  BY <1>1, <1>4, <1>5, <1>10, <1>11 DEF LinearInv, DeadFamilies
<1> QED
  BY <1>7, <1>8, <1>9, <1>12, <1>13 DEF LinearInv

\* A rotation lands: the new refresh token takes the place of the old.
LEMMA Landed ==
  ASSUME StoreTypeOK, LinearInv, NEW p \in Calls, Issues(p), exchanges[p].pc = "rotate",
         ~tokens[exchanges[p].old].revoked, tokens' = RotateToken(exchanges[p].old), UNCHANGED <<held, reused>>,
         exchanges'[p] \in Issuance, exchanges'[p].pc = "check", exchanges'[p].pair = exchanges[p].pair,
         exchanges'[p].family = exchanges[p].family, exchanges'[p].old = exchanges[p].old,
         \A q \in Calls \ {p} : exchanges'[q] = exchanges[q]
  PROVE  LinearInv'
<1> DEFINE old == exchanges[p].old
           f == exchanges[p].family
<1>1. /\ held \subseteq DOMAIN tokens /\ old \in DOMAIN tokens /\ old # 0 /\ exchanges[p].pair \subseteq DOMAIN tokens
  <2>1. held \subseteq DOMAIN tokens /\ old \in DOMAIN tokens /\ exchanges[p].pair \subseteq DOMAIN tokens
    BY DEF StoreTypeOK, CallTypeOK, Issues
  <2> QED
    BY <2>1, IdsAreNat
<1>2. /\ TokensKeep /\ tokens'[old].revoked
  BY <1>1, TokenMarked
<1>3. old \in held /\ IsRefresh(old) /\ tokens[old].family = f
  BY <1>1 DEF LinearInv, Chain
<1>4. /\ \A t \in exchanges[p].pair : tokens[t].family = f
      /\ \A t, u \in exchanges[p].pair : IsRefresh(t) /\ IsRefresh(u) => t = u
  BY DEF LinearInv, Chain
<1>5. \A q \in Calls : Issues(q)' => /\ Issues(q) /\ exchanges'[q].family = exchanges[q].family
                                     /\ exchanges'[q].old = exchanges[q].old /\ exchanges'[q].pair = exchanges[q].pair
  BY DEF Issues
<1>6. ASSUME NEW q \in Calls PROVE Chain(q)'
  <2>1. CASE q = p
    <3>1. Chain(p)
      BY DEF LinearInv
    <3> QED
      BY <1>1, <1>2, <2>1, <3>1 DEF Chain, IsRefresh, TokensKeep
  <2>2. CASE q # p
    <3>1. Issues(q) => exchanges[q].pair \intersect held' = {}
      BY DEF LinearInv, Chain
    <3> QED
      BY <1>2, <2>2, <3>1, OthersKeep DEF TokensKeep
  <2> QED
    BY <2>1, <2>2
<1>7. OwnPairs'
  BY <1>5 DEF LinearInv, OwnPairs
<1>8. FirstPair'
  BY <1>1, <1>2, <1>5 DEF LinearInv, FirstPair, TokensKeep
<1>9. \A t : Claimed(t)' => Claimed(t) \/ t \in exchanges[p].pair
  BY DEF Claimed, Landing, Issues
<1>10. Claimed(old)
  BY <1>3 DEF Claimed
<1>11. \A t \in DOMAIN tokens : Claimed(t) /\ IsRefresh(t) /\ tokens[t].family = f => tokens'[t].revoked
  BY <1>1, <1>2, <1>3, <1>10 DEF LinearInv, OneClaim, TokensKeep
<1>12. f \notin reused
  BY <1>1, <1>3, <1>10 DEF LinearInv, DeadFamilies
<1> HIDE DEF old, f
<1>13. OneClaim'
  <2> SUFFICES ASSUME NEW t \in DOMAIN tokens, NEW u \in DOMAIN tokens, Claimed(t)', Claimed(u)',
                      IsRefresh(t), IsRefresh(u), tokens[t].family = tokens[u].family,
                      ~tokens'[t].revoked, ~tokens'[u].revoked
               PROVE  t = u
    BY <1>2 DEF OneClaim, IsRefresh, TokensKeep
  <2>1. CASE t \in exchanges[p].pair \/ u \in exchanges[p].pair
    <3>1. tokens[t].family = f /\ tokens[u].family = f
      BY <1>4, <2>1
    <3>2. ~Claimed(t) /\ ~Claimed(u)
      BY <1>11, <3>1
    <3> QED
      BY <1>4, <1>9, <3>2
  <2>2. CASE Claimed(t) /\ Claimed(u)
    BY <1>2, <2>2 DEF LinearInv, OneClaim, TokensKeep
  <2> QED
    BY <1>9, <2>1, <2>2
<1>14. DeadFamilies'
  BY <1>2, <1>4, <1>9, <1>12 DEF LinearInv, DeadFamilies, TokensKeep
<1> QED
  BY <1>6, <1>7, <1>8, <1>13, <1>14 DEF LinearInv

\* A refresh answers with the pair whose rotation landed.
LEMMA RefreshAnswers ==
  ASSUME StoreTypeOK, LinearInv, NEW p \in Calls, Issues(p), exchanges[p].pc = "check",
         UNCHANGED <<tokens, reused>>, held' = held \union exchanges[p].pair, exchanges'[p] = Idle,
         \A q \in Calls \ {p} : exchanges'[q] = exchanges[q]
  PROVE  LinearInv'
<1>1. \A q \in Calls : Issues(q)' => q # p /\ Issues(q) /\ exchanges'[q] = exchanges[q]
  BY DEF Issues, Idle, Issuance
<1>2. ASSUME NEW q \in Calls PROVE Chain(q)'
  <2>1. CASE q = p
    BY <1>1, <2>1 DEF Chain
  <2>2. CASE q # p
    <3>1. Issues(q) => exchanges[q].pair \intersect held' = {}
      BY <2>2 DEF LinearInv, Chain, OwnPairs
    <3> QED
      BY <2>2, <3>1, OthersKeep
  <2> QED
    BY <2>1, <2>2
<1>3. OwnPairs'
  BY <1>1 DEF LinearInv, OwnPairs
<1>4. FirstPair'
  <2>1. \A t \in exchanges[p].pair : tokens[t].family = exchanges[p].family
    BY DEF LinearInv, Chain
  <2> QED
    BY <1>1, <2>1 DEF LinearInv, FirstPair
<1>5. \A t : Claimed(t)' => Claimed(t)
  BY <1>1 DEF Claimed, Landing
<1> QED
  BY <1>2, <1>3, <1>4, <1>5 DEF LinearInv, OneClaim, DeadFamilies, IsRefresh

LEMMA LinearStart == OAuthInit => LinearInv
<1> SUFFICES ASSUME OAuthInit PROVE LinearInv
  OBVIOUS
<1>1. DOMAIN tokens = {} /\ held = {} /\ \A p \in Calls : ~Issues(p)
  BY DEF OAuthInit, Issues, Idle, Issuance
<1> QED
  BY <1>1 DEF LinearInv, Chain, OwnPairs, FirstPair, OneClaim, DeadFamilies

LEMMA LinearStep == StoreTypeOK /\ LinearInv /\ OAuthNext => LinearInv'
<1> SUFFICES ASSUME StoreTypeOK, LinearInv, OAuthNext PROVE LinearInv'
  OBVIOUS
<1>1. /\ Idle \notin Issuance /\ Authorization \intersect Issuance = {}
      /\ tokens' = tokens => TokensKeep
  BY DEF Idle, Issuance, Authorization, TokensKeep
<1>2. ASSUME TokensKeep, UNCHANGED <<held, reused>>,
             \A q \in Calls : exchanges'[q] = exchanges[q] \/ exchanges'[q] \notin Issuance
      PROVE  LinearInv'
  BY <1>2, NothingClaimed
<1>3. ASSUME NEW p \in Calls, AuthorizeStore(p) \/ CallFails(p) PROVE LinearInv'
  <2>1. exchanges' = [exchanges EXCEPT ![p] = Idle] /\ UNCHANGED <<tokens, held, reused>>
    BY <1>3 DEF AuthorizeStore, CallFails
  <2>2. exchanges'[p] = Idle /\ \A q \in Calls \ {p} : exchanges'[q] = exchanges[q]
    BY <2>1, CallSet
  <2> QED
    BY <1>1, <1>2, <2>1, <2>2
<1>4. ASSUME NEW p \in Calls, NEW c \in Clients, NEW u \in Users, NEW s \in SUBSET mix.scopes,
             AuthorizeBegin(p, c, u, s)
      PROVE  LinearInv'
  <2> DEFINE e == [pc |-> "code", client |-> c, user |-> u, scope |-> s]
  <2>1. s \in SUBSET Scopes
    BY OAuthAssumption DEF StoreTypeOK
  <2>2. e \in Authorization
    BY <2>1 DEF Authorization
  <2>3. exchanges' = [exchanges EXCEPT ![p] = e] /\ UNCHANGED <<tokens, held, reused>>
    BY <1>4 DEF AuthorizeBegin
  <2> HIDE DEF e
  <2>4. exchanges'[p] = e /\ \A q \in Calls \ {p} : exchanges'[q] = exchanges[q]
    BY <2>2, <2>3, CallSet
  <2> QED
    BY <1>1, <1>2, <2>2, <2>3, <2>4
<1>5. ASSUME NEW p \in Calls, NEW c \in Clients, NEW k \in DOMAIN codes, NEW m \in BOOLEAN, ExchangeCode(p, c, k, m)
      PROVE  LinearInv'
  <2>1. UNCHANGED <<tokens, held, reused>> /\ exchanges[p] = Idle
    BY <1>5 DEF ExchangeCode
  <2>2. /\ \A q \in Calls \ {p} : exchanges'[q] = exchanges[q]
        /\ \/ exchanges' = exchanges
           \/ /\ exchanges'[p] \in Issuance /\ exchanges'[p].pc = "access" /\ exchanges'[p].pair = {}
              /\ exchanges'[p].old = 0 /\ exchanges'[p].family \notin DOMAIN families
    BY <1>5, CodeExchanged
  <2>3. CASE exchanges' = exchanges
    BY <1>1, <1>2, <2>1, <2>3
  <2> QED
    BY <2>1, <2>2, <2>3, Begun
<1>6. ASSUME NEW p \in Calls, NEW c \in Clients, NEW t \in DOMAIN tokens, Refresh(p, c, t) PROVE LinearInv'
  <2>1. UNCHANGED <<tokens, held, reused>>
    BY <1>6 DEF Refresh
  <2>2. /\ exchanges[p] = Idle /\ \A q \in Calls \ {p} : exchanges'[q] = exchanges[q]
        /\ exchanges'[p] \in Issuance /\ exchanges'[p].pc \in {"access", "reuse"} /\ exchanges'[p].pair = {}
        /\ exchanges'[p].old # 0 /\ exchanges'[p].old \in held /\ IsRefresh(exchanges'[p].old)
        /\ exchanges'[p].family = tokens[exchanges'[p].old].family
    BY <1>6, Refreshing DEF IsRefresh
  <2> QED
    BY <2>1, <2>2, Begun
<1>7. ASSUME NEW p \in Calls, PutAccess(p) PROVE LinearInv'
  <2> DEFINE n == Len(tokens) + 1
  <2>1. /\ Issues(p) /\ exchanges[p].pc = "access" /\ tokens' = Mint(p, "access")
        /\ exchanges'[p] \in Issuance /\ exchanges'[p].pc = "refresh" /\ exchanges'[p].pair = {n}
        /\ exchanges'[p].family = exchanges[p].family /\ exchanges'[p].old = exchanges[p].old
        /\ \A q \in Calls \ {p} : exchanges'[q] = exchanges[q]
    BY <1>7, AccessPut DEF Issues
  <2>2. exchanges[p].pair = {}
    BY <2>1 DEF LinearInv, Chain
  <2>3. exchanges'[p].pair = exchanges[p].pair \union {n}
    BY <2>1, <2>2
  <2>4. UNCHANGED <<held, reused>>
    BY <1>7 DEF PutAccess
  <2> QED
    BY <2>1, <2>3, <2>4, PairGrows
<1>8. ASSUME NEW p \in Calls, PutRefresh(p) PROVE LinearInv'
  <2>1. /\ Issues(p) /\ exchanges[p].pc = "refresh" /\ tokens' = Mint(p, "refresh") /\ reused' = reused
        /\ \A q \in Calls \ {p} : exchanges'[q] = exchanges[q]
    BY <1>8, RefreshPut DEF Issues, PutRefresh
  <2>2. CASE exchanges[p].old = 0
    <3>1. exchanges'[p] = Idle /\ held' = held \union exchanges[p].pair \union {Len(tokens) + 1}
      BY <1>8, <2>2, RefreshPut
    <3> QED
      BY <2>1, <2>2, <3>1, FirstAnswer
  <2>3. CASE exchanges[p].old # 0
    <3>1. /\ held' = held /\ exchanges'[p] \in Issuance /\ exchanges'[p].pc = "rotate"
          /\ exchanges'[p].pair = exchanges[p].pair \union {Len(tokens) + 1}
          /\ exchanges'[p].family = exchanges[p].family /\ exchanges'[p].old = exchanges[p].old
      BY <1>8, <2>3, RefreshPut
    <3> QED
      BY <2>1, <3>1, PairGrows
  <2> QED
    BY <2>2, <2>3
<1>9. ASSUME NEW p \in Calls, ReuseDetected(p) \/ LostRotation(p) \/ RefuseSwept(p) PROVE LinearInv'
  <2>1. /\ Issues(p) /\ exchanges'[p] = Idle /\ \A q \in Calls \ {p} : exchanges'[q] = exchanges[q]
        /\ tokens' = RevokeFamily(exchanges[p].family) /\ held' = held
        /\ reused' \subseteq reused \union {exchanges[p].family}
    BY <1>9, Swept DEF Issues
  <2>2. TokensKeep /\ \A t \in DOMAIN tokens : tokens[t].family = exchanges[p].family => tokens'[t].revoked
    BY <2>1, FamilyRevoked
  <2> QED
    BY <1>1, <2>1, <2>2, NothingClaimed
<1>10. ASSUME NEW p \in Calls, Rotate(p) PROVE LinearInv'
  <2>1. /\ Issues(p) /\ exchanges[p].pc = "rotate"
        /\ exchanges'[p] \in Issuance /\ exchanges'[p].pair = exchanges[p].pair
        /\ exchanges'[p].family = exchanges[p].family /\ exchanges'[p].old = exchanges[p].old
        /\ \A q \in Calls \ {p} : exchanges'[q] = exchanges[q]
        /\ \/ exchanges'[p].pc = "lost" /\ tokens' = tokens
           \/ /\ exchanges'[p].pc = "check" /\ ~tokens[exchanges[p].old].revoked
              /\ tokens' = RotateToken(exchanges[p].old)
    BY <1>10, Rotated DEF Issues
  <2>2. UNCHANGED <<held, reused>>
    BY <1>10 DEF Rotate
  <2>3. CASE exchanges'[p].pc = "lost" /\ tokens' = tokens
    BY <1>1, <2>1, <2>2, <2>3, NothingClaimed
  <2>4. CASE /\ exchanges'[p].pc = "check" /\ ~tokens[exchanges[p].old].revoked
             /\ tokens' = RotateToken(exchanges[p].old)
    BY <2>1, <2>2, <2>4, Landed
  <2> QED
    BY <2>1, <2>3, <2>4
<1>11. ASSUME NEW p \in Calls, CheckFresh(p) PROVE LinearInv'
  <2>1. /\ Issues(p) /\ exchanges[p].pc = "check" /\ \A q \in Calls \ {p} : exchanges'[q] = exchanges[q]
        /\ \/ /\ exchanges'[p].pair = exchanges[p].pair /\ exchanges'[p].family = exchanges[p].family
              /\ exchanges'[p].old = exchanges[p].old /\ exchanges'[p].pc = "swept" /\ held' = held
           \/ exchanges'[p] = Idle /\ held' = held \union exchanges[p].pair
    BY <1>11, Checked DEF Issues
  <2>2. UNCHANGED <<tokens, reused>>
    BY <1>11 DEF CheckFresh
  <2>3. CASE exchanges'[p] = Idle /\ held' = held \union exchanges[p].pair
    BY <2>1, <2>2, <2>3, RefreshAnswers
  <2>4. CASE /\ exchanges'[p].pair = exchanges[p].pair /\ exchanges'[p].family = exchanges[p].family
             /\ exchanges'[p].old = exchanges[p].old /\ exchanges'[p].pc = "swept" /\ held' = held
    BY <1>1, <2>1, <2>2, <2>4, NothingClaimed
  <2> QED
    BY <2>1, <2>3, <2>4
<1>12. ASSUME NEW t \in DOMAIN tokens, Revoke(t) PROVE LinearInv'
  <2>1. tokens' = RevokeToken(t) /\ UNCHANGED <<held, reused, exchanges>>
    BY <1>12 DEF Revoke
  <2> QED
    BY <1>2, <2>1, TokenMarked
<1>13. CASE RecordsExpire
  <2>1. UNCHANGED <<held, reused, exchanges>>
    BY <1>13 DEF RecordsExpire
  <2>2. tokens' = tokens \/ \E t \in DOMAIN tokens : tokens' = [tokens EXCEPT ![t].expired = TRUE]
    BY <1>13 DEF RecordsExpire
  <2>3. TokensKeep
    BY <1>1, <2>2, TokenMarked
  <2> QED
    BY <1>2, <2>1, <2>3
<1>14. ASSUME UNCHANGED <<tokens, held, reused, exchanges>> PROVE LinearInv'
  BY <1>1, <1>2, <1>14
<1>15. ASSUME \/ \E c \in Clients, s \in SUBSET mix.scopes : RegisterClient(c, s)
              \/ \E c \in Clients, u \in Users, s \in SUBSET mix.scopes : GrantConsent(c, u, s)
              \/ StartEndSession
              \/ \E h \in DOMAIN hints : CompleteEndSession(h)
       PROVE  LinearInv'
  BY <1>14, <1>15 DEF RegisterClient, GrantConsent, StartEndSession, CompleteEndSession
<1>16. ASSUME NEW p \in Calls, CallStep(p) PROVE LinearInv'
  BY <1>3, <1>7, <1>8, <1>9, <1>10, <1>11, <1>16 DEF CallStep
<1> QED
  BY <1>3, <1>4, <1>5, <1>6, <1>12, <1>13, <1>15, <1>16 DEF OAuthNext

\* However many presenters of refresh tokens race, in every order of mint,
\* rotation, sweep and check and with every failure between them, of the
\* refresh tokens of a grant that clients hold one works at a time, and once a
\* reuse is answered nothing of the grant does (oauth-server.ts refresh).
THEOREM RotationIsLinear == OAuthSpec => []RefreshIsLinear
<1> DEFINE Inv == StoreTypeOK /\ LinearInv
<1>1. OAuthInit => Inv
  BY OAuthStart, LinearStart
<1>2. Inv /\ [OAuthNext]_oauthVars => Inv'
  <2> SUFFICES ASSUME Inv, [OAuthNext]_oauthVars PROVE Inv'
    OBVIOUS
  <2>1. CASE OAuthNext
    BY <2>1, OAuthStep, LinearStep
  <2>2. CASE UNCHANGED oauthVars
    <3>1. StoreTypeOK'
      BY <2>2 DEF oauthVars, StoreTypeOK, CallTypeOK
    <3>2. TokensKeep /\ UNCHANGED <<held, reused, exchanges>>
      BY <2>2 DEF oauthVars, TokensKeep
    <3> QED
      BY <3>1, <3>2, NothingClaimed
  <2> QED
    BY <2>1, <2>2
<1>3. Inv => RefreshIsLinear
  <2> SUFFICES ASSUME Inv PROVE RefreshIsLinear
    OBVIOUS
  <2>1. held \subseteq DOMAIN tokens /\ \A t \in held : Claimed(t)
    BY DEF StoreTypeOK, Claimed
  <2>2. OneRefreshWorks
    BY <2>1 DEF LinearInv, OneClaim, OneRefreshWorks, IsRefresh, Active
  <2>3. ReuseKillsTheFamily
    BY <2>1 DEF LinearInv, DeadFamilies, ReuseKillsTheFamily, Active, VerifyAccessToken
  <2> QED
    BY <2>2, <2>3 DEF RefreshIsLinear
<1> QED
  BY <1>1, <1>2, <1>3, PTL DEF OAuthSpec

-----------------------------------------------------------------------------
\* API keys.

KeyRow == [state : {"unborn", "live", "expired"}, revoked : BOOLEAN, version : Nat, hash : Nat]
Unused == [pc |-> "idle"]
Verification == [pc : {"mark", "rehash", "accepted"}, replica : Replicas, key : Keys, late : {FALSE}]

\* A key whose revocation was answered has a revoked row, so that no
\* verification under way began on it since, and a digest matches its version.
KeysInv ==
    /\ keys \in [Keys -> KeyRow]
    /\ checks \in [Verifiers -> {Unused} \union Verification]
    /\ \A k \in revokedKeys : k \in Keys /\ keys[k].revoked /\ keys[k].state # "unborn"
    /\ \A k \in Keys : keys[k].hash = keys[k].version

\* An update of one row under which it stays well-formed and a revocation stays.
LEMMA RowUpdated ==
  ASSUME KeysInv, NEW k \in Keys, NEW row \in KeyRow, keys' = [keys EXCEPT ![k] = row],
         row.hash = row.version, keys[k].state # "unborn" => row.state # "unborn",
         k \in revokedKeys => row.revoked, revokedKeys' = revokedKeys,
         checks' \in [Verifiers -> {Unused} \union Verification]
  PROVE  KeysInv'
<1>1. keys' \in [Keys -> KeyRow] /\ keys'[k] = row /\ \A j \in Keys \ {k} : keys'[j] = keys[j]
  BY DEF KeysInv
<1>2. \A j \in revokedKeys' : j \in Keys /\ keys'[j].revoked /\ keys'[j].state # "unborn"
  BY <1>1 DEF KeysInv
<1>3. \A j \in Keys : keys'[j].hash = keys'[j].version
  BY <1>1 DEF KeysInv
<1> QED
  BY <1>1, <1>2, <1>3 DEF KeysInv

\* A verification begins, goes on or ends.
LEMMA CheckSet ==
  ASSUME KeysInv, NEW v \in Verifiers, NEW c \in {Unused} \union Verification,
         checks' = [checks EXCEPT ![v] = c]
  PROVE  checks' \in [Verifiers -> {Unused} \union Verification]
BY DEF KeysInv

\* A verification under way moves to its next statement.
LEMMA CheckMoved ==
  ASSUME KeysInv, NEW v \in Verifiers, checks[v] \in Verification, NEW pc \in {"mark", "accepted"},
         checks' = [checks EXCEPT ![v].pc = pc]
  PROVE  checks' \in [Verifiers -> {Unused} \union Verification]
<1> DEFINE c == [checks[v] EXCEPT !.pc = pc]
<1>1. c \in Verification /\ checks' = [checks EXCEPT ![v] = c]
  BY DEF Verification
<1> HIDE DEF c
<1> QED
  BY <1>1, CheckSet

LEMMA KeysStep == KeysInv /\ [ApiKeyNext]_keyVars => KeysInv'
<1> SUFFICES ASSUME KeysInv, [ApiKeyNext]_keyVars PROVE KeysInv'
  OBVIOUS
<1>1. /\ \A r \in Replicas : Current[r] \in Nat
      /\ \A k \in Keys : keys[k] \in KeyRow
      /\ checks \in [Verifiers -> {Unused} \union Verification]
  BY PepperAssumption DEF KeysInv
<1>2. \A v \in Verifiers : checks[v].pc # "idle" => checks[v] \in Verification
  BY <1>1 DEF Unused
<1>3. ASSUME NEW k \in Keys, RevokeKey(k) PROVE KeysInv'
  <2> DEFINE row == [keys[k] EXCEPT !.revoked = TRUE]
  <2>1. /\ row \in KeyRow /\ row.revoked /\ row.state = keys[k].state /\ row.hash = keys[k].hash
        /\ row.version = keys[k].version
    BY <1>1 DEF KeyRow
  <2>2. /\ keys' = [keys EXCEPT ![k] = row] /\ revokedKeys' = revokedKeys \union {k} /\ checks' = checks
        /\ keys[k].state # "unborn"
    BY <1>3 DEF RevokeKey
  <2> HIDE DEF row
  <2>3. keys' \in [Keys -> KeyRow] /\ keys'[k] = row /\ \A j \in Keys \ {k} : keys'[j] = keys[j]
    BY <2>1, <2>2 DEF KeysInv
  <2> QED
    BY <2>1, <2>2, <2>3 DEF KeysInv
<1>4. ASSUME NEW k \in Keys, ExpireKey(k) PROVE KeysInv'
  <2> DEFINE row == [keys[k] EXCEPT !.state = "expired"]
  <2>1. /\ row \in KeyRow /\ row.revoked = keys[k].revoked /\ row.state = "expired" /\ row.hash = keys[k].hash
        /\ row.version = keys[k].version
    BY <1>1 DEF KeyRow
  <2>2. keys' = [keys EXCEPT ![k] = row] /\ revokedKeys' = revokedKeys /\ checks' = checks
    BY <1>4 DEF ExpireKey
  <2> HIDE DEF row
  <2> QED
    BY <1>1, <2>1, <2>2, RowUpdated DEF KeysInv
<1>5. ASSUME NEW k \in Keys, NEW r \in Replicas, MintKey(r, k) PROVE KeysInv'
  <2> DEFINE row == [state |-> "live", revoked |-> FALSE, version |-> Current[r], hash |-> Current[r]]
  <2>1. row \in KeyRow /\ row.state = "live" /\ row.hash = row.version
    BY <1>1 DEF KeyRow
  <2>2. keys' = [keys EXCEPT ![k] = row] /\ revokedKeys' = revokedKeys /\ checks' = checks /\ k \notin revokedKeys
    BY <1>5 DEF MintKey, KeysInv
  <2> HIDE DEF row
  <2> QED
    BY <1>1, <2>1, <2>2, RowUpdated
<1>6. ASSUME NEW v \in Verifiers, Rehash(v) PROVE KeysInv'
  <2> DEFINE k == checks[v].key
             n == Current[checks[v].replica]
             row == [state |-> keys[k].state, revoked |-> keys[k].revoked, version |-> n, hash |-> n]
  <2>1. checks[v] \in Verification
    BY <1>2, <1>6 DEF Rehash
  <2>2. k \in Keys /\ n \in Nat
    BY <1>1, <2>1 DEF Verification
  <2>3. /\ row \in KeyRow /\ row.revoked = keys[k].revoked /\ row.state = keys[k].state /\ row.hash = row.version
    BY <1>1, <2>2 DEF KeyRow
  <2>4. keys' = [keys EXCEPT ![k] = row]
    <3> DEFINE half == [keys[k] EXCEPT !.version = n]
    <3>1. keys' = [keys EXCEPT ![k] = [half EXCEPT !.hash = n]]
      BY <1>6 DEF Rehash, ReplaceHash
    <3>2. keys[k] \in KeyRow
      BY <1>1, <2>2
    <3>3. half = [state |-> keys[k].state, revoked |-> keys[k].revoked, version |-> n, hash |-> keys[k].hash]
      <4> HIDE DEF n, k
      <4> QED
        BY <3>2 DEF KeyRow
    <3> HIDE DEF half, n, k
    <3>4. [half EXCEPT !.hash = n] = row
      BY <3>3
    <3> QED
      BY <3>1, <3>4
  <2>5. checks' \in [Verifiers -> {Unused} \union Verification]
    BY <1>6, <2>1, CheckMoved DEF Rehash
  <2>6. k \in revokedKeys => row.revoked
    BY <2>3 DEF KeysInv
  <2>7. revokedKeys' = revokedKeys
    BY <1>6 DEF Rehash
  <2> HIDE DEF row, k, n
  <2> QED
    BY <2>2, <2>3, <2>4, <2>5, <2>6, <2>7, RowUpdated
<1>7. ASSUME UNCHANGED <<keys, revokedKeys>>, checks' \in [Verifiers -> {Unused} \union Verification]
      PROVE  KeysInv'
  BY <1>7 DEF KeysInv
<1>8. ASSUME NEW v \in Verifiers, Accept(v) PROVE KeysInv'
  BY <1>2, <1>7, <1>8, CheckMoved DEF Accept
<1>9. ASSUME NEW v \in Verifiers, Done(v) PROVE KeysInv'
  BY <1>7, <1>9, CheckSet DEF Done, Unused
<1>10. ASSUME NEW v \in Verifiers, NEW r \in Replicas, NEW k \in Keys, BeginVerify(v, r, k) PROVE KeysInv'
  <2> DEFINE pc == IF keys[k].version = Current[r] THEN "mark" ELSE "rehash"
             c == [pc |-> pc, replica |-> r, key |-> k, late |-> k \in revokedKeys]
  <2>1. k \notin revokedKeys
    BY <1>10 DEF BeginVerify, KeysInv
  <2>2. pc \in {"mark", "rehash", "accepted"} /\ (k \in revokedKeys) = FALSE
    BY <2>1
  <2>3. checks' = [checks EXCEPT ![v] = c] /\ UNCHANGED <<keys, revokedKeys>>
    BY <1>10 DEF BeginVerify
  <2> HIDE DEF pc
  <2>4. c \in Verification
    BY <2>2 DEF Verification
  <2> HIDE DEF c
  <2> QED
    BY <1>7, <2>3, <2>4, CheckSet
<1>11. CASE UNCHANGED keyVars
  BY <1>1, <1>7, <1>11 DEF keyVars
<1> QED
  BY <1>3, <1>4, <1>5, <1>6, <1>8, <1>9, <1>10, <1>11 DEF ApiKeyNext

\* However many replicas rotate their peppers and rehash a key at once, no
\* verification that began after its revocation was answered is accepted, and a
\* stored digest is the one of the version beside it (apikey.ts verify, revoke).
THEOREM KeysStayDead == ApiKeySpec => []KeysSurviveRotation
<1>1. ApiKeyInit => KeysInv
  BY DEF ApiKeyInit, KeysInv, KeyRow, Unused
<1>2. KeysInv => KeysSurviveRotation
  <2> SUFFICES ASSUME KeysInv, NEW v \in Verifiers, checks[v].pc # "idle" PROVE ~checks[v].late
    BY DEF KeysInv, KeysSurviveRotation
  <2>1. checks[v] \in {Unused} \union Verification /\ checks[v] # Unused
    BY DEF KeysInv, Unused
  <2> QED
    BY <2>1 DEF Verification
<1> QED
  BY <1>1, <1>2, KeysStep, PTL DEF ApiKeySpec

-----------------------------------------------------------------------------
\* Logins through a provider.

\* Among positions there is a first.
LEMMA FirstOfIsOne == ASSUME NEW S \in SUBSET Nat, S # {} PROVE FirstOf(S) \in S
<1> DEFINE R == StrictSubsetOrdering(Nat)
           T == {1..n : n \in S}
<1>1. IsWellFoundedOn(R, FiniteSubsetsOf(Nat))
  BY FS_StrictSubsetOrderingWellFounded
<1>2. T \subseteq FiniteSubsetsOf(Nat)
  <2>1. ASSUME NEW n \in S PROVE 1..n \subseteq Nat /\ IsFiniteSet(1..n)
    BY FS_Interval
  <2> QED
    BY <2>1 DEF FiniteSubsetsOf
<1>3. T # {}
  OBVIOUS
<1>4. PICK t \in T : \A u \in T : <<u, t>> \notin R
  <2> HIDE DEF R, T
  <2> QED
    BY <1>1, <1>2, <1>3, WFMin
<1>5. PICK m \in S : t = 1..m
  BY <1>4
<1>6. ASSUME NEW n \in S PROVE m <= n
  <2>1. <<1..n, 1..m>> \notin R
    BY <1>4, <1>5
  <2>2. SUFFICES ASSUME n < m PROVE FALSE
    OBVIOUS
  <2>3. 1..n \subseteq 1..m /\ m \in 1..m /\ m \notin 1..n
    BY <2>2
  <2> QED
    BY <2>1, <2>3 DEF StrictSubsetOrdering
<1> QED
  BY <1>6 DEF FirstOf

LoginSteps == {"idle", "userinfo", "user", "emails", "xuser", "jwks", "jwksAgain", "done", "failed"}
Reasons == {"none", "valid", "provider", "id-token-missing", "id-token-shape", "id-token-alg", "id-token-unknown-kid", "jwk-import",
            "id-token-signature", "id-token-issuer", "id-token-audience", "id-token-expired", "id-token-subject"}
AnyAddressOrNone == MailAddresses \cup {NoMail}
Logins == [pc : LoginSteps, provider : BuiltIns \cup {"oidc", "none"}, token : Tokens \cup {"none"},
           fetched : Seq(KeySetsServed), subject : KnownSubjects \cup {"none"}, email : AnyAddressOrNone,
           emailVerified : BOOLEAN, vouched : SUBSET AnyAddressOrNone, validated : Nat, why : Reasons]

\* What a validated token was checked for, against the key set `jwks` at the time `at`.
IsValidated(t, jwks, iss, at) ==
    /\ t.iss = iss /\ Client \in t.aud /\ t.exp > at
    /\ \E k \in Matching(jwks, t) : Importable(jwks[k]) /\ VerifySignature(jwks[k], t)

\* What a login knows at each of its steps.
LoginOK(l, iss) ==
    /\ l.provider = "oidc" => iss # "none"
    /\ l.pc = "idle" => l.provider = "none"
    /\ l.pc \in {"userinfo", "user", "emails", "xuser"} => l.provider # "oidc"
    /\ l.pc \in {"jwks", "jwksAgain"} => l.provider = "oidc" /\ l.token \in Tokens
    /\ l.pc = "jwks" => l.fetched = <<>>
    /\ l.pc = "jwksAgain" => Len(l.fetched) = 1 /\ Matching(l.fetched[1], l.token) = {}
    /\ l.pc = "done" =>
         /\ l.emailVerified => l.email \in l.vouched
         /\ l.provider = "oidc" => IsValidated(l.token, l.fetched[Len(l.fetched)], iss, l.validated)
    /\ l.pc = "failed" /\ l.why = "id-token-unknown-kid" =>
         /\ Len(l.fetched) = 2
         /\ \A i \in 1..2 : Matching(l.fetched[i], l.token) = {}

ProvidersInv ==
    /\ now \in Nat /\ published \in DOMAIN KeySets
    /\ login \in Logins /\ LoginOK(login, issuer)

\* What validateWith answers with: nothing for a token that passes every check, and otherwise the first
\* check that fails, which is the one of the kid only when no key fits it.
LEMMA ValidationTells ==
  ASSUME NEW t \in Tokens, NEW jwks \in KeySetsServed, NEW why, why = ValidateWith(jwks, t)
  PROVE  /\ why \in Reasons /\ why # "provider" /\ why # "id-token-missing"
         /\ why = "valid" => IsValidated(t, jwks, issuer, now) /\ t.sub \in KnownSubjects
         /\ why = "id-token-unknown-kid" => Matching(jwks, t) = {}
<1> DEFINE m == Matching(jwks, t)
           all == Checks(jwks, t)
           failing == {i \in DOMAIN all : ~all[i][1]}
<1>1. m \subseteq Nat
  BY ProvidersAssumption DEF Matching
<1>2. DOMAIN all = 1..9
  BY DEF Checks
<1>3. /\ all[1][2] = "id-token-shape" /\ all[2][2] = "id-token-alg" /\ all[3][2] = "id-token-unknown-kid"
      /\ all[4][2] = "jwk-import" /\ all[5][2] = "id-token-signature" /\ all[6][2] = "id-token-issuer"
      /\ all[7][2] = "id-token-audience" /\ all[8][2] = "id-token-expired" /\ all[9][2] = "id-token-subject"
  BY DEF Checks
<1>4. /\ all[3][1] <=> m # {}
      /\ all[4][1] <=> m # {} /\ Importable(jwks[FirstOf(m)])
      /\ all[5][1] <=> m # {} /\ VerifySignature(jwks[FirstOf(m)], t)
      /\ all[6][1] <=> t.iss = issuer
      /\ all[7][1] <=> Client \in t.aud
      /\ all[8][1] <=> t.exp > now
      /\ all[9][1] <=> t.sub \in KnownSubjects
  BY DEF Checks
<1> HIDE DEF all, m
<1>5. why = IF failing = {} THEN "valid" ELSE all[FirstOf(failing)][2]
  BY DEF ValidateWith, all
<1>6. CASE failing = {}
  <2>1. why = "valid"
    BY <1>5, <1>6
  <2>4. \A i \in 1..9 : all[i][1]
    BY Zenon, <1>2, <1>6
  <2>5. 3 \in 1..9 /\ 4 \in 1..9 /\ 5 \in 1..9 /\ 6 \in 1..9 /\ 7 \in 1..9 /\ 8 \in 1..9 /\ 9 \in 1..9
    OBVIOUS
  <2>2. /\ m # {} /\ Importable(jwks[FirstOf(m)]) /\ VerifySignature(jwks[FirstOf(m)], t)
        /\ t.iss = issuer /\ Client \in t.aud /\ t.exp > now /\ t.sub \in KnownSubjects
    BY Zenon, <1>4, <2>4, <2>5
  <2>3. FirstOf(m) \in m
    BY <1>1, <2>2, FirstOfIsOne
  <2> QED
    BY <2>1, <2>2, <2>3 DEF IsValidated, m, Reasons
<1>7. CASE failing # {}
  <2>1. FirstOf(failing) \in failing /\ failing \subseteq 1..9
    BY <1>2, <1>7, FirstOfIsOne
  <2>2. PICK i \in 1..9 : i = FirstOf(failing) /\ ~all[i][1] /\ why = all[i][2]
    BY <1>5, <1>7, <2>1
  <2>4. i = 1 \/ i = 2 \/ i = 3 \/ i = 4 \/ i = 5 \/ i = 6 \/ i = 7 \/ i = 8 \/ i = 9
    BY <2>2
  <2>3. why \in Reasons \ {"none", "valid", "provider", "id-token-missing"} /\ (why = "id-token-unknown-kid" => i = 3)
    BY <1>3, <2>2, <2>4 DEF Reasons
  <2> QED
    BY <1>4, <2>2, <2>3 DEF m
<1> QED
  BY <1>6, <1>7

LEMMA ProvidersStart == ProvidersInit => ProvidersInv
<1> SUFFICES ASSUME ProvidersInit PROVE ProvidersInv
  OBVIOUS
<1>1. Fresh \in Logins /\ Fresh.pc = "idle" /\ Fresh.provider = "none"
  BY DEF Fresh, Logins, LoginSteps, Reasons, AnyAddressOrNone
<1>2. LoginOK(Fresh, issuer)
  BY <1>1 DEF LoginOK
<1>3. 1 \in DOMAIN KeySets
  BY ProvidersAssumption, LenProperties, EmptySeq
<1> QED
  BY <1>1, <1>2, <1>3 DEF ProvidersInit, ProvidersInv

\* A step that puts a login in order keeps the invariant.
LEMMA LoginKeeps ==
  ASSUME ProvidersInv, NEW l \in Logins, LoginOK(l, issuer), login' = l, UNCHANGED << issuer, published, now >>
  PROVE  ProvidersInv'
<1>1. LoginOK(login, issuer)'
  BY DEF LoginOK, IsValidated, Matching, Importable, VerifySignature
<1> QED
  BY <1>1 DEF ProvidersInv

LEMMA DiscoverKeeps == ASSUME ProvidersInv, Discover PROVE ProvidersInv'
<1>1. login.pc = "idle" /\ login.provider = "none" /\ UNCHANGED << login, published, now >>
  BY DEF Discover, ProvidersInv, LoginOK
<1>2. LoginOK(login, issuer')
  BY <1>1 DEF LoginOK
<1>3. LoginOK(login, issuer)'
  BY <1>1, <1>2
<1> QED
  BY <1>1, <1>3 DEF ProvidersInv

LEMMA ExchangeKeeps == ASSUME ProvidersInv, Exchange PROVE ProvidersInv'
<1>1. PICK p \in BuiltIns \cup {"oidc"}, t \in Tokens, hasIdToken \in BOOLEAN :
         /\ Resolves(p)
         /\ login' = IF IdTokenMissing(p, hasIdToken)
                     THEN [Fresh EXCEPT !.pc = "failed", !.provider = p, !.why = "id-token-missing"]
                     ELSE [Fresh EXCEPT !.pc = FirstFetch(p), !.provider = p, !.token = t]
  BY DEF Exchange
<1>2. UNCHANGED << issuer, published, now >>
  BY DEF Exchange
<1>3. p = "oidc" => issuer # "none"
  BY <1>1 DEF Resolves, BuiltIns
<1>4. Fresh \in Logins /\ Fresh.fetched = << >>
  BY DEF Fresh, Logins, LoginSteps, Reasons, AnyAddressOrNone
<1>5. CASE login' = [Fresh EXCEPT !.pc = "failed", !.provider = p, !.why = "id-token-missing"]
  <2> DEFINE l == [Fresh EXCEPT !.pc = "failed", !.provider = p, !.why = "id-token-missing"]
  <2>1. l \in Logins
    BY <1>4 DEF Logins, LoginSteps, Reasons
  <2>2. l.pc = "failed" /\ l.why = "id-token-missing" /\ l.provider = p
    BY <1>4 DEF Logins
  <2> HIDE DEF l
  <2>3. LoginOK(l, issuer)
    BY <1>3, <2>2 DEF LoginOK
  <2> QED
    BY <1>2, <1>5, <2>1, <2>3, LoginKeeps DEF l
<1>6. CASE login' = [Fresh EXCEPT !.pc = FirstFetch(p), !.provider = p, !.token = t]
  <2> DEFINE l == [Fresh EXCEPT !.pc = FirstFetch(p), !.provider = p, !.token = t]
  <2>1. /\ FirstFetch(p) \in {"userinfo", "user", "xuser", "jwks"}
        /\ FirstFetch(p) = "jwks" <=> p = "oidc"
    BY DEF FirstFetch, BuiltIns
  <2>2. l \in Logins
    BY <1>4, <2>1 DEF Logins, LoginSteps
  <2>3. l.pc = FirstFetch(p) /\ l.provider = p /\ l.token = t /\ l.fetched = << >>
    BY <1>4 DEF Logins
  <2> HIDE DEF l
  <2>4. LoginOK(l, issuer)
    BY <1>3, <2>1, <2>3 DEF LoginOK
  <2> QED
    BY <1>2, <1>6, <2>2, <2>4, LoginKeeps DEF l
<1> QED
  BY <1>1, <1>5, <1>6

LEMMA FetchFailsKeeps == ASSUME ProvidersInv, FetchFails PROVE ProvidersInv'
<1> DEFINE l == [login EXCEPT !.pc = "failed", !.why = "provider"]
<1>1. login' = l /\ UNCHANGED << issuer, published, now >>
  BY DEF FetchFails
<1>2. l \in Logins /\ l.pc = "failed" /\ l.why = "provider" /\ l.provider = login.provider
  BY DEF ProvidersInv, Logins, LoginSteps, Reasons
<1> HIDE DEF l
<1>3. LoginOK(l, issuer)
  BY <1>2 DEF LoginOK, ProvidersInv
<1> QED
  BY <1>1, <1>2, <1>3, LoginKeeps

LEMMA UserInfoKeeps == ASSUME ProvidersInv, UserInfo PROVE ProvidersInv'
<1>1. PICK s \in KnownSubjects, e \in MailAddresses \cup {NoMail}, f \in Flags :
         login' = [login EXCEPT !.pc = "done", !.subject = s, !.email = e, !.emailVerified = Vouches(f),
                                !.vouched = IF f = "true" THEN {e} ELSE {}]
  BY DEF UserInfo
<1> DEFINE l == [login EXCEPT !.pc = "done", !.subject = s, !.email = e, !.emailVerified = Vouches(f),
                              !.vouched = IF f = "true" THEN {e} ELSE {}]
<1>2. login' = l /\ UNCHANGED << issuer, published, now >> /\ login.provider # "oidc"
  BY <1>1 DEF UserInfo, ProvidersInv, LoginOK
<1>3. /\ l \in Logins /\ l.pc = "done" /\ l.provider = login.provider /\ l.email = e
      /\ l.emailVerified = (f = "true") /\ l.vouched = IF f = "true" THEN {e} ELSE {}
  <2>1. PICK said \in BOOLEAN, whom \in SUBSET AnyAddressOrNone :
           said = Vouches(f) /\ said = (f = "true") /\ whom = IF f = "true" THEN {e} ELSE {}
    BY DEF Vouches, AnyAddressOrNone
  <2>2. l = [login EXCEPT !.pc = "done", !.subject = s, !.email = e, !.emailVerified = said, !.vouched = whom]
    BY <2>1
  <2>3. login \in Logins /\ e \in AnyAddressOrNone
    BY DEF ProvidersInv, AnyAddressOrNone
  <2> HIDE DEF l
  <2>4. l \in Logins
    BY <2>2, <2>3 DEF Logins, LoginSteps
  <2>5. l.pc = "done" /\ l.provider = login.provider /\ l.email = e /\ l.emailVerified = said /\ l.vouched = whom
    BY <2>2, <2>3 DEF Logins
  <2> QED
    BY <2>1, <2>4, <2>5
<1> HIDE DEF l
<1>4. LoginOK(l, issuer)
  BY <1>2, <1>3 DEF LoginOK
<1> QED
  BY <1>2, <1>3, <1>4, LoginKeeps

LEMMA GithubUserKeeps == ASSUME ProvidersInv, GithubUser PROVE ProvidersInv'
<1>1. PICK s \in KnownSubjects, e \in MailAddresses \cup {NoMail} :
         login' = [login EXCEPT !.pc = "emails", !.subject = s, !.email = e]
  BY DEF GithubUser
<1> DEFINE l == [login EXCEPT !.pc = "emails", !.subject = s, !.email = e]
<1>2. login' = l /\ UNCHANGED << issuer, published, now >> /\ login.provider # "oidc"
  BY <1>1 DEF GithubUser, ProvidersInv, LoginOK
<1>3. l \in Logins /\ l.pc = "emails" /\ l.provider = login.provider
  <2>1. login \in Logins /\ e \in AnyAddressOrNone
    BY DEF ProvidersInv, AnyAddressOrNone
  <2>2. l \in Logins
    BY <2>1 DEF Logins, LoginSteps
  <2>3. l.pc = "emails" /\ l.provider = login.provider
    BY <2>1 DEF Logins
  <2> QED
    BY <2>2, <2>3
<1> HIDE DEF l
<1>4. LoginOK(l, issuer)
  BY <1>2, <1>3 DEF LoginOK
<1> QED
  BY <1>2, <1>3, <1>4, LoginKeeps

\* The address that counts as verified is one of the list, primary and verified.
LEMMA GithubEmailsKeeps == ASSUME ProvidersInv, GithubEmails PROVE ProvidersInv'
<1>1. PICK n \in 0..MaxAddresses : \E list \in [1..n -> GithubAddresses] :
         LET s == Selected(list) IN
         login' = [login EXCEPT !.pc = "done",
                                !.email = IF s = {} THEN login.email ELSE list[FirstOf(s)].email,
                                !.emailVerified = s # {},
                                !.vouched = {list[i].email : i \in {j \in DOMAIN list : list[j].verified}}]
  BY Zenon DEF GithubEmails
<1>2. PICK list \in [1..n -> GithubAddresses] :
         login' = [login EXCEPT !.pc = "done",
                                !.email = IF Selected(list) = {} THEN login.email ELSE list[FirstOf(Selected(list))].email,
                                !.emailVerified = Selected(list) # {},
                                !.vouched = {list[i].email : i \in {j \in DOMAIN list : list[j].verified}}]
  BY Zenon, <1>1
<1> DEFINE s == Selected(list)
           email == IF s = {} THEN login.email ELSE list[FirstOf(s)].email
           vouched == {list[i].email : i \in {j \in DOMAIN list : list[j].verified}}
           l == [login EXCEPT !.pc = "done", !.email = email, !.emailVerified = s # {}, !.vouched = vouched]
<1>3. login' = l /\ UNCHANGED << issuer, published, now >> /\ login.provider # "oidc"
  BY <1>2 DEF GithubEmails, ProvidersInv, LoginOK
<1>4. s \subseteq 1..n /\ \A i \in s : list[i].verified /\ list[i] \in GithubAddresses
  BY DEF Selected
<1>5. s # {} => FirstOf(s) \in s
  BY <1>4, FirstOfIsOne
<1>6. email \in AnyAddressOrNone /\ (s # {} => email \in vouched)
  BY <1>4, <1>5 DEF GithubAddresses, ProvidersInv, Logins, AnyAddressOrNone
<1>7. vouched \subseteq AnyAddressOrNone
  BY DEF GithubAddresses, AnyAddressOrNone
<1> HIDE DEF s, email, vouched
<1>8. /\ l \in Logins /\ l.pc = "done" /\ l.provider = login.provider /\ l.email = email
      /\ l.emailVerified = (s # {}) /\ l.vouched = vouched
  BY <1>6, <1>7 DEF ProvidersInv, Logins, LoginSteps
<1> HIDE DEF l
<1>9. LoginOK(l, issuer)
  BY <1>3, <1>6, <1>8 DEF LoginOK
<1> QED
  BY <1>3, <1>8, <1>9, LoginKeeps

LEMMA XUserKeeps == ASSUME ProvidersInv, XUser PROVE ProvidersInv'
<1>1. PICK s \in KnownSubjects :
         login' = [login EXCEPT !.pc = "done", !.subject = s, !.email = NoMail, !.emailVerified = FALSE]
  BY DEF XUser
<1> DEFINE l == [login EXCEPT !.pc = "done", !.subject = s, !.email = NoMail, !.emailVerified = FALSE]
<1>2. login' = l /\ UNCHANGED << issuer, published, now >> /\ login.provider # "oidc"
  BY <1>1 DEF XUser, ProvidersInv, LoginOK
<1>3. l \in Logins /\ l.pc = "done" /\ l.provider = login.provider /\ l.emailVerified = FALSE
  BY DEF ProvidersInv, Logins, LoginSteps, AnyAddressOrNone
<1> HIDE DEF l
<1>4. LoginOK(l, issuer)
  BY <1>2, <1>3 DEF LoginOK
<1> QED
  BY <1>2, <1>3, <1>4, LoginKeeps

\* A token is taken under the key set that was fetched last; a kid that no key of it has sends the login
\* back for the set once.
LEMMA JwksKeeps == ASSUME ProvidersInv, Jwks PROVE ProvidersInv'
<1> DEFINE t == login.token
           jwks == KeySets[published]
           why == ValidateWith(jwks, t)
           seen == [login EXCEPT !.fetched = Append(@, jwks)]
<1>1. /\ login.pc \in {"jwks", "jwksAgain"} /\ UNCHANGED << issuer, published, now >>
      /\ login' = IF why = "valid" THEN ClaimedBy(seen)
                  ELSE IF login.pc = "jwks" /\ Refetch(why) THEN [seen EXCEPT !.pc = "jwksAgain"]
                  ELSE [seen EXCEPT !.pc = "failed", !.why = why]
  BY DEF Jwks
<1>2. /\ login \in Logins /\ login.provider = "oidc" /\ t \in Tokens /\ issuer # "none"
      /\ login.pc = "jwks" => login.fetched = << >>
      /\ login.pc = "jwksAgain" => Len(login.fetched) = 1 /\ Matching(login.fetched[1], t) = {}
      /\ jwks \in KeySetsServed /\ now \in Nat
  BY <1>1 DEF ProvidersInv, LoginOK, KeySetsServed
<1>3. /\ why \in Reasons /\ (why = "valid" => IsValidated(t, jwks, issuer, now) /\ t.sub \in KnownSubjects)
      /\ why = "id-token-unknown-kid" => Matching(jwks, t) = {}
  BY <1>2, ValidationTells
<1>4. PICK n \in {0, 1} : /\ Len(login.fetched) = n /\ (login.pc = "jwksAgain" <=> n = 1)
                           /\ (n = 1 => Matching(login.fetched[1], t) = {})
  BY <1>1, <1>2, EmptySeq
<1>5. /\ login.fetched \in Seq(KeySetsServed)
      /\ Append(login.fetched, jwks) \in Seq(KeySetsServed) /\ Len(Append(login.fetched, jwks)) = n + 1
      /\ Append(login.fetched, jwks)[n + 1] = jwks
      /\ n = 1 => Append(login.fetched, jwks)[1] = login.fetched[1]
  BY <1>2, <1>4, AppendProperties DEF Logins
<1>6. /\ seen \in Logins /\ seen.provider = "oidc" /\ seen.token = t /\ seen.fetched = Append(login.fetched, jwks)
  BY <1>2, <1>5 DEF Logins
<1> HIDE DEF t, jwks, why, seen
<1>7. CASE why = "valid"
  <2> DEFINE l == ClaimedBy(seen)
  <2>1. t.email \in AnyAddressOrNone /\ t.sub \in KnownSubjects
    BY <1>2, <1>3, <1>7, ProvidersAssumption DEF AnyAddressOrNone
  <2>2. /\ l \in Logins /\ l.pc = "done" /\ l.provider = "oidc" /\ l.token = t /\ l.fetched = seen.fetched
        /\ l.email = t.email /\ l.emailVerified = (t.flag = "true") /\ l.validated = now
        /\ l.vouched = IF t.flag = "true" THEN {t.email} ELSE {}
    <3>1. PICK said \in BOOLEAN, whom \in SUBSET AnyAddressOrNone :
             /\ said = Vouches(t.flag) /\ said = (t.flag = "true")
             /\ whom = IF t.flag = "true" THEN {t.email} ELSE {}
      BY <2>1 DEF Vouches
    <3>2. l = [seen EXCEPT !.pc = "done", !.subject = t.sub, !.email = t.email, !.emailVerified = said,
                           !.validated = now, !.vouched = whom]
      <4>1. l = [seen EXCEPT !.pc = "done", !.subject = seen.token.sub, !.email = seen.token.email,
                             !.emailVerified = Vouches(seen.token.flag), !.validated = now,
                             !.vouched = IF seen.token.flag = "true" THEN {seen.token.email} ELSE {}]
        BY Zenon DEF ClaimedBy
      <4>2. seen.token = t /\ Vouches(seen.token.flag) = said
            /\ (IF seen.token.flag = "true" THEN {seen.token.email} ELSE {}) = whom
        BY <1>6, <3>1
      <4> QED
        BY ZenonT(40), <4>1, <4>2
    <3> HIDE DEF l
    <3>3. l \in Logins
      BY <1>2, <1>6, <2>1, <3>2 DEF Logins, LoginSteps
    <3>4. /\ l.pc = "done" /\ l.provider = seen.provider /\ l.token = seen.token /\ l.fetched = seen.fetched
          /\ l.email = t.email /\ l.emailVerified = said /\ l.validated = now /\ l.vouched = whom
      BY <1>6, <3>2 DEF Logins
    <3> QED
      BY <1>6, <3>1, <3>3, <3>4
  <2> HIDE DEF l
  <2>3. l.fetched[Len(l.fetched)] = jwks
    BY <1>5, <1>6, <2>2
  <2>4. LoginOK(l, issuer)
    BY <1>2, <1>3, <1>7, <2>2, <2>3 DEF LoginOK
  <2> QED
    BY <1>1, <1>7, <2>2, <2>4, LoginKeeps DEF l
<1>8. CASE why = "id-token-unknown-kid" /\ login.pc = "jwks" /\ login' = [seen EXCEPT !.pc = "jwksAgain"]
  <2> DEFINE l == [seen EXCEPT !.pc = "jwksAgain"]
  <2>1. /\ l \in Logins /\ l.pc = "jwksAgain" /\ l.provider = "oidc" /\ l.token = t /\ l.fetched = seen.fetched
    BY <1>6 DEF Logins, LoginSteps
  <2> HIDE DEF l
  <2>2. n = 0
    BY <1>4, <1>8
  <2>3. Len(l.fetched) = 1 /\ l.fetched[1] = jwks /\ Matching(jwks, t) = {}
    BY <1>3, <1>5, <1>6, <1>8, <2>1, <2>2
  <2>4. LoginOK(l, issuer)
    BY <1>2, <2>1, <2>3 DEF LoginOK
  <2> QED
    BY <1>1, <1>8, <2>1, <2>4, LoginKeeps DEF l
<1>9. CASE (why = "id-token-unknown-kid" => login.pc = "jwksAgain") /\ login' = [seen EXCEPT !.pc = "failed", !.why = why]
  <2> DEFINE l == [seen EXCEPT !.pc = "failed", !.why = why]
  <2>1. /\ l \in Logins /\ l.pc = "failed" /\ l.provider = "oidc" /\ l.token = t /\ l.fetched = seen.fetched
        /\ l.why = why
    BY <1>3, <1>6 DEF Logins, LoginSteps
  <2> HIDE DEF l
  <2>2. why = "id-token-unknown-kid" => /\ Len(l.fetched) = 2 /\ l.fetched[2] = jwks /\ Matching(jwks, t) = {}
                                        /\ Matching(l.fetched[1], t) = {}
    BY <1>3, <1>4, <1>5, <1>6, <1>9, <2>1
  <2>3. why = "id-token-unknown-kid" => \A i \in 1..2 : Matching(l.fetched[i], t) = {}
    BY <2>2
  <2>4. LoginOK(l, issuer)
    BY <1>2, <2>1, <2>2, <2>3 DEF LoginOK
  <2> QED
    BY <1>1, <1>9, <2>1, <2>4, LoginKeeps DEF l
<1> QED
  BY <1>1, <1>2, <1>7, <1>8, <1>9 DEF Refetch

LEMMA ProvidersStep == ProvidersInv /\ [ProvidersNext]_providerVars => ProvidersInv'
<1> SUFFICES ASSUME ProvidersInv, [ProvidersNext]_providerVars PROVE ProvidersInv'
  OBVIOUS
<1>1. ASSUME UNCHANGED << login, issuer >>, now' \in Nat, published' \in DOMAIN KeySets PROVE ProvidersInv'
  <2>1. LoginOK(login, issuer)'
    BY <1>1 DEF ProvidersInv, LoginOK, IsValidated, Matching, Importable, VerifySignature
  <2> QED
    BY <1>1, <2>1 DEF ProvidersInv
<1>2. CASE UNCHANGED providerVars
  BY <1>1, <1>2 DEF providerVars, ProvidersInv
<1>3. CASE RotateKeySet
  BY <1>1, <1>3, ProvidersAssumption, LenProperties DEF RotateKeySet, ProvidersInv
<1>4. CASE Tick
  BY <1>1, <1>4 DEF Tick, ProvidersInv
<1>5. CASE Leave
  <2>1. Fresh \in Logins /\ Fresh.pc = "idle" /\ Fresh.provider = "none"
    BY DEF Fresh, Logins, LoginSteps, Reasons, AnyAddressOrNone
  <2>2. LoginOK(Fresh, issuer)
    BY <2>1 DEF LoginOK
  <2> QED
    BY <1>5, <2>1, <2>2, LoginKeeps DEF Leave
<1> QED
  BY <1>2, <1>3, <1>4, <1>5, DiscoverKeeps, ExchangeKeeps, FetchFailsKeeps, UserInfoKeeps, GithubUserKeeps,
     GithubEmailsKeeps, XUserKeeps, JwksKeeps DEF ProvidersNext

\* Whatever a provider answers, and however it rotates its keys during a login: an address counts as
\* verified only when the provider vouched for it, an ID token is taken only when it passed every check
\* against the key set fetched last, and is turned away for its kid only after two fetches
\* (packages/auth/src/oauth.ts fetchProfile, oidc.ts validateIdToken).
THEOREM IdentitiesAreVouchedFor == ProvidersSpec => []IdentityIsVouchedFor
<1>1. ProvidersInv => IdentityIsVouchedFor
  BY DEF ProvidersInv, LoginOK, IsValidated, IdentityIsVouchedFor
<1> QED
  BY <1>1, ProvidersStart, ProvidersStep, PTL DEF ProvidersSpec
=============================================================================
