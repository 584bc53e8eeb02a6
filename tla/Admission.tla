------------------------------ MODULE Admission ------------------------------
(***************************************************************************)
(* The admission gate: challenges and sessions (internal/admission/        *)
(* session.go), the reloadable credential set (internal/admission/         *)
(* store.go), and the handlers that combine them, POST /admission/redeem   *)
(* and admit (internal/httpapi/admission.go).                              *)
(*                                                                         *)
(* Each lock is held for one lookup only, so a handler is a sequence of    *)
(* steps between which other handlers, and the SIGHUP reload of            *)
(* cmd/dee-relay/main.go, may run.  calls[c] is where the handler of call  *)
(* c stands.  A handler reads the clock and then waits for the lock: it    *)
(* works with a time `t` up to MaxLag behind.                              *)
(*                                                                         *)
(* An operator named op_fault is op with one plausible mistake; no other   *)
(* definition uses it.                                                     *)
(***************************************************************************)
EXTENDS Slices

CONSTANTS
  Calls,             \* requests being handled at the same time
  Ids,               \* credential ids, numbered in the order a file lists them
  Files,             \* credential files an operator may load: id -> notAfter
  Nonces, Tokens,    \* what randomToken may draw
  RequireAdmission,
  maxNonces, maxSessions, maxSessionsPerCredential,
  nonceTTL, sessionTTL,
  MaxLag,            \* how far a waiting call's clock reading may be behind
  Horizon,           \* bound: the clock stops here
  MaxReloads         \* bound: SIGHUPs over a behaviour

ASSUME GateConstants ==
  /\ Ids \subseteq Int
  /\ \A file \in Files : /\ file \in [DOMAIN file -> Nat]
                         /\ DOMAIN file \subseteq Ids /\ IsFiniteSet(DOMAIN file)
  /\ RequireAdmission \in BOOLEAN
  /\ maxNonces \in Nat \ {0} /\ maxSessions \in Nat \ {0}
  /\ maxSessionsPerCredential \in Nat \ {0}
  /\ nonceTTL \in Nat \ {0} /\ sessionTTL \in Nat \ {0}
  /\ MaxLag \in Nat /\ Horizon \in Nat /\ MaxReloads \in Nat

VARIABLES
  gate,         \* [nonces, sessions, byCredential]: Sessions, under its mutex
  credentials,  \* id -> notAfter: the loaded set
  index,        \* id -> the integer its counters are kept under
  calls,        \* where each handler stands
  now,
  drawn,        \* nonces and tokens drawn so far: no value is drawn twice
  opened,       \* session token -> the nonce that was signed for it
  charged,      \* <<index, id>> of every grant handed to a store
  reloads

vars == <<gate, credentials, index, calls, now, drawn, opened, charged, reloads>>

-----------------------------------------------------------------------------
EmptyMap == [x \in {} |-> x]
Put(map, k, v) == [x \in DOMAIN map \cup {k} |-> IF x = k THEN v ELSE map[x]]
Without(map, gone) == Restrict(map, DOMAIN map \ gone)
TokensOf(s, id) == IF id \in DOMAIN s.byCredential THEN s.byCredential[id] ELSE <<>>

\* dropLocked for every token in `gone`: an emptied list goes with its last one.
dropLocked_leaksToken(s, gone) == [s EXCEPT !.sessions = Without(@, gone)]
dropLocked(s, gone) ==
  LET remaining == [id \in DOMAIN s.byCredential |->
                      Keeping(s.byCredential[id], {x \in gone : s.sessions[x].credential = id})]
  IN  [s EXCEPT !.sessions = Without(@, gone),
                !.byCredential = RestrictValues(remaining, LAMBDA tokens : tokens # <<>>)]

sweepLocked(s, t) ==
  LET expired == {token \in DOMAIN s.sessions : s.sessions[token].expiresAt <= t}
  IN  [dropLocked(s, expired) EXCEPT !.nonces = RestrictDomain(@, LAMBDA n : s.nonces[n] > t)]

challenge_unbounded(s, nonce, t) ==
  [sweepLocked(s, t) EXCEPT !.nonces = Put(@, nonce, t + nonceTTL)]
challenge(s, nonce, t) ==
  LET swept == sweepLocked(s, t)
  IN  IF Cardinality(DOMAIN swept.nonces) >= maxNonces THEN swept
      ELSE [swept EXCEPT !.nonces = Put(@, nonce, t + nonceTTL)]

spendNonceLocked_keepsNonce(s, nonce) == s
spendNonceLocked(s, nonce) == [s EXCEPT !.nonces = Without(@, {nonce})]
Answerable(s, nonce, t) == nonce \in DOMAIN s.nonces /\ s.nonces[nonce] > t

GateBusy(s, t) == Cardinality(DOMAIN sweepLocked(s, t).sessions) >= maxSessions

\* Open: the oldest sessions of a circle past its allowance make way.
open(s, id, token, t) ==
  LET swept == sweepLocked(s, t)
      tokens == Append(TokensOf(swept, id), token)
      over == Max({0, Len(tokens) - maxSessionsPerCredential})
      evicted == {tokens[i] : i \in 1..over}
      added == Put(swept.sessions, token, [credential |-> id, expiresAt |-> t + sessionTTL])
  IN  [swept EXCEPT !.sessions = Without(added, evicted),
                    !.byCredential = Put(@, id, SubSeq(tokens, over + 1, Len(tokens)))]

forget(s, id) ==
  [s EXCEPT !.sessions = Without(@, ToSet(TokensOf(s, id))), !.byCredential = Without(@, {id})]

Lookup_byIndex(id, t) == IF id \in DOMAIN index THEN "ok" ELSE "unknown"
Lookup(id, t) ==
  IF id \notin DOMAIN credentials THEN "unknown"
  ELSE IF credentials[id] <= t THEN "expired"
  ELSE "ok"

\* Replace numbers the credentials it has not seen, in the order of the file.
Numbered(known, file) ==
  LET fresh == DOMAIN file \ DOMAIN known
  IN  [id \in DOMAIN known \cup DOMAIN file |->
         IF id \in DOMAIN known THEN known[id]
         ELSE Cardinality(DOMAIN known) + Place(fresh, id)]
ReplaceIndex_renumbers(file) == Numbered(EmptyMap, file)
ReplaceIndex(file) == Numbered(index, file)

-----------------------------------------------------------------------------
Idle == [step |-> "idle"]
Goes(call, state) == calls' = [calls EXCEPT ![call] = state]

Readings == {t \in 1..now : now <= t + MaxLag}

Init ==
  /\ gate = [nonces |-> EmptyMap, sessions |-> EmptyMap, byCredential |-> EmptyMap]
  /\ credentials \in {file \in Files : RequireAdmission => file # EmptyMap}
  /\ index = Numbered(EmptyMap, credentials)
  /\ calls = [c \in Calls |-> Idle]
  /\ now = 1
  /\ drawn = {} /\ opened = EmptyMap /\ charged = {}
  /\ reloads = 0

Challenge(nonce, t) ==
  /\ nonce \notin drawn
  /\ gate' = challenge(gate, nonce, t)
  /\ drawn' = drawn \cup (DOMAIN gate'.nonces \ DOMAIN gate.nonces)
  /\ UNCHANGED <<credentials, index, calls, now, opened, charged, reloads>>

\* POST /admission/redeem, first step: the nonce is spent, proof or no proof.
VerifyProof(call, id, nonce, signed, t) ==
  /\ calls[call] = Idle
  /\ gate' = spendNonceLocked(gate, nonce)
  /\ Goes(call, IF signed /\ Answerable(gate, nonce, t)
                THEN [step |-> "proved", credential |-> id, nonce |-> nonce] ELSE Idle)
  /\ UNCHANGED <<credentials, index, now, drawn, opened, charged, reloads>>

\* Second step: the credential behind the proof is looked up.
RedeemLookup(call, t) ==
  /\ calls[call].step = "proved"
  /\ LET id == calls[call].credential
     IN  Goes(call, CASE Lookup(id, t) = "ok" -> [calls[call] EXCEPT !.step = "granted"]
                      [] Lookup(id, t) = "expired" -> [step |-> "forget", credential |-> id]
                      [] OTHER -> Idle)
  /\ UNCHANGED <<gate, credentials, index, now, drawn, opened, charged, reloads>>

\* Third step: a session is opened, or the table is full.
Open(call, token, t) ==
  /\ calls[call].step = "granted"
  /\ token \notin drawn
  /\ IF GateBusy(gate, t)
     THEN gate' = sweepLocked(gate, t) /\ UNCHANGED <<drawn, opened>>
     ELSE /\ gate' = open(gate, calls[call].credential, token, t)
          /\ drawn' = drawn \cup {token}
          /\ opened' = Put(opened, token, calls[call].nonce)
  /\ Goes(call, Idle)
  /\ UNCHANGED <<credentials, index, now, charged, reloads>>

\* admit, first step: the session behind the token.
Resolve(call, token, t) ==
  /\ calls[call] = Idle
  /\ token \in DOMAIN gate.sessions
  /\ IF gate.sessions[token].expiresAt <= t
     THEN gate' = dropLocked(gate, {token}) /\ UNCHANGED calls
     ELSE /\ Goes(call, [step |-> "resolved", credential |-> gate.sessions[token].credential])
          /\ UNCHANGED gate
  /\ UNCHANGED <<credentials, index, now, drawn, opened, charged, reloads>>

\* Second step: the credential is looked up again, and its index is charged.
AdmitLookup(call, t) ==
  /\ calls[call].step = "resolved"
  /\ LET id == calls[call].credential
     IN  IF Lookup(id, t) = "ok"
         THEN /\ Goes(call, [step |-> "admitted", credential |-> id, index |-> index[id]])
              /\ charged' = charged \cup {<<index[id], id>>}
         ELSE /\ Goes(call, [step |-> "forget", credential |-> id])
              /\ UNCHANGED charged
  /\ UNCHANGED <<gate, credentials, index, now, drawn, opened, reloads>>

\* The last step of a call whose credential no longer resolves.
Forget(call) ==
  /\ calls[call].step = "forget"
  /\ gate' = forget(gate, calls[call].credential)
  /\ Goes(call, Idle)
  /\ UNCHANGED <<credentials, index, now, drawn, opened, charged, reloads>>

\* The rest of an admitted request works on the stores, not on the gate.
Served(call) ==
  /\ calls[call].step = "admitted"
  /\ Goes(call, Idle)
  /\ UNCHANGED <<gate, credentials, index, now, drawn, opened, charged, reloads>>

\* SIGHUP: an enforcing relay refuses a file without credentials.
Replace(file) ==
  /\ reloads < MaxReloads
  /\ RequireAdmission => file # EmptyMap
  /\ credentials' = file
  /\ index' = ReplaceIndex(file)
  /\ reloads' = reloads + 1
  /\ UNCHANGED <<gate, calls, now, drawn, opened, charged>>

Tick ==
  /\ now < Horizon
  /\ now' = now + 1
  /\ UNCHANGED <<gate, credentials, index, calls, drawn, opened, charged, reloads>>

Next ==
  \/ \E t \in Readings :
       \/ \E nonce \in Nonces : Challenge(nonce, t)
       \/ \E call \in Calls :
            \/ \E id \in Ids, nonce \in Nonces, signed \in BOOLEAN :
                 VerifyProof(call, id, nonce, signed, t)
            \/ \E token \in Tokens : Open(call, token, t) \/ Resolve(call, token, t)
            \/ RedeemLookup(call, t)
            \/ AdmitLookup(call, t)
  \/ \E call \in Calls : Forget(call) \/ Served(call)
  \/ \E file \in Files : Replace(file)
  \/ Tick

Spec == Init /\ [][Next]_vars

-----------------------------------------------------------------------------
(***************************************************************************)
(* Properties.                                                             *)
(***************************************************************************)
\* The gate's tables and the calls hold what they are declared for, and each
\* table stays inside the bound its memory is sized for.
TypeOK ==
  /\ DOMAIN gate.nonces \subseteq Nonces \cap drawn
  /\ DOMAIN gate.sessions \subseteq Tokens \cap drawn
  /\ \A token \in DOMAIN gate.sessions : gate.sessions[token].expiresAt <= now + sessionTTL
  /\ Cardinality(DOMAIN gate.nonces) <= maxNonces
  /\ Cardinality(DOMAIN gate.sessions) <= maxSessions
  /\ \A id \in Ids : Len(TokensOf(gate, id)) <= maxSessionsPerCredential
  /\ DOMAIN credentials \subseteq DOMAIN index
  /\ DOMAIN index \subseteq Ids
  /\ \A call \in Calls :
       calls[call].step \in {"idle", "proved", "granted", "resolved", "admitted", "forget"}

(***************************************************************************)
(* byCredential is exactly the live sessions, each under its credential    *)
(* and once: no entry that Forget would miss, none that eviction would     *)
(* count twice, no credential with an empty list; and each table stays     *)
(* inside its bound.                                                       *)
(***************************************************************************)
TablesAgree ==
  /\ TypeOK
  /\ \A id \in DOMAIN gate.byCredential :
       /\ gate.byCredential[id] # <<>>
       /\ IsInjective(gate.byCredential[id])
       /\ ToSet(gate.byCredential[id]) =
            {token \in DOMAIN gate.sessions : gate.sessions[token].credential = id}
  /\ \A token \in DOMAIN gate.sessions :
       gate.sessions[token].credential \in DOMAIN gate.byCredential

(***************************************************************************)
(* A nonce buys at most one session, however many calls present it at the  *)
(* same time.                                                              *)
(***************************************************************************)
NonceOpensOnce == \A a, b \in DOMAIN opened : opened[a] = opened[b] => a = b

(***************************************************************************)
(* The index a store counts under names one circle for the whole boot: no  *)
(* grant, even one in flight over a reload, charges another's counter.     *)
(***************************************************************************)
IndexNamesOneCircle == \A a, b \in charged : (a[1] = b[1]) <=> (a[2] = b[2])

(***************************************************************************)
(* A revocation or an expiry takes effect on the next call: a call becomes *)
(* admitted only while its credential is loaded and its window runs, even  *)
(* if a reload came between the session's lookup and the credential's.     *)
(***************************************************************************)
RevocationTakesEffect ==
  [][\A call \in Calls :
       calls'[call].step = "admitted" /\ calls[call].step # "admitted" =>
         /\ calls'[call].credential \in DOMAIN credentials
         /\ credentials[calls'[call].credential] + MaxLag > now]_vars
=============================================================================
