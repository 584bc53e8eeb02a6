-------------------------- MODULE AdmissionProofs --------------------------
(***************************************************************************)
(* Proofs about Admission: the session tables agree and stay bounded, a    *)
(* nonce buys one session, an index names one circle, and a revocation     *)
(* takes effect on the next call.                                          *)
(***************************************************************************)
EXTENDS Admission, SliceProofs

(***************************************************************************)
(* The parts of the inductive invariant about the tables s of the gate.    *)
(***************************************************************************)
IsGate(s) ==
  /\ s = [nonces |-> s.nonces, sessions |-> s.sessions, byCredential |-> s.byCredential]
  /\ s.sessions \in [DOMAIN s.sessions -> [credential : Ids, expiresAt : Int]]
  /\ DOMAIN s.sessions \subseteq Tokens
  /\ s.byCredential \in [DOMAIN s.byCredential -> Seq(Tokens)]

SessionsOf(s, id) == {token \in DOMAIN s.sessions : s.sessions[token].credential = id}

Listed(s, id) ==
  /\ s.byCredential[id] # <<>>
  /\ IsInjective(s.byCredential[id])
  /\ ToSet(s.byCredential[id]) = SessionsOf(s, id)

Indexed(s) ==
  /\ \A id \in DOMAIN s.byCredential : Listed(s, id)
  /\ \A token \in DOMAIN s.sessions : s.sessions[token].credential \in DOMAIN s.byCredential

Small(s) ==
  /\ IsFiniteSet(DOMAIN s.nonces) /\ Cardinality(DOMAIN s.nonces) <= maxNonces
  /\ IsFiniteSet(DOMAIN s.sessions) /\ Cardinality(DOMAIN s.sessions) <= maxSessions
  /\ \A id \in DOMAIN s.byCredential : Len(s.byCredential[id]) <= maxSessionsPerCredential

Dated(s, t) == \A token \in DOMAIN s.sessions : s.sessions[token].expiresAt <= t + sessionTTL

Sane(s, t) == IsGate(s) /\ Indexed(s) /\ Small(s) /\ Dated(s, t)

-----------------------------------------------------------------------------
(***************************************************************************)
(* What the methods do to the tables.                                      *)
(***************************************************************************)
\* Part of a bounded table is bounded.
LEMMA PartBounded ==
  ASSUME NEW S, IsFiniteSet(S), NEW max \in Nat, Cardinality(S) <= max, NEW T, T \subseteq S
  PROVE  IsFiniteSet(T) /\ Cardinality(T) <= max
<1>1. IsFiniteSet(T) /\ Cardinality(T) <= Cardinality(S)
  BY FS_Subset
<1>2. Cardinality(T) \in Nat /\ Cardinality(S) \in Nat
  BY <1>1, FS_CardinalityType
<1> QED
  BY <1>1, <1>2

\* A list is empty exactly when it has no element.
LEMMA EmptyList ==
  ASSUME NEW S, NEW seq \in Seq(S)
  PROVE  seq = <<>> <=> ToSet(seq) = {}
<1>1. Len(seq) \in Nat /\ DOMAIN seq = 1..Len(seq)
  BY LenProperties
<1>2. CASE seq = <<>>
  BY <1>2 DEF ToSet
<1>3. CASE seq # <<>>
  <2>1. Len(seq) # 0
    BY <1>3, EmptySeq
  <2>2. 1 \in DOMAIN seq
    BY <1>1, <2>1
  <2> QED
    BY <1>3, <2>2 DEF ToSet
<1> QED
  BY <1>2, <1>3

\* Dropping sessions takes them from both tables, and nothing else.
LEMMA DropSane ==
  ASSUME NEW s, NEW t, Sane(s, t), NEW gone, gone \subseteq DOMAIN s.sessions
  PROVE  LET n == dropLocked(s, gone)
         IN  /\ Sane(n, t)
             /\ n.nonces = s.nonces
             /\ DOMAIN n.sessions = DOMAIN s.sessions \ gone
<1> DEFINE own(id) == {x \in gone : s.sessions[x].credential = id}
           remaining == [id \in DOMAIN s.byCredential |-> Keeping(s.byCredential[id], own(id))]
           lists == [id \in {x \in DOMAIN remaining : remaining[x] # <<>>} |-> remaining[id]]
           kept == [x \in DOMAIN s.sessions \ gone |-> s.sessions[x]]
           n == [nonces |-> s.nonces, sessions |-> kept, byCredential |-> lists]
<1>0. IsGate(s) /\ Indexed(s) /\ Small(s) /\ Dated(s, t)
  BY DEF Sane
<1>1. dropLocked(s, gone) = n
  <2>1. Without(s.sessions, gone) = kept
    BY DEF Without, Restrict
  <2>2. RestrictValues(remaining, LAMBDA tokens : tokens # <<>>) = lists
    BY DEF RestrictValues, Restrict
  <2>3. dropLocked(s, gone) = [s EXCEPT !.sessions = Without(s.sessions, gone), !.byCredential =
                                 RestrictValues(remaining, LAMBDA tokens : tokens # <<>>)]
    BY DEF dropLocked
  <2>4. s = [nonces |-> s.nonces, sessions |-> s.sessions, byCredential |-> s.byCredential]
    BY <1>0 DEF IsGate
  <2> HIDE DEF remaining, lists, kept
  <2>5. dropLocked(s, gone) = [s EXCEPT !.sessions = kept, !.byCredential = lists]
    BY <2>1, <2>2, <2>3
  <2> QED
    BY <2>4, <2>5
<1>2. /\ DOMAIN kept = DOMAIN s.sessions \ gone
      /\ \A x \in DOMAIN kept : kept[x] = s.sessions[x]
      /\ kept \in [DOMAIN kept -> [credential : Ids, expiresAt : Int]]
  BY <1>0 DEF IsGate
<1> HIDE DEF kept
<1>3. ASSUME NEW id \in DOMAIN s.byCredential
      PROVE  /\ remaining[id] \in Seq(Tokens)
             /\ Len(remaining[id]) \in Nat /\ Len(remaining[id]) <= Len(s.byCredential[id])
             /\ ToSet(remaining[id]) = SessionsOf(n, id)
             /\ IsInjective(remaining[id])
  <2> DEFINE q == s.byCredential[id]
  <2>1. q \in Seq(Tokens) /\ IsInjective(q) /\ ToSet(q) = SessionsOf(s, id)
    BY <1>0 DEF IsGate, Indexed, Listed
  <2>2. remaining[id] = Keeping(q, own(id))
    OBVIOUS
  <2>3. SessionsOf(n, id) = SessionsOf(s, id) \ own(id)
    BY <1>2 DEF SessionsOf
  <2> HIDE DEF q, remaining, own, n
  <2>4. LET k == Keeping(q, own(id))
        IN  /\ k \in Seq(Tokens) /\ Len(k) \in Nat /\ Len(k) <= Len(q)
            /\ ToSet(k) = ToSet(q) \ own(id) /\ IsInjective(k)
    BY <2>1, KeepingElements
  <2> QED
    BY <2>1, <2>2, <2>3, <2>4 DEF q
<1>4. DOMAIN remaining = DOMAIN s.byCredential
  OBVIOUS
<1> HIDE DEF remaining
<1>5. /\ DOMAIN lists = {x \in DOMAIN s.byCredential : remaining[x] # <<>>}
      /\ \A id \in DOMAIN lists : lists[id] = remaining[id]
      /\ lists = [id \in DOMAIN lists |-> lists[id]]
  BY <1>4
<1> HIDE DEF lists
<1>6. n.nonces = s.nonces /\ n.sessions = kept /\ n.byCredential = lists
  OBVIOUS
<1>7. IsGate(n)
  <2>1. lists \in [DOMAIN lists -> Seq(Tokens)]
    BY <1>3, <1>5
  <2>2. n = [nonces |-> n.nonces, sessions |-> n.sessions, byCredential |-> n.byCredential]
    OBVIOUS
  <2> HIDE DEF n
  <2> QED
    BY <1>0, <1>2, <1>6, <2>1, <2>2 DEF IsGate
<1> HIDE DEF n
<1>8. Indexed(n)
  <2>1. ASSUME NEW id \in DOMAIN lists
        PROVE  Listed(n, id)
    BY <1>3, <1>5, <1>6 DEF Listed
  <2>2. ASSUME NEW x \in DOMAIN kept
        PROVE  kept[x].credential \in DOMAIN lists
    <3> DEFINE id == kept[x].credential
    <3>1. id \in DOMAIN s.byCredential
      BY <1>0, <1>2 DEF Indexed
    <3>2. x \in SessionsOf(n, id)
      BY <1>6 DEF SessionsOf
    <3>3. remaining[id] # <<>>
      BY <1>3, <3>1, <3>2, EmptyList
    <3> QED
      BY <1>5, <3>1, <3>3
  <2> QED
    BY <1>6, <2>1, <2>2 DEF Indexed
<1>9. Small(n)
  <2>1. IsFiniteSet(DOMAIN kept) /\ Cardinality(DOMAIN kept) <= maxSessions
    BY <1>0, <1>2, PartBounded, GateConstants DEF Small
  <2>2. ASSUME NEW id \in DOMAIN lists
        PROVE  Len(lists[id]) <= maxSessionsPerCredential
    <3>1. id \in DOMAIN s.byCredential /\ lists[id] = remaining[id]
      BY <1>5
    <3>2. /\ Len(remaining[id]) \in Nat /\ Len(remaining[id]) <= Len(s.byCredential[id])
          /\ Len(s.byCredential[id]) <= maxSessionsPerCredential
      BY <1>0, <1>3, <3>1 DEF Small
    <3>3. Len(s.byCredential[id]) \in Nat
      BY <1>0, <3>1, LenProperties DEF IsGate
    <3> QED
      BY <3>1, <3>2, <3>3, GateConstants
  <2> QED
    BY <1>0, <1>6, <2>1, <2>2 DEF Small
<1>10. Dated(n, t)
  BY <1>0, <1>2, <1>6 DEF Dated
<1> QED
  BY <1>1, <1>2, <1>6, <1>7, <1>8, <1>9, <1>10 DEF Sane

\* Fewer or more nonces, within their bound, change nothing about sessions.
LEMMA NoncesSane ==
  ASSUME NEW s, NEW t, Sane(s, t), NEW m, IsFiniteSet(DOMAIN m),
         Cardinality(DOMAIN m) <= maxNonces
  PROVE  LET n == [s EXCEPT !.nonces = m]
         IN  Sane(n, t) /\ n.nonces = m /\ n.sessions = s.sessions
<1> DEFINE n == [nonces |-> m, sessions |-> s.sessions, byCredential |-> s.byCredential]
<1>0. IsGate(s) /\ Indexed(s) /\ Small(s) /\ Dated(s, t)
  BY DEF Sane
<1>1. [s EXCEPT !.nonces = m] = n
  BY <1>0 DEF IsGate
<1>2. /\ n.nonces = m /\ n.sessions = s.sessions /\ n.byCredential = s.byCredential
      /\ n = [nonces |-> n.nonces, sessions |-> n.sessions, byCredential |-> n.byCredential]
  OBVIOUS
<1> HIDE DEF n
<1>3. IsGate(n)
  BY <1>0, <1>2 DEF IsGate
<1>4. Indexed(n)
  BY <1>0, <1>2 DEF Indexed, Listed, SessionsOf
<1>5. Small(n) /\ Dated(n, t)
  BY <1>0, <1>2 DEF Small, Dated
<1> QED
  BY <1>1, <1>2, <1>3, <1>4, <1>5 DEF Sane

\* A sweep only takes away.
LEMMA SweepSane ==
  ASSUME NEW s, NEW t0, Sane(s, t0), NEW t
  PROVE  LET n == sweepLocked(s, t)
         IN  /\ Sane(n, t0)
             /\ DOMAIN n.nonces \subseteq DOMAIN s.nonces
             /\ DOMAIN n.sessions \subseteq DOMAIN s.sessions
<1> DEFINE expired == {token \in DOMAIN s.sessions : s.sessions[token].expiresAt <= t}
           d == dropLocked(s, expired)
           m == RestrictDomain(d.nonces, LAMBDA x : s.nonces[x] > t)
<1>1. Sane(d, t0) /\ d.nonces = s.nonces /\ DOMAIN d.sessions = DOMAIN s.sessions \ expired
  BY DropSane
<1>2. sweepLocked(s, t) = [d EXCEPT !.nonces = m]
  BY DEF sweepLocked
<1>3. DOMAIN m \subseteq DOMAIN s.nonces
  BY <1>1 DEF RestrictDomain, Restrict
<1> HIDE DEF d, m
<1>4. IsFiniteSet(DOMAIN m) /\ Cardinality(DOMAIN m) <= maxNonces
  BY <1>3, PartBounded, GateConstants DEF Sane, Small
<1>5. LET n == [d EXCEPT !.nonces = m]
      IN  Sane(n, t0) /\ n.nonces = m /\ n.sessions = d.sessions
    BY <1>1, <1>4, NoncesSane
<1> QED
  BY <1>1, <1>2, <1>3, <1>5

\* Challenge keeps at most maxNonces, and adds at most its own.
LEMMA ChallengeSane ==
  ASSUME NEW s, NEW t0, Sane(s, t0), NEW nonce, NEW t
  PROVE  LET n == challenge(s, nonce, t)
         IN  /\ Sane(n, t0)
             /\ DOMAIN n.nonces \subseteq DOMAIN s.nonces \cup {nonce}
             /\ DOMAIN n.sessions \subseteq DOMAIN s.sessions
<1> DEFINE w == sweepLocked(s, t)
           m == Put(w.nonces, nonce, t + nonceTTL)
<1>1. /\ Sane(w, t0) /\ DOMAIN w.nonces \subseteq DOMAIN s.nonces
      /\ DOMAIN w.sessions \subseteq DOMAIN s.sessions
  BY SweepSane
<1>2. challenge(s, nonce, t) = IF Cardinality(DOMAIN w.nonces) >= maxNonces THEN w
                               ELSE [w EXCEPT !.nonces = m]
  BY DEF challenge
<1>3. DOMAIN m = DOMAIN w.nonces \cup {nonce}
  BY DEF Put
<1> HIDE DEF w, m
<1>4. CASE Cardinality(DOMAIN w.nonces) >= maxNonces
  BY <1>1, <1>2, <1>4
<1>5. CASE ~(Cardinality(DOMAIN w.nonces) >= maxNonces)
  <2>1. IsFiniteSet(DOMAIN w.nonces) /\ Cardinality(DOMAIN w.nonces) \in Nat
    BY <1>1, FS_CardinalityType DEF Sane, Small
  <2>2. /\ IsFiniteSet(DOMAIN m)
        /\ \/ Cardinality(DOMAIN m) = Cardinality(DOMAIN w.nonces)
           \/ Cardinality(DOMAIN m) = Cardinality(DOMAIN w.nonces) + 1
    BY <1>3, <2>1, FS_AddElement
  <2>3. Cardinality(DOMAIN m) <= maxNonces
    BY <1>5, <2>1, <2>2, GateConstants
  <2>4. LET n == [w EXCEPT !.nonces = m]
        IN  Sane(n, t0) /\ n.nonces = m /\ n.sessions = w.sessions
    BY <1>1, <2>2, <2>3, NoncesSane
  <2>5. challenge(s, nonce, t) = [w EXCEPT !.nonces = m]
    BY <1>2, <1>5
  <2> QED
    BY <1>1, <1>3, <2>4, <2>5
<1> QED
  BY <1>4, <1>5

\* A spent nonce is gone.
LEMMA SpendSane ==
  ASSUME NEW s, NEW t, Sane(s, t), NEW nonce
  PROVE  LET n == spendNonceLocked(s, nonce)
         IN  /\ Sane(n, t)
             /\ DOMAIN n.nonces = DOMAIN s.nonces \ {nonce}
             /\ n.sessions = s.sessions
<1> DEFINE m == Without(s.nonces, {nonce})
<1>1. spendNonceLocked(s, nonce) = [s EXCEPT !.nonces = m]
  BY DEF spendNonceLocked
<1>2. DOMAIN m = DOMAIN s.nonces \ {nonce}
  BY DEF Without, Restrict
<1> HIDE DEF m
<1>3. IsFiniteSet(DOMAIN m) /\ Cardinality(DOMAIN m) <= maxNonces
  BY <1>2, PartBounded, GateConstants DEF Sane, Small
<1>4. LET n == [s EXCEPT !.nonces = m]
      IN  Sane(n, t) /\ n.nonces = m /\ n.sessions = s.sessions
  BY <1>3, NoncesSane
<1> QED
  BY <1>1, <1>2, <1>4

\* Open lists the new session last and drops the oldest ones of its circle.
LEMMA OpenSane ==
  ASSUME NEW s, NEW t0 \in Nat, Sane(s, t0), NEW id \in Ids, NEW token \in Tokens,
         token \notin DOMAIN s.sessions, NEW t \in Nat, t <= t0, ~GateBusy(s, t)
  PROVE  LET n == open(s, id, token, t)
         IN  /\ Sane(n, t0)
             /\ DOMAIN n.nonces \subseteq DOMAIN s.nonces
             /\ DOMAIN n.sessions \subseteq DOMAIN s.sessions \cup {token}
<1> DEFINE w == sweepLocked(s, t)
           old == TokensOf(w, id)
           tokens == Append(old, token)
           over == Max({0, Len(tokens) - maxSessionsPerCredential})
           evicted == {tokens[i] : i \in 1..over}
           entry == [credential |-> id, expiresAt |-> t + sessionTTL]
           added == Put(w.sessions, token, entry)
           kept == Without(added, evicted)
           list == SubSeq(tokens, over + 1, Len(tokens))
           lists == Put(w.byCredential, id, list)
           n == [nonces |-> w.nonces, sessions |-> kept, byCredential |-> lists]
<1>1. /\ Sane(w, t0) /\ DOMAIN w.nonces \subseteq DOMAIN s.nonces
      /\ DOMAIN w.sessions \subseteq DOMAIN s.sessions
  BY SweepSane
<1>2. ~(Cardinality(DOMAIN w.sessions) >= maxSessions)
  BY DEF GateBusy
<1>3. open(s, id, token, t) = n
  <2>1. open(s, id, token, t) = [w EXCEPT !.sessions = kept, !.byCredential = lists]
    BY DEF open
  <2>2. w = [nonces |-> w.nonces, sessions |-> w.sessions, byCredential |-> w.byCredential]
    BY <1>1 DEF Sane, IsGate
  <2> HIDE DEF w, kept, lists
  <2> QED
    BY <2>1, <2>2
<1> HIDE DEF w
<1>4. IsGate(w) /\ Indexed(w) /\ Small(w) /\ Dated(w, t0) /\ token \notin DOMAIN w.sessions
  BY <1>1 DEF Sane
<1>5. /\ old \in Seq(Tokens) /\ IsInjective(old) /\ ToSet(old) = SessionsOf(w, id)
      /\ Len(old) \in Nat /\ Len(old) <= maxSessionsPerCredential
  <2>1. CASE id \in DOMAIN w.byCredential
    <3>1. old = w.byCredential[id]
      BY <2>1 DEF TokensOf
    <3>2. old \in Seq(Tokens)
      BY <1>4, <2>1, <3>1 DEF IsGate
    <3>3. Len(old) \in Nat
      BY <3>2, LenProperties
    <3> QED
      BY <1>4, <2>1, <3>1, <3>2, <3>3 DEF Indexed, Listed, Small
  <2>2. CASE id \notin DOMAIN w.byCredential
    <3>1. old = <<>>
      BY <2>2 DEF TokensOf
    <3>2. SessionsOf(w, id) = {}
      BY <1>4, <2>2 DEF Indexed, SessionsOf
    <3>3. /\ <<>> \in Seq(Tokens) /\ ToSet(<<>>) = {} /\ IsInjective(<<>>) /\ Len(<<>>) = 0
      BY DEF ToSet, IsInjective
    <3> QED
      BY <3>1, <3>2, <3>3, GateConstants
  <2> QED
    BY <2>1, <2>2
<1> HIDE DEF old
<1>6. token \notin ToSet(old)
  BY <1>4, <1>5 DEF SessionsOf
<1>7. /\ tokens \in Seq(Tokens) /\ Len(tokens) = Len(old) + 1
      /\ ToSet(tokens) = ToSet(old) \cup {token} /\ IsInjective(tokens)
      /\ tokens[Len(tokens)] = token
  BY <1>5, <1>6, AppendElements
<1> HIDE DEF tokens
<1>8. /\ Len(tokens) \in Nat /\ over \in 0..Len(tokens) /\ over < Len(tokens)
      /\ Len(tokens) - over <= maxSessionsPerCredential
  <2> DEFINE x == Len(tokens) - maxSessionsPerCredential
  <2>1. Len(tokens) \in Nat /\ Len(tokens) # 0 /\ x \in Int
    BY <1>5, <1>7, GateConstants
  <2>2. ASSUME NEW y \in Int
        PROVE  Max({0, y}) = IF y > 0 THEN y ELSE 0
    BY DEF Max
  <2>3. over = IF x > 0 THEN x ELSE 0
    BY <2>1, <2>2
  <2> HIDE DEF over
  <2> QED
    BY <2>1, <2>3, GateConstants
<1> HIDE DEF over
<1>9. /\ list \in Seq(Tokens) /\ Len(list) = Len(tokens) - over
      /\ ToSet(list) = ToSet(tokens) \ evicted /\ IsInjective(list)
  BY <1>7, <1>8, SuffixElements
<1>10. evicted \subseteq ToSet(old) /\ token \notin evicted
  <2>1. ASSUME NEW i \in 1..over
        PROVE  tokens[i] \in ToSet(tokens) /\ tokens[i] # token
    <3>1. i \in DOMAIN tokens /\ Len(tokens) \in DOMAIN tokens /\ i # Len(tokens)
      <4>1. DOMAIN tokens = 1..Len(tokens)
        BY <1>7, LenProperties
      <4>2. i \in 1..Len(tokens) /\ Len(tokens) \in 1..Len(tokens) /\ i # Len(tokens)
        BY <1>8
      <4> QED
        BY <4>1, <4>2
    <3> QED
      BY <1>7, <3>1 DEF IsInjective, ToSet
  <2> QED
    BY <1>7, <2>1
<1> HIDE DEF list, evicted
<1>11. /\ entry.credential = id /\ entry.expiresAt = t + sessionTTL
       /\ entry \in [credential : Ids, expiresAt : Int]
  BY GateConstants
<1> HIDE DEF entry
<1>12. /\ DOMAIN kept = (DOMAIN w.sessions \cup {token}) \ evicted
       /\ token \in DOMAIN kept /\ kept[token] = entry
       /\ \A x \in DOMAIN kept \ {token} : kept[x] = w.sessions[x]
       /\ kept = [x \in DOMAIN kept |-> kept[x]]
  BY <1>10 DEF Without, Restrict, Put
<1> HIDE DEF kept
<1>13. /\ DOMAIN lists = DOMAIN w.byCredential \cup {id} /\ lists[id] = list
       /\ \A x \in DOMAIN w.byCredential \ {id} : lists[x] = w.byCredential[x]
       /\ lists = [x \in DOMAIN lists |-> lists[x]]
  BY DEF Put
<1> HIDE DEF lists
<1>14. /\ n.nonces = w.nonces /\ n.sessions = kept /\ n.byCredential = lists
       /\ n = [nonces |-> n.nonces, sessions |-> n.sessions, byCredential |-> n.byCredential]
  OBVIOUS
<1> HIDE DEF n
<1>15. IsGate(n)
  <2>1. \A x \in DOMAIN kept : kept[x] \in [credential : Ids, expiresAt : Int]
    BY <1>4, <1>11, <1>12 DEF IsGate
  <2>2. kept \in [DOMAIN kept -> [credential : Ids, expiresAt : Int]] /\ DOMAIN kept \subseteq Tokens
    BY <1>4, <1>12, <2>1 DEF IsGate
  <2>3. \A x \in DOMAIN lists : lists[x] \in Seq(Tokens)
    BY <1>4, <1>9, <1>13 DEF IsGate
  <2>4. lists \in [DOMAIN lists -> Seq(Tokens)]
    BY <1>13, <2>3
  <2> QED
    BY <1>14, <2>2, <2>4 DEF IsGate
<1>16. ASSUME NEW x, x # id
       PROVE  SessionsOf(n, x) = SessionsOf(w, x)
  <2>1. \A y \in evicted : y \in DOMAIN w.sessions /\ w.sessions[y].credential = id
    BY <1>5, <1>10 DEF SessionsOf
  <2> QED
    BY <1>4, <1>11, <1>12, <1>14, <1>16, <2>1 DEF SessionsOf
<1>17. SessionsOf(n, id) = ToSet(list)
  <2>1. SessionsOf(n, id) = (SessionsOf(w, id) \cup {token}) \ evicted
    BY <1>4, <1>10, <1>11, <1>12, <1>14 DEF SessionsOf
  <2> QED
    BY <1>5, <1>7, <1>9, <2>1
<1>18. Indexed(n)
  <2>1. Listed(n, id)
    <3>1. list # <<>>
      <4>1. token \in ToSet(list)
        BY <1>7, <1>9, <1>10
      <4> QED
        BY <1>9, <4>1, EmptyList
    <3> QED
      BY <1>9, <1>13, <1>14, <1>17, <3>1 DEF Listed
  <2>2. ASSUME NEW x \in DOMAIN lists, x # id
        PROVE  Listed(n, x)
    <3>1. x \in DOMAIN w.byCredential /\ n.byCredential[x] = w.byCredential[x]
      BY <1>13, <1>14, <2>2
    <3>2. Listed(w, x)
      BY <1>4, <3>1 DEF Indexed
    <3> QED
      BY <1>16, <2>2, <3>1, <3>2 DEF Listed
  <2>3. ASSUME NEW x \in DOMAIN kept
        PROVE  kept[x].credential \in DOMAIN lists
    BY <1>4, <1>11, <1>12, <1>13 DEF Indexed
  <2> QED
    BY <1>14, <2>1, <2>2, <2>3 DEF Indexed
<1>19. Small(n)
  <2>1. IsFiniteSet(DOMAIN w.sessions) /\ Cardinality(DOMAIN w.sessions) \in Nat
    BY <1>4, FS_CardinalityType DEF Small
  <2>2. /\ IsFiniteSet(DOMAIN w.sessions \cup {token})
        /\ Cardinality(DOMAIN w.sessions \cup {token}) = Cardinality(DOMAIN w.sessions) + 1
    BY <1>4, <2>1, FS_AddElement
  <2>3. Cardinality(DOMAIN w.sessions \cup {token}) <= maxSessions
    BY <1>2, <2>1, <2>2, GateConstants
  <2>4. IsFiniteSet(DOMAIN kept) /\ Cardinality(DOMAIN kept) <= maxSessions
    BY <1>12, <2>2, <2>3, PartBounded, GateConstants
  <2>5. Len(list) <= maxSessionsPerCredential
    BY <1>8, <1>9
  <2>6. \A x \in DOMAIN lists : Len(lists[x]) <= maxSessionsPerCredential
    BY <1>4, <1>13, <2>5 DEF Small
  <2> QED
    BY <1>4, <1>14, <2>4, <2>6 DEF Small
<1>20. Dated(n, t0)
  <2>1. t + sessionTTL <= t0 + sessionTTL
    BY GateConstants
  <2> QED
    BY <1>4, <1>11, <1>12, <1>14, <2>1 DEF Dated
<1>21. /\ DOMAIN n.nonces \subseteq DOMAIN s.nonces
       /\ DOMAIN n.sessions \subseteq DOMAIN s.sessions \cup {token}
  BY <1>1, <1>12, <1>14
<1> QED
  BY <1>3, <1>15, <1>18, <1>19, <1>20, <1>21 DEF Sane

\* Forget takes every session of one circle.
LEMMA ForgetSane ==
  ASSUME NEW s, NEW t, Sane(s, t), NEW id
  PROVE  LET n == forget(s, id)
         IN  Sane(n, t) /\ n.nonces = s.nonces /\ DOMAIN n.sessions \subseteq DOMAIN s.sessions
<1> DEFINE gone == ToSet(TokensOf(s, id))
           kept == Without(s.sessions, gone)
           lists == Without(s.byCredential, {id})
           n == [nonces |-> s.nonces, sessions |-> kept, byCredential |-> lists]
<1>0. IsGate(s) /\ Indexed(s) /\ Small(s) /\ Dated(s, t)
  BY DEF Sane
<1>1. gone = SessionsOf(s, id)
  <2>1. CASE id \in DOMAIN s.byCredential
    BY <1>0, <2>1 DEF TokensOf, Indexed, Listed
  <2>2. CASE id \notin DOMAIN s.byCredential
    <3>1. SessionsOf(s, id) = {}
      BY <1>0, <2>2 DEF Indexed, SessionsOf
    <3>2. ToSet(<<>>) = {}
      BY DEF ToSet
    <3> QED
      BY <2>2, <3>1, <3>2 DEF TokensOf
  <2> QED
    BY <2>1, <2>2
<1>2. forget(s, id) = n
  <2>1. forget(s, id) = [s EXCEPT !.sessions = kept, !.byCredential = lists]
    BY DEF forget
  <2> HIDE DEF kept, lists
  <2> QED
    BY <1>0, <2>1 DEF IsGate
<1> HIDE DEF gone
<1>3. /\ DOMAIN kept = DOMAIN s.sessions \ SessionsOf(s, id)
      /\ \A x \in DOMAIN kept : kept[x] = s.sessions[x] /\ kept[x].credential # id
      /\ kept \in [DOMAIN kept -> [credential : Ids, expiresAt : Int]]
  BY <1>0, <1>1 DEF Without, Restrict, SessionsOf, IsGate
<1> HIDE DEF kept
<1>4. /\ DOMAIN lists = DOMAIN s.byCredential \ {id}
      /\ \A x \in DOMAIN lists : lists[x] = s.byCredential[x]
      /\ lists \in [DOMAIN lists -> Seq(Tokens)]
  BY <1>0 DEF Without, Restrict, IsGate
<1> HIDE DEF lists
<1>5. /\ n.nonces = s.nonces /\ n.sessions = kept /\ n.byCredential = lists
      /\ n = [nonces |-> n.nonces, sessions |-> n.sessions, byCredential |-> n.byCredential]
  OBVIOUS
<1> HIDE DEF n
<1>6. IsGate(n)
  BY <1>0, <1>3, <1>4, <1>5 DEF IsGate
<1>7. Indexed(n)
  <2>1. ASSUME NEW x \in DOMAIN lists
        PROVE  Listed(n, x)
    <3>1. SessionsOf(n, x) = SessionsOf(s, x)
      BY <1>3, <1>4, <1>5 DEF SessionsOf
    <3> QED
      BY <1>0, <1>4, <1>5, <3>1 DEF Indexed, Listed
  <2>2. ASSUME NEW x \in DOMAIN kept
        PROVE  kept[x].credential \in DOMAIN lists
    BY <1>0, <1>3, <1>4 DEF Indexed
  <2> QED
    BY <1>5, <2>1, <2>2 DEF Indexed
<1>8. Small(n)
  <2>1. IsFiniteSet(DOMAIN kept) /\ Cardinality(DOMAIN kept) <= maxSessions
    BY <1>0, <1>3, PartBounded, GateConstants DEF Small
  <2> QED
    BY <1>0, <1>4, <1>5, <2>1 DEF Small
<1>9. Dated(n, t)
  BY <1>0, <1>3, <1>5 DEF Dated
<1> QED
  BY <1>2, <1>3, <1>5, <1>6, <1>7, <1>8, <1>9 DEF Sane

-----------------------------------------------------------------------------
(***************************************************************************)
(* The index.                                                              *)
(***************************************************************************)
IsIndex(f) ==
  /\ IsFiniteSet(DOMAIN f) /\ DOMAIN f \subseteq Ids
  /\ f \in [DOMAIN f -> 1..Cardinality(DOMAIN f)]
  /\ IsInjective(f)

\* Numbering keeps what was numbered and gives nobody else's number away.
LEMMA NumberedIndex ==
  ASSUME NEW known, IsIndex(known), NEW file \in Files
  PROVE  LET f == Numbered(known, file)
         IN  /\ IsIndex(f) /\ DOMAIN f = DOMAIN known \cup DOMAIN file
             /\ \A id \in DOMAIN known : f[id] = known[id]
<1> DEFINE fresh == DOMAIN file \ DOMAIN known
           last == Cardinality(DOMAIN known)
           size == Cardinality(fresh)
           D == DOMAIN known \cup DOMAIN file
           f == Numbered(known, file)
<1>0. DOMAIN file \subseteq Ids /\ IsFiniteSet(DOMAIN file) /\ Ids \subseteq Int
  BY GateConstants
<1>1. IsFiniteSet(fresh) /\ fresh \subseteq Int /\ fresh \subseteq Ids
  BY <1>0, FS_Subset
<1>2. last \in Nat /\ size \in Nat
  BY <1>1, FS_CardinalityType DEF IsIndex
<1>3. D = DOMAIN known \cup fresh /\ DOMAIN known \cap fresh = {}
  OBVIOUS
<1>4. IsFiniteSet(D) /\ Cardinality(D) = last + size
  <2>1. IsFiniteSet(DOMAIN known)
    BY DEF IsIndex
  <2> HIDE DEF D, fresh
  <2>2. /\ IsFiniteSet(DOMAIN known \cup fresh)
        /\ Cardinality(DOMAIN known \cup fresh)
             = last + size - Cardinality(DOMAIN known \cap fresh)
    BY <1>1, <2>1, FS_Union
  <2>3. Cardinality(DOMAIN known \cap fresh) = 0
    BY <1>3, FS_EmptySet
  <2> QED
    BY <1>2, <1>3, <2>2, <2>3
<1>5. /\ DOMAIN f = D /\ f = [id \in D |-> f[id]]
      /\ \A id \in DOMAIN known : f[id] = known[id]
      /\ \A id \in fresh : f[id] = last + Place(fresh, id)
  BY DEF Numbered
<1> HIDE DEF f, D, fresh
<1>6. \A id \in fresh : Place(fresh, id) \in 1..size
  BY <1>1, PlaceRange
<1>7. \A id \in DOMAIN known : known[id] \in 1..last
  BY DEF IsIndex
<1> HIDE DEF last, size
<1>8. \A id \in D : f[id] \in 1..(last + size)
  BY <1>2, <1>3, <1>5, <1>6, <1>7
<1>9. IsInjective(f)
  <2> SUFFICES ASSUME NEW a \in D, NEW b \in D, f[a] = f[b]
               PROVE  a = b
    BY <1>5 DEF IsInjective
  <2>1. CASE a \in DOMAIN known /\ b \in DOMAIN known
    BY <1>5, <2>1 DEF IsIndex, IsInjective
  <2>2. CASE a \in fresh /\ b \in fresh
    <3>1. Place(fresh, a) \in Nat /\ Place(fresh, b) \in Nat
      BY <1>2, <1>6, <2>2
    <3>2. Place(fresh, a) = Place(fresh, b)
      BY <1>2, <1>5, <2>2, <3>1
    <3> QED
      BY <1>1, <2>2, <3>2, PlaceInjective
  <2>3. ASSUME NEW x \in DOMAIN known, NEW y \in fresh
        PROVE  f[x] # f[y]
    BY <1>2, <1>5, <1>6, <1>7
  <2> QED
    BY <1>3, <2>1, <2>2, <2>3
<1>10. IsIndex(f)
  <2>1. D \subseteq Ids
    BY <1>1, <1>3 DEF IsIndex
  <2> QED
    BY <1>4, <1>5, <1>8, <1>9, <2>1 DEF IsIndex
<1> QED
  BY <1>5, <1>10 DEF f, D
-----------------------------------------------------------------------------
(***************************************************************************)
(* The inductive invariant.  Besides the tables, a nonce is in one place   *)
(* only: waiting in the gate, held by one call, or spent on one session.   *)
(***************************************************************************)
CallStates ==
  {Idle} \cup [step : {"proved", "granted"}, credential : Ids, nonce : Nonces]
         \cup [step : {"forget", "resolved"}, credential : Ids]
         \cup [step : {"admitted"}, credential : Ids, index : Nat]

Holds(c) == c.step \in {"proved", "granted"}

\* waiting: the nonces in the gate; cs: the calls; spent: token -> nonce.
NonceInOnePlace(waiting, cs, dr, spent) ==
  /\ waiting \subseteq Nonces \cap dr /\ DOMAIN spent \subseteq dr
  /\ \A c \in Calls : Holds(cs[c]) =>
       /\ cs[c].nonce \in dr \ waiting
       /\ \A a \in DOMAIN spent : spent[a] # cs[c].nonce
  /\ \A c, d \in Calls :
       Holds(cs[c]) /\ Holds(cs[d]) /\ cs[c].nonce = cs[d].nonce => c = d
  /\ \A a \in DOMAIN spent : spent[a] \in dr \ waiting
  /\ \A a, b \in DOMAIN spent : spent[a] = spent[b] => a = b

\* Every charge was made under the index its circle still has.
ChargesNamed == \A p \in charged : \E id \in DOMAIN index : p = <<index[id], id>>

IndexInv ==
  /\ IsIndex(index)
  /\ credentials \in Files /\ DOMAIN credentials \subseteq DOMAIN index
  /\ ChargesNamed

IInv ==
  /\ now \in Nat
  /\ Sane(gate, now) /\ DOMAIN gate.sessions \subseteq drawn
  /\ calls \in [Calls -> CallStates]
  /\ NonceInOnePlace(DOMAIN gate.nonces, calls, drawn, opened)
  /\ IndexInv

-----------------------------------------------------------------------------
(***************************************************************************)
(* What the steps of the calls do to the nonces.                           *)
(***************************************************************************)
\* The gate may forget nonces and may add one that was never drawn.
LEMMA WaitingChanges ==
  ASSUME NEW w, NEW cs, NEW dr, NEW spent, NonceInOnePlace(w, cs, dr, spent),
         NEW new, new \subseteq Nonces, new \cap dr = {},
         NEW w2, w2 \subseteq w \cup new, NEW dr2, dr2 = dr \cup (w2 \ w)
  PROVE  NonceInOnePlace(w2, cs, dr2, spent)
BY DEF NonceInOnePlace

\* A call that lets go of its nonce, or keeps it, or holds none.
LEMMA CallMoves ==
  ASSUME NEW w, NEW cs, NEW dr, NEW spent, NonceInOnePlace(w, cs, dr, spent),
         NEW S, cs \in [Calls -> S], NEW c \in Calls, NEW v,
         Holds(v) => Holds(cs[c]) /\ v.nonce = cs[c].nonce
  PROVE  NonceInOnePlace(w, [cs EXCEPT ![c] = v], dr, spent)
<1> DEFINE n == [cs EXCEPT ![c] = v]
<1>1. \A d \in Calls : n[d] = IF d = c THEN v ELSE cs[d]
  OBVIOUS
<1> HIDE DEF n
<1>2. \A d \in Calls : Holds(n[d]) => Holds(cs[d]) /\ n[d].nonce = cs[d].nonce
  BY <1>1
<1>3. NonceInOnePlace(w, n, dr, spent)
  BY <1>2 DEF NonceInOnePlace
<1> QED
  BY <1>3 DEF n

\* A call takes a nonce out of the gate.
LEMMA CallTakes ==
  ASSUME NEW w, NEW cs, NEW dr, NEW spent, NonceInOnePlace(w, cs, dr, spent),
         NEW S, cs \in [Calls -> S], NEW c \in Calls, NEW v, NEW nonce \in w, v.nonce = nonce
  PROVE  NonceInOnePlace(w \ {nonce}, [cs EXCEPT ![c] = v], dr, spent)
<1> DEFINE n == [cs EXCEPT ![c] = v]
<1>1. n[c] = v /\ \A d \in Calls \ {c} : n[d] = cs[d]
  OBVIOUS
<1> HIDE DEF n
<1>2. NonceInOnePlace(w \ {nonce}, n, dr, spent)
  BY <1>1 DEF NonceInOnePlace
<1> QED
  BY <1>2 DEF n

\* A call spends its nonce on a token that was never drawn.
LEMMA CallSpends ==
  ASSUME NEW w, NEW cs, NEW dr, NEW spent, NonceInOnePlace(w, cs, dr, spent),
         NEW S, cs \in [Calls -> S], NEW c \in Calls, Holds(cs[c]),
         NEW token, token \notin dr
  PROVE  NonceInOnePlace(w, [cs EXCEPT ![c] = Idle], dr \cup {token}, Put(spent, token, cs[c].nonce))
<1> DEFINE n == [cs EXCEPT ![c] = Idle]
           nonce == cs[c].nonce
           p == Put(spent, token, nonce)
<1>1. n[c] = Idle /\ \A d \in Calls \ {c} : n[d] = cs[d]
  OBVIOUS
<1>2. ~Holds(Idle)
  BY DEF Idle, Holds
<1>3. /\ DOMAIN p = DOMAIN spent \cup {token} /\ p[token] = nonce
      /\ \A x \in DOMAIN spent \ {token} : p[x] = spent[x]
  BY DEF Put
<1>4. token \notin DOMAIN spent
  BY DEF NonceInOnePlace
<1> HIDE DEF n, p
<1>5. nonce \in dr \ w /\ \A a \in DOMAIN spent : spent[a] # nonce
  BY DEF NonceInOnePlace
<1>6. \A d \in Calls : Holds(n[d]) => /\ d # c /\ n[d] = cs[d] /\ n[d].nonce # nonce
  BY <1>1, <1>2 DEF NonceInOnePlace
<1> HIDE DEF nonce
<1>7. NonceInOnePlace(w, n, dr \cup {token}, p)
  <2>1. w \subseteq Nonces \cap (dr \cup {token}) /\ DOMAIN p \subseteq dr \cup {token}
    BY <1>3 DEF NonceInOnePlace
  <2>2. ASSUME NEW d \in Calls, Holds(n[d])
        PROVE  /\ n[d].nonce \in (dr \cup {token}) \ w
               /\ \A a \in DOMAIN p : p[a] # n[d].nonce
    BY <1>3, <1>4, <1>6, <2>2 DEF NonceInOnePlace
  <2>3. ASSUME NEW d \in Calls, NEW e \in Calls, Holds(n[d]), Holds(n[e]), n[d].nonce = n[e].nonce
        PROVE  d = e
    BY <1>6, <2>3 DEF NonceInOnePlace
  <2>4. \A a \in DOMAIN p : p[a] \in (dr \cup {token}) \ w
    BY <1>3, <1>4, <1>5 DEF NonceInOnePlace
  <2>5. \A a, b \in DOMAIN p : p[a] = p[b] => a = b
    BY <1>3, <1>4, <1>5 DEF NonceInOnePlace
  <2> QED
    BY <2>1, <2>2, <2>3, <2>4, <2>5 DEF NonceInOnePlace
<1> QED
  BY <1>7 DEF n, p, nonce

\* What a call in a given step carries.
LEMMA CallShape ==
  ASSUME NEW c \in CallStates
  PROVE  /\ Holds(c) => c \in [step : {"proved", "granted"}, credential : Ids, nonce : Nonces]
         /\ c.step \in {"forget", "resolved"} => c.credential \in Ids
         /\ c.step \in {"idle", "proved", "granted", "resolved", "admitted", "forget"}
BY DEF CallStates, Holds, Idle
-----------------------------------------------------------------------------
(***************************************************************************)
(* One lemma per action.                                                   *)
(***************************************************************************)
\* Before anything is asked of the gate it is sane.
LEMMA InitEstablishes == Init => IInv
<1> SUFFICES ASSUME Init
             PROVE  IInv
  OBVIOUS
<1> DEFINE e == EmptyMap
<1>1. DOMAIN e = {}
  BY DEF EmptyMap
<1>2. /\ gate = [nonces |-> e, sessions |-> e, byCredential |-> e]
      /\ credentials \in Files /\ index = Numbered(e, credentials)
      /\ calls = [c \in Calls |-> Idle] /\ now = 1
      /\ drawn = {} /\ opened = e /\ charged = {}
  BY DEF Init
<1>3. /\ e \in [{} -> [credential : Ids, expiresAt : Int]]
      /\ e \in [{} -> Seq(Tokens)] /\ e \in [{} -> 1..0]
  BY DEF EmptyMap
<1> HIDE DEF e
<1>4. IsFiniteSet({}) /\ Cardinality({}) = 0
  BY FS_EmptySet
<1>5. /\ gate.nonces = e /\ gate.sessions = e /\ gate.byCredential = e
      /\ gate = [nonces |-> gate.nonces, sessions |-> gate.sessions,
                 byCredential |-> gate.byCredential]
  BY <1>2
<1>6. Sane(gate, now)
  <2>1. IsGate(gate)
    BY <1>1, <1>3, <1>5 DEF IsGate
  <2>2. Indexed(gate) /\ Dated(gate, now)
    BY <1>1, <1>5 DEF Indexed, Dated
  <2>3. Small(gate)
    BY <1>1, <1>4, <1>5, GateConstants DEF Small
  <2> QED
    BY <2>1, <2>2, <2>3 DEF Sane
<1>7. IsIndex(e)
  BY <1>1, <1>3, <1>4 DEF IsIndex, IsInjective
<1>8. IndexInv
  <2>1. IsIndex(index) /\ DOMAIN index = DOMAIN e \cup DOMAIN credentials
    BY <1>2, <1>7, NumberedIndex
  <2> QED
    BY <1>2, <2>1 DEF IndexInv, ChargesNamed
<1>9. calls \in [Calls -> CallStates] /\ \A c \in Calls : ~Holds(calls[c])
  BY <1>2 DEF CallStates, Holds, Idle
<1>10. NonceInOnePlace(DOMAIN gate.nonces, calls, drawn, opened)
  BY <1>1, <1>2, <1>5, <1>9 DEF NonceInOnePlace
<1> QED
  BY <1>1, <1>2, <1>5, <1>6, <1>8, <1>9, <1>10 DEF IInv

LEMMA ReadingType ==
  ASSUME IInv, NEW t \in Readings
  PROVE  t \in Nat /\ t <= now /\ now <= t + MaxLag /\ now \in Nat
BY DEF IInv, Readings

LEMMA ChallengeKeeps ==
  ASSUME IInv, NEW t \in Readings, NEW nonce \in Nonces, Challenge(nonce, t)
  PROVE  IInv'
<1>1. /\ Sane(gate', now)
      /\ DOMAIN gate'.nonces \subseteq DOMAIN gate.nonces \cup {nonce}
      /\ DOMAIN gate'.sessions \subseteq DOMAIN gate.sessions
  BY ChallengeSane DEF Challenge, IInv
<1>2. NonceInOnePlace(DOMAIN gate'.nonces, calls, drawn', opened)
  <2> DEFINE w == DOMAIN gate.nonces
             w2 == DOMAIN gate'.nonces
             new == {nonce}
  <2>1. /\ NonceInOnePlace(w, calls, drawn, opened)
        /\ new \subseteq Nonces /\ new \cap drawn = {} /\ w2 \subseteq w \cup new
        /\ drawn' = drawn \cup (w2 \ w)
    BY <1>1 DEF Challenge, IInv
  <2> HIDE DEF w, w2, new
  <2>2. NonceInOnePlace(w2, calls, drawn', opened)
    BY <2>1, WaitingChanges
  <2> QED
    BY <2>2 DEF w2
<1>3. UNCHANGED <<credentials, index, calls, now, opened, charged>> /\ drawn \subseteq drawn'
  BY DEF Challenge
<1> QED
  BY <1>1, <1>2, <1>3 DEF IInv, IndexInv, ChargesNamed

\* A step of a call that touches neither the tables nor the index.
LEMMA CallOnly ==
  ASSUME IInv, NEW c \in Calls, NEW v \in CallStates, Goes(c, v),
         Holds(v) => Holds(calls[c]) /\ v.nonce = calls[c].nonce
  PROVE  /\ calls' \in [Calls -> CallStates]
         /\ NonceInOnePlace(DOMAIN gate.nonces, calls', drawn, opened)
<1>1. calls \in [Calls -> CallStates] /\ NonceInOnePlace(DOMAIN gate.nonces, calls, drawn, opened)
  BY DEF IInv
<1>2. calls' = [calls EXCEPT ![c] = v]
  BY DEF Goes
<1>3. calls' \in [Calls -> CallStates]
  BY <1>1, <1>2
<1>4. NonceInOnePlace(DOMAIN gate.nonces, [calls EXCEPT ![c] = v], drawn, opened)
  BY <1>1, CallMoves
<1> QED
  BY <1>2, <1>3, <1>4

LEMMA IdleState == Idle \in CallStates /\ ~Holds(Idle)
BY DEF CallStates, Idle, Holds

LEMMA VerifyProofKeeps ==
  ASSUME IInv, NEW t \in Readings, NEW call \in Calls, NEW id \in Ids, NEW nonce \in Nonces,
         NEW signed \in BOOLEAN, VerifyProof(call, id, nonce, signed, t)
  PROVE  IInv'
<1> DEFINE w == DOMAIN gate.nonces
           v == [step |-> "proved", credential |-> id, nonce |-> nonce]
<1>1. /\ Sane(gate', now) /\ DOMAIN gate'.nonces = w \ {nonce}
      /\ gate'.sessions = gate.sessions
  BY SpendSane DEF VerifyProof, IInv
<1>2. v \in CallStates /\ v.nonce = nonce
  BY DEF CallStates
<1> HIDE DEF v
<1>3. (Goes(call, v) /\ nonce \in w) \/ Goes(call, Idle)
  BY DEF VerifyProof, Answerable, v
<1>4. /\ calls \in [Calls -> CallStates] /\ NonceInOnePlace(w, calls, drawn, opened)
  BY DEF IInv
<1> HIDE DEF w
<1>5. calls' \in [Calls -> CallStates] /\ NonceInOnePlace(w \ {nonce}, calls', drawn, opened)
  <2>1. CASE Goes(call, v) /\ nonce \in w
    <3>1. calls' = [calls EXCEPT ![call] = v]
      BY <2>1 DEF Goes
    <3>2. NonceInOnePlace(w \ {nonce}, [calls EXCEPT ![call] = v], drawn, opened)
      BY <1>2, <1>4, <2>1, CallTakes
    <3> QED
      BY <1>2, <1>4, <3>1, <3>2
  <2>2. CASE Goes(call, Idle)
    <3>1. calls' \in [Calls -> CallStates] /\ NonceInOnePlace(w, calls', drawn, opened)
      BY <2>2, CallOnly, IdleState DEF w
    <3> QED
      BY <3>1 DEF NonceInOnePlace
  <2> QED
    BY <1>3, <2>1, <2>2
<1>6. UNCHANGED <<credentials, index, now, drawn, opened, charged>>
  BY DEF VerifyProof
<1> QED
  BY <1>1, <1>5, <1>6 DEF IInv, IndexInv, ChargesNamed

LEMMA RedeemLookupKeeps ==
  ASSUME IInv, NEW t \in Readings, NEW call \in Calls, RedeemLookup(call, t)
  PROVE  IInv'
<1> DEFINE c == calls[call]
           granted == [c EXCEPT !.step = "granted"]
           expired == [step |-> "forget", credential |-> c.credential]
<1>1. c \in CallStates /\ Holds(c)
  BY DEF IInv, RedeemLookup, Holds
<1>2. c \in [step : {"proved", "granted"}, credential : Ids, nonce : Nonces]
  BY <1>1, CallShape
<1>3. /\ granted \in CallStates /\ granted.nonce = c.nonce
      /\ expired \in CallStates /\ ~Holds(expired)
  <2> HIDE DEF c
  <2> QED
    BY <1>2 DEF CallStates, Holds
<1>4. Goes(call, granted) \/ Goes(call, expired) \/ Goes(call, Idle)
  BY DEF RedeemLookup, Lookup
<1>5. /\ calls' \in [Calls -> CallStates]
      /\ NonceInOnePlace(DOMAIN gate.nonces, calls', drawn, opened)
  <2> HIDE DEF granted, expired
  <2>1. CASE Goes(call, granted)
    BY <1>1, <1>3, <2>1, CallOnly
  <2>2. CASE Goes(call, expired)
    BY <1>3, <2>2, CallOnly
  <2>3. CASE Goes(call, Idle)
    BY <2>3, CallOnly, IdleState
  <2> QED
    BY <1>4, <2>1, <2>2, <2>3
<1>6. UNCHANGED <<gate, credentials, index, now, drawn, opened, charged>>
  BY DEF RedeemLookup
<1> QED
  BY <1>5, <1>6 DEF IInv, IndexInv, ChargesNamed
LEMMA OpenKeeps ==
  ASSUME IInv, NEW t \in Readings, NEW call \in Calls, NEW token \in Tokens,
         Open(call, token, t)
  PROVE  IInv'
<1> DEFINE c == calls[call]
           w == DOMAIN gate.nonces
<1>1. t \in Nat /\ t <= now /\ now \in Nat
  BY ReadingType
<1>2. c \in CallStates /\ Holds(c) /\ token \notin drawn
  BY DEF IInv, Open, Holds
<1>3. c.credential \in Ids
  BY <1>2, CallShape
<1>4. /\ Sane(gate, now) /\ token \notin DOMAIN gate.sessions
      /\ calls \in [Calls -> CallStates] /\ NonceInOnePlace(w, calls, drawn, opened)
  BY <1>2 DEF IInv
<1>5. calls' = [calls EXCEPT ![call] = Idle]
  BY DEF Open, Goes
<1>6. calls' \in [Calls -> CallStates]
  BY <1>4, <1>5, IdleState
<1>7. CASE GateBusy(gate, t)
  <2>1. gate' = sweepLocked(gate, t) /\ drawn' = drawn /\ opened' = opened
    BY <1>7 DEF Open
  <2>2. /\ Sane(gate', now) /\ DOMAIN gate'.nonces \subseteq w
        /\ DOMAIN gate'.sessions \subseteq DOMAIN gate.sessions
    BY <1>4, <2>1, SweepSane
  <2>3. NonceInOnePlace(w, calls', drawn, opened)
    BY <1>4, <1>5, IdleState, CallMoves
  <2>4. NonceInOnePlace(DOMAIN gate'.nonces, calls', drawn', opened')
    BY <2>1, <2>2, <2>3 DEF NonceInOnePlace
  <2>5. UNCHANGED <<credentials, index, now, charged>>
    BY DEF Open
  <2> QED
    BY <1>6, <2>1, <2>2, <2>4, <2>5 DEF IInv, IndexInv, ChargesNamed
<1>8. CASE ~GateBusy(gate, t)
  <2>1. /\ gate' = open(gate, c.credential, token, t)
        /\ drawn' = drawn \cup {token} /\ opened' = Put(opened, token, c.nonce)
    BY <1>8 DEF Open
  <2>2. /\ Sane(gate', now) /\ DOMAIN gate'.nonces \subseteq w
        /\ DOMAIN gate'.sessions \subseteq DOMAIN gate.sessions \cup {token}
    BY <1>1, <1>3, <1>4, <1>8, <2>1, OpenSane
  <2>3. NonceInOnePlace(w, [calls EXCEPT ![call] = Idle], drawn \cup {token},
                        Put(opened, token, calls[call].nonce))
    BY <1>2, <1>4, CallSpends
  <2>4. NonceInOnePlace(w, calls', drawn', opened')
    BY <1>5, <2>1, <2>3
  <2>5. NonceInOnePlace(DOMAIN gate'.nonces, calls', drawn', opened')
    BY <2>2, <2>4 DEF NonceInOnePlace
  <2>6. DOMAIN gate'.sessions \subseteq drawn'
    BY <2>1, <2>2 DEF IInv
  <2>7. UNCHANGED <<credentials, index, now, charged>>
    BY DEF Open
  <2> QED
    BY <1>6, <2>2, <2>5, <2>6, <2>7 DEF IInv, IndexInv, ChargesNamed
<1> QED
  BY <1>7, <1>8

LEMMA ResolveKeeps ==
  ASSUME IInv, NEW t \in Readings, NEW call \in Calls, NEW token \in Tokens,
         Resolve(call, token, t)
  PROVE  IInv'
<1>1. UNCHANGED <<credentials, index, now, drawn, opened, charged>> /\ token \in DOMAIN gate.sessions
  BY DEF Resolve
<1>2. CASE gate.sessions[token].expiresAt <= t
  <2>1. gate' = dropLocked(gate, {token}) /\ calls' = calls
    BY <1>2 DEF Resolve
  <2>2. /\ Sane(gate', now) /\ gate'.nonces = gate.nonces
        /\ DOMAIN gate'.sessions = DOMAIN gate.sessions \ {token}
    <3>1. Sane(gate, now) /\ {token} \subseteq DOMAIN gate.sessions
      BY <1>1 DEF IInv
    <3> QED
      BY <2>1, <3>1, DropSane
  <2> QED
    BY <1>1, <2>1, <2>2 DEF IInv, IndexInv, ChargesNamed
<1>3. CASE ~(gate.sessions[token].expiresAt <= t)
  <2> DEFINE id == gate.sessions[token].credential
             v == [step |-> "resolved", credential |-> id]
  <2>1. Goes(call, v) /\ gate' = gate
    BY <1>3 DEF Resolve
  <2>2. id \in Ids
    BY <1>1 DEF IInv, Sane, IsGate
  <2> HIDE DEF id
  <2>3. v \in CallStates /\ ~Holds(v)
    BY <2>2 DEF CallStates, Holds
  <2> HIDE DEF v
  <2>4. /\ calls' \in [Calls -> CallStates]
        /\ NonceInOnePlace(DOMAIN gate.nonces, calls', drawn, opened)
    BY <2>1, <2>3, CallOnly
  <2> QED
    BY <1>1, <2>1, <2>4 DEF IInv, IndexInv, ChargesNamed
<1> QED
  BY <1>2, <1>3

\* A grant is made under the index its circle has.
LEMMA AdmitLookupKeeps ==
  ASSUME IInv, NEW t \in Readings, NEW call \in Calls, AdmitLookup(call, t)
  PROVE  IInv'
<1> DEFINE id == calls[call].credential
           admitted == [step |-> "admitted", credential |-> id, index |-> index[id]]
           forgets == [step |-> "forget", credential |-> id]
<1>1. UNCHANGED <<gate, credentials, index, now, drawn, opened>>
  BY DEF AdmitLookup
<1>2. id \in Ids
  <2>1. calls[call] \in CallStates /\ calls[call].step = "resolved"
    BY DEF IInv, AdmitLookup
  <2> QED
    BY <2>1, CallShape
<1>3. \/ Goes(call, admitted) /\ charged' = charged \cup {<<index[id], id>>} /\ id \in DOMAIN credentials
      \/ Goes(call, forgets) /\ charged' = charged
  BY DEF AdmitLookup, Lookup
<1> HIDE DEF id
<1>4. CASE Goes(call, admitted) /\ charged' = charged \cup {<<index[id], id>>} /\ id \in DOMAIN credentials
  <2>1. id \in DOMAIN index /\ index[id] \in Nat
    BY <1>4 DEF IInv, IndexInv, IsIndex
  <2>2. admitted \in CallStates /\ ~Holds(admitted)
    BY <1>2, <2>1 DEF CallStates, Holds
  <2> HIDE DEF admitted
  <2>3. /\ calls' \in [Calls -> CallStates]
        /\ NonceInOnePlace(DOMAIN gate.nonces, calls', drawn, opened)
    BY <1>4, <2>2, CallOnly
  <2>4. ChargesNamed'
    BY <1>1, <1>4, <2>1 DEF IInv, IndexInv, ChargesNamed
  <2> QED
    BY <1>1, <2>3, <2>4 DEF IInv, IndexInv
<1>5. CASE Goes(call, forgets) /\ charged' = charged
  <2>1. forgets \in CallStates /\ ~Holds(forgets)
    BY <1>2 DEF CallStates, Holds
  <2> HIDE DEF forgets
  <2>2. /\ calls' \in [Calls -> CallStates]
        /\ NonceInOnePlace(DOMAIN gate.nonces, calls', drawn, opened)
    BY <1>5, <2>1, CallOnly
  <2> QED
    BY <1>1, <1>5, <2>2 DEF IInv, IndexInv, ChargesNamed
<1> QED
  BY <1>3, <1>4, <1>5

LEMMA ForgetKeeps ==
  ASSUME IInv, NEW call \in Calls, Forget(call)
  PROVE  IInv'
<1>1. UNCHANGED <<credentials, index, now, drawn, opened, charged>> /\ Goes(call, Idle)
  BY DEF Forget
<1>2. /\ Sane(gate', now) /\ gate'.nonces = gate.nonces
      /\ DOMAIN gate'.sessions \subseteq DOMAIN gate.sessions
  BY ForgetSane DEF Forget, IInv
<1>3. /\ calls' \in [Calls -> CallStates]
      /\ NonceInOnePlace(DOMAIN gate.nonces, calls', drawn, opened)
  BY <1>1, IdleState, CallOnly
<1> QED
  BY <1>1, <1>2, <1>3 DEF IInv, IndexInv, ChargesNamed

LEMMA ServedKeeps ==
  ASSUME IInv, NEW call \in Calls, Served(call)
  PROVE  IInv'
<1>1. UNCHANGED <<gate, credentials, index, now, drawn, opened, charged>> /\ Goes(call, Idle)
  BY DEF Served
<1>2. /\ calls' \in [Calls -> CallStates]
      /\ NonceInOnePlace(DOMAIN gate.nonces, calls', drawn, opened)
  BY <1>1, IdleState, CallOnly
<1> QED
  BY <1>1, <1>2 DEF IInv, IndexInv, ChargesNamed

\* A reload numbers the new circles and renumbers none.
LEMMA ReplaceKeeps ==
  ASSUME IInv, NEW file \in Files, Replace(file)
  PROVE  IInv'
<1>1. UNCHANGED <<gate, calls, now, drawn, opened, charged>> /\ credentials' = file
  BY DEF Replace
<1>2. /\ IsIndex(index') /\ DOMAIN index' = DOMAIN index \cup DOMAIN file
      /\ \A id \in DOMAIN index : index'[id] = index[id]
  <2>1. IsIndex(index) /\ index' = Numbered(index, file)
    BY DEF IInv, IndexInv, Replace, ReplaceIndex
  <2> QED
    BY <2>1, NumberedIndex
<1>3. ChargesNamed'
  BY <1>1, <1>2 DEF IInv, IndexInv, ChargesNamed
<1>4. IndexInv'
  BY <1>1, <1>2, <1>3 DEF IndexInv
<1> QED
  BY <1>1, <1>4 DEF IInv

LEMMA TickKeeps ==
  ASSUME IInv, Tick
  PROVE  IInv'
<1>1. UNCHANGED <<gate, credentials, index, calls, drawn, opened, charged>> /\ now' = now + 1
  BY DEF Tick
<1>2. Sane(gate, now) /\ now \in Nat
  BY DEF IInv
<1>3. Dated(gate, now + 1)
  <2>1. ASSUME NEW token \in DOMAIN gate.sessions
        PROVE  gate.sessions[token].expiresAt <= now + 1 + sessionTTL
    <3>1. gate.sessions[token].expiresAt \in Int /\ gate.sessions[token].expiresAt <= now + sessionTTL
      BY <1>2 DEF Sane, IsGate, Dated
    <3> QED
      BY <1>2, <3>1, GateConstants
  <2> QED
    BY <2>1 DEF Dated
<1>4. Sane(gate', now')
  BY <1>1, <1>2, <1>3 DEF Sane
<1> QED
  BY <1>1, <1>2, <1>4 DEF IInv, IndexInv, ChargesNamed

LEMMA NextKeeps == IInv /\ [Next]_vars => IInv'
<1> SUFFICES ASSUME IInv, [Next]_vars
             PROVE  IInv'
  OBVIOUS
<1>1. ASSUME NEW t \in Readings, NEW nonce \in Nonces, Challenge(nonce, t)
      PROVE  IInv'
  BY <1>1, ChallengeKeeps
<1>2. ASSUME NEW t \in Readings, NEW call \in Calls, NEW id \in Ids, NEW nonce \in Nonces,
             NEW signed \in BOOLEAN, VerifyProof(call, id, nonce, signed, t)
      PROVE  IInv'
  BY <1>2, VerifyProofKeeps
<1>3. ASSUME NEW t \in Readings, NEW call \in Calls, NEW token \in Tokens,
             Open(call, token, t) \/ Resolve(call, token, t)
      PROVE  IInv'
  BY <1>3, OpenKeeps, ResolveKeeps
<1>4. ASSUME NEW t \in Readings, NEW call \in Calls, RedeemLookup(call, t) \/ AdmitLookup(call, t)
      PROVE  IInv'
  BY <1>4, RedeemLookupKeeps, AdmitLookupKeeps
<1>5. ASSUME NEW call \in Calls, Forget(call) \/ Served(call)
      PROVE  IInv'
  BY <1>5, ForgetKeeps, ServedKeeps
<1>6. ASSUME NEW file \in Files, Replace(file)
      PROVE  IInv'
  BY <1>6, ReplaceKeeps
<1>7. CASE Tick
  BY <1>7, TickKeeps
<1>8. CASE UNCHANGED vars
  BY <1>8 DEF vars, IInv, IndexInv, ChargesNamed
<1> QED
  BY <1>1, <1>2, <1>3, <1>4, <1>5, <1>6, <1>7, <1>8 DEF Next
-----------------------------------------------------------------------------
(***************************************************************************)
(* The theorems.                                                           *)
(***************************************************************************)
\* The gate's tables, the nonces and the index stay sane in every behaviour.
THEOREM AdmissionInvariance == Spec => []IInv
<1>1. Init => IInv
  BY InitEstablishes
<1>2. IInv /\ [Next]_vars => IInv'
  BY NextKeeps
<1> QED
  BY <1>1, <1>2, PTL DEF Spec

\* The tables hold what they are declared for and keep inside their bounds.
LEMMA InvariantTypes == IInv => TypeOK
<1> SUFFICES ASSUME IInv
             PROVE  TypeOK
  OBVIOUS
<1>1. /\ DOMAIN gate.nonces \subseteq Nonces \cap drawn
      /\ DOMAIN gate.sessions \subseteq Tokens \cap drawn
  BY DEF IInv, NonceInOnePlace, Sane, IsGate
<1>2. /\ \A token \in DOMAIN gate.sessions : gate.sessions[token].expiresAt <= now + sessionTTL
      /\ Cardinality(DOMAIN gate.nonces) <= maxNonces
      /\ Cardinality(DOMAIN gate.sessions) <= maxSessions
  BY DEF IInv, Sane, Dated, Small
<1>3. ASSUME NEW id \in Ids
      PROVE  Len(TokensOf(gate, id)) <= maxSessionsPerCredential
  <2>1. CASE id \in DOMAIN gate.byCredential
    BY <2>1 DEF TokensOf, IInv, Sane, Small
  <2>2. CASE id \notin DOMAIN gate.byCredential
    <3>1. TokensOf(gate, id) = <<>>
      BY <2>2 DEF TokensOf
    <3> QED
      BY <3>1, GateConstants
  <2> QED
    BY <2>1, <2>2
<1>4. DOMAIN credentials \subseteq DOMAIN index /\ DOMAIN index \subseteq Ids
  BY DEF IInv, IndexInv, IsIndex
<1>5. ASSUME NEW call \in Calls
      PROVE  calls[call].step \in {"idle", "proved", "granted", "resolved", "admitted", "forget"}
  <2>1. calls[call] \in CallStates
    BY DEF IInv
  <2> QED
    BY <2>1, CallShape
<1> QED
  BY <1>1, <1>2, <1>3, <1>4, <1>5 DEF TypeOK

\* byCredential (session.go) lists exactly the live sessions, each once and
\* under its circle, and no table outgrows the bound its memory is sized for.
THEOREM TablesExact == Spec => []TablesAgree
<1>1. IInv => TablesAgree
  <2> SUFFICES ASSUME IInv
               PROVE  TablesAgree
    OBVIOUS
  <2>1. TypeOK
    BY InvariantTypes
  <2>2. Indexed(gate)
    BY DEF IInv, Sane
  <2> QED
    BY <2>1, <2>2 DEF TablesAgree, Indexed, Listed, SessionsOf
<1> QED
  BY <1>1, AdmissionInvariance, PTL

\* VerifyProof spends the nonce under the lock before it looks at the proof, so
\* that calls presenting one nonce at the same time open one session.
THEOREM NoncesOpenOnce == Spec => []NonceOpensOnce
<1>1. IInv => NonceOpensOnce
  BY DEF IInv, NonceInOnePlace, NonceOpensOnce
<1> QED
  BY <1>1, AdmissionInvariance, PTL

\* Replace (store.go) never gives a number away, so that a counter kept under
\* an index belongs to one circle over any reloads.
THEOREM IndexesNameOne == Spec => []IndexNamesOneCircle
<1>1. IInv => IndexNamesOneCircle
  <2> SUFFICES ASSUME IInv, NEW a \in charged, NEW b \in charged
               PROVE  (a[1] = b[1]) <=> (a[2] = b[2])
    BY DEF IndexNamesOneCircle
  <2>1. PICK x \in DOMAIN index : a = <<index[x], x>>
    BY DEF IInv, IndexInv, ChargesNamed
  <2>2. PICK y \in DOMAIN index : b = <<index[y], y>>
    BY DEF IInv, IndexInv, ChargesNamed
  <2>3. (index[x] = index[y]) <=> (x = y)
    BY DEF IInv, IndexInv, IsIndex, IsInjective
  <2> QED
    BY <2>1, <2>2, <2>3
<1> QED
  BY <1>1, AdmissionInvariance, PTL

\* A call that becomes admitted.
Admits(call) == calls'[call].step = "admitted" /\ calls[call].step # "admitted"

\* A call that goes to another step admits nobody.
LEMMA QuietMove ==
  ASSUME IInv, NEW c \in Calls, NEW v, Goes(c, v), v.step # "admitted", NEW call \in Calls
  PROVE  ~Admits(call)
<1>1. calls \in [Calls -> CallStates] /\ calls' = [calls EXCEPT ![c] = v]
  BY DEF IInv, Goes
<1>2. calls'[call] = v \/ calls'[call] = calls[call]
  BY <1>1
<1> QED
  BY <1>2 DEF Admits

\* Only the second lookup admits, and only a circle in force.
LEMMA AdmitLookupInForce ==
  ASSUME IInv, NEW t \in Readings, NEW c \in Calls, AdmitLookup(c, t),
         NEW call \in Calls, Admits(call)
  PROVE  /\ calls'[call].credential \in DOMAIN credentials
         /\ credentials[calls'[call].credential] + MaxLag > now
<1> DEFINE id == calls[c].credential
           v == [step |-> "admitted", credential |-> id, index |-> index[id]]
           forgets == [step |-> "forget", credential |-> id]
<1>1. \/ Goes(c, v) /\ id \in DOMAIN credentials /\ ~(credentials[id] <= t)
      \/ Goes(c, forgets)
  BY DEF AdmitLookup, Lookup
<1>2. v.credential = id /\ forgets.step # "admitted"
  OBVIOUS
<1> HIDE DEF v, forgets
<1>3. Goes(c, v) /\ id \in DOMAIN credentials /\ ~(credentials[id] <= t)
  BY <1>1, <1>2, QuietMove
<1>4. calls'[call].credential = id
  <2>1. calls \in [Calls -> CallStates] /\ calls' = [calls EXCEPT ![c] = v]
    BY <1>3 DEF IInv, Goes
  <2>2. call = c
    BY <2>1 DEF Admits
  <2> QED
    BY <1>2, <2>1, <2>2
<1>5. credentials[id] \in Nat
  <2>1. credentials \in [DOMAIN credentials -> Nat]
    BY GateConstants DEF IInv, IndexInv
  <2> QED
    BY <1>3, <2>1
<1> HIDE DEF id
<1>6. t \in Nat /\ now \in Nat /\ now <= t + MaxLag
  BY ReadingType
<1>7. credentials[id] + MaxLag > now
  BY <1>3, <1>5, <1>6, GateConstants
<1> QED
  BY <1>3, <1>4, <1>7

\* No other step admits a call.
LEMMA RedeemQuiet ==
  ASSUME IInv, NEW t \in Readings, NEW c \in Calls, RedeemLookup(c, t), NEW call \in Calls
  PROVE  ~Admits(call)
<1> DEFINE s == calls[c]
           granted == [s EXCEPT !.step = "granted"]
           expired == [step |-> "forget", credential |-> s.credential]
<1>1. s \in CallStates /\ Holds(s)
  BY DEF IInv, RedeemLookup, Holds
<1>2. s \in [step : {"proved", "granted"}, credential : Ids, nonce : Nonces]
  BY <1>1, CallShape
<1>3. granted.step # "admitted" /\ expired.step # "admitted" /\ Idle.step # "admitted"
  <2> HIDE DEF s
  <2> QED
    BY <1>2 DEF Idle
<1>4. Goes(c, granted) \/ Goes(c, expired) \/ Goes(c, Idle)
  BY DEF RedeemLookup, Lookup
<1> HIDE DEF granted, expired
<1> QED
  BY <1>3, <1>4, QuietMove

\* admit (httpapi/admission.go) looks the credential up again after it has
\* resolved the session, so that a revoked or expired circle is turned away
\* on its next call, whatever reload came in between.
THEOREM RevocationsTakeEffect == Spec => RevocationTakesEffect
<1> DEFINE InForce(call) == /\ calls'[call].credential \in DOMAIN credentials
                            /\ credentials[calls'[call].credential] + MaxLag > now
           A == \A call \in Calls :
                  calls'[call].step = "admitted" /\ calls[call].step # "admitted" =>
                    /\ calls'[call].credential \in DOMAIN credentials
                    /\ credentials[calls'[call].credential] + MaxLag > now
<1>1. IInv /\ [Next]_vars => [A]_vars
  <2> SUFFICES ASSUME IInv, Next, NEW call \in Calls, Admits(call)
               PROVE  InForce(call)
    BY DEF Admits
  <2> HIDE DEF InForce
  <2>0. Idle.step # "admitted" /\ calls' # calls
    BY DEF Idle, Admits
  <2>1. ASSUME NEW t \in Readings, NEW nonce \in Nonces, Challenge(nonce, t)
        PROVE  InForce(call)
    BY <2>0, <2>1 DEF Challenge
  <2>2. ASSUME NEW t \in Readings, NEW c \in Calls, NEW id \in Ids, NEW nonce \in Nonces,
               NEW signed \in BOOLEAN, VerifyProof(c, id, nonce, signed, t)
        PROVE  InForce(call)
    <3> DEFINE v == [step |-> "proved", credential |-> id, nonce |-> nonce]
    <3>1. Goes(c, v) \/ Goes(c, Idle)
      BY <2>2 DEF VerifyProof
    <3>2. v.step # "admitted"
      OBVIOUS
    <3> HIDE DEF v
    <3> QED
      BY <2>0, <3>1, <3>2, QuietMove
  <2>3. ASSUME NEW t \in Readings, NEW c \in Calls, NEW token \in Tokens, Open(c, token, t)
        PROVE  InForce(call)
    <3>1. Goes(c, Idle)
      BY <2>3 DEF Open
    <3> QED
      BY <2>0, <3>1, QuietMove
  <2>4. ASSUME NEW t \in Readings, NEW c \in Calls, NEW token \in Tokens, Resolve(c, token, t)
        PROVE  InForce(call)
    <3> DEFINE v == [step |-> "resolved", credential |-> gate.sessions[token].credential]
    <3>1. Goes(c, v)
      BY <2>0, <2>4 DEF Resolve
    <3>2. v.step # "admitted"
      OBVIOUS
    <3> HIDE DEF v
    <3> QED
      BY <3>1, <3>2, QuietMove
  <2>5. ASSUME NEW t \in Readings, NEW c \in Calls, RedeemLookup(c, t)
        PROVE  InForce(call)
    BY <2>5, RedeemQuiet
  <2>6. ASSUME NEW t \in Readings, NEW c \in Calls, AdmitLookup(c, t)
        PROVE  InForce(call)
    BY <2>6, AdmitLookupInForce DEF InForce
  <2>7. ASSUME NEW c \in Calls, Forget(c) \/ Served(c)
        PROVE  InForce(call)
    <3>1. Goes(c, Idle)
      BY <2>7 DEF Forget, Served
    <3> QED
      BY <2>0, <3>1, QuietMove
  <2>8. ASSUME NEW file \in Files, Replace(file)
        PROVE  InForce(call)
    BY <2>0, <2>8 DEF Replace
  <2>9. ~Tick
    BY <2>0 DEF Tick
  <2> QED
    BY <2>1, <2>2, <2>3, <2>4, <2>5, <2>6, <2>7, <2>8, <2>9 DEF Next
<1> QED
  BY <1>1, AdmissionInvariance, PTL DEF Spec, RevocationTakesEffect
=============================================================================
