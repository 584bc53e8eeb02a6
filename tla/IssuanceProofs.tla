--------------------------- MODULE IssuanceProofs ---------------------------
(***************************************************************************)
(* Proofs about Issuance: the credential file always loads, and what a     *)
(* circle was told stays true, over overlapping commands, kills and power  *)
(* cuts.                                                                   *)
(***************************************************************************)
EXTENDS Issuance, TLAPS

(***************************************************************************)
(* The parts of the inductive invariant.  A file at the path is whole and  *)
(* synced and was marshalled: nothing else is ever renamed over it, and    *)
(* only what was there can come back after a power cut.                    *)
(***************************************************************************)
IsTerms(v) == v = [tier |-> v.tier, notAfter |-> v.notAfter] /\ v.notAfter \in Int

IsCredentials(cs) ==
  /\ cs = [id \in DOMAIN cs |-> cs[id]] /\ DOMAIN cs \subseteq Codes
  /\ \A id \in DOMAIN cs : IsTerms(cs[id])

IsFile(f) ==
  f = [exists |-> f.exists, credentials |-> f.credentials, whole |-> f.whole,
       mode |-> f.mode, owner |-> f.owner, synced |-> f.synced]

IsWhole(f) ==
  /\ IsFile(f) /\ f.exists = TRUE /\ f.whole = TRUE /\ f.synced = TRUE
  /\ IsCredentials(f.credentials)
  /\ Marshals(f.credentials)

Sound(f) == f = NoFile \/ IsWhole(f)

IsOpened(c) ==
  /\ c = [step |-> "opened", kind |-> c.kind, id |-> c.id, credentials |-> c.credentials,
          mode |-> c.mode, existed |-> c.existed, stale |-> c.stale]
  /\ c.existed \in BOOLEAN /\ c.stale \in BOOLEAN
  /\ IsCredentials(c.credentials)
  /\ c.kind # "revoke" => c.id \in DOMAIN c.credentials

IsWritten(c) ==
  /\ c = [step |-> "written", kind |-> c.kind, id |-> c.id, stale |-> c.stale, temp |-> c.temp]
  /\ c.stale \in BOOLEAN
  /\ IsWhole(c.temp)
  /\ c.kind # "revoke" => c.id \in DOMAIN c.temp.credentials

IsSaved(c) ==
  /\ c = [step |-> "saved", kind |-> c.kind, id |-> c.id, stale |-> c.stale,
          notAfter |-> c.notAfter]
  /\ c.stale \in BOOLEAN

IsCommand(c) == c = Idle \/ IsOpened(c) \/ IsWritten(c) \/ IsSaved(c)

(***************************************************************************)
(* What NormalizeCode is for: a typing that names a circle in the file     *)
(* names the one whose code was meant.  Normalization works on the         *)
(* symbols of a sequence, one by one; the runs evaluate it.                *)
(***************************************************************************)
ReadsAsMeant ==
  \A typed \in Typings :
    CredentialFromCode(typed) \in Codes => CredentialFromCode(typed) = Meant[typed]

(***************************************************************************)
(* What a command may do to the file f it read: a code goes only if it is  *)
(* the one revoked, and no window shrinks.                                 *)
(***************************************************************************)
Held(f) == IF f.exists THEN f.credentials ELSE EmptyMap

Continues(f, cs, kind, id) ==
  \A x \in DOMAIN Held(f) :
    \/ kind = "revoke" /\ x = id
    \/ x \in DOMAIN cs /\ cs[x].notAfter >= Held(f)[x].notAfter

(***************************************************************************)
(* A command that is not stale works from, or saved, the very file the     *)
(* path names.                                                             *)
(***************************************************************************)
FreshOpened(f, c) ==
  /\ c.existed = f.exists
  /\ f.exists => c.mode = f.mode
  /\ ReadsAsMeant => Continues(f, c.credentials, c.kind, c.id)

FreshWritten(f, c) ==
  /\ f.exists => c.temp.mode = f.mode /\ c.temp.owner = f.owner
  /\ ReadsAsMeant => Continues(f, c.temp.credentials, c.kind, c.id)

FreshSaved(f, c) ==
  c.kind # "revoke" => /\ c.id \in DOMAIN Held(f)
                       /\ Held(f)[c.id].notAfter = c.notAfter

Fresh(f, c) ==
  \/ c = Idle
  \/ c.stale
  \/ c.step = "opened" /\ FreshOpened(f, c)
  \/ c.step = "written" /\ FreshWritten(f, c)
  \/ c.step = "saved" /\ FreshSaved(f, c)

Files == Sound(file) /\ Sound(disk)

Commands ==
  /\ commands = [o \in Operators |-> commands[o]]
  /\ \A o \in Operators : IsCommand(commands[o]) /\ Fresh(file, commands[o])

Access == provided /\ ~undone => file.exists /\ RelayMayRead(file)

Told ==
  /\ promised = [id \in DOMAIN promised |-> promised[id]]
  /\ ReadsAsMeant /\ ~undone =>
       \A id \in DOMAIN promised : /\ id \in DOMAIN Held(file)
                                   /\ promised[id] \in Int
                                   /\ Held(file)[id].notAfter >= promised[id]

IInv == Files /\ Commands /\ Access /\ Told /\ undone \in BOOLEAN

-----------------------------------------------------------------------------
(***************************************************************************)
(* Files and what commands make of them.                                   *)
(***************************************************************************)
\* What a sound file holds is a set of credentials, also when it is not there.
LEMMA HeldCredentials ==
  ASSUME NEW f, Sound(f)
  PROVE  IsCredentials(Held(f)) /\ f.exists \in BOOLEAN
<1>1. CASE f = NoFile
  <2>1. Held(f) = EmptyMap /\ f.exists = FALSE
    BY <1>1 DEF Held, NoFile
  <2> QED
    BY <2>1 DEF IsCredentials, EmptyMap
<1>2. CASE IsWhole(f)
  <2>1. f.exists = TRUE
    BY <1>2 DEF IsWhole
  <2> QED
    BY <1>2, <2>1 DEF IsWhole, Held
<1> QED
  BY <1>1, <1>2 DEF Sound

\* A sound file that exists is whole.
LEMMA ExistingWhole ==
  ASSUME NEW f, Sound(f), f.exists
  PROVE  IsWhole(f)
BY DEF Sound, NoFile

\* A new code leaves every other as it was.
LEMMA MintContinues ==
  ASSUME NEW f, Sound(f), NEW id \in Codes, id \notin DOMAIN Held(f), NEW tier, NEW end \in Int
  PROVE  LET cs == Mint(Held(f), id, Terms(tier, end))
         IN  IsCredentials(cs) /\ id \in DOMAIN cs /\ Continues(f, cs, "mint", id)
<1> DEFINE h == Held(f)
           v == Terms(tier, end)
           cs == Mint(h, id, v)
<1>1. IsCredentials(h)
  BY HeldCredentials
<1>2. IsTerms(v)
  BY DEF IsTerms, Terms
<1> HIDE DEF v, h
<1>3. /\ DOMAIN cs = DOMAIN h \cup {id} /\ cs[id] = v
      /\ \A x \in DOMAIN h \ {id} : cs[x] = h[x]
      /\ cs = [x \in DOMAIN cs |-> cs[x]]
  BY DEF Mint, Put
<1> HIDE DEF cs
<1>4. IsCredentials(cs)
  BY <1>1, <1>2, <1>3 DEF IsCredentials
<1>5. ASSUME NEW x \in DOMAIN h
      PROVE  x \in DOMAIN cs /\ cs[x].notAfter >= h[x].notAfter
  <2>1. cs[x] = h[x] /\ h[x].notAfter \in Int
    BY <1>1, <1>3, <1>5 DEF h, IsCredentials, IsTerms
  <2> QED
    BY <1>3, <2>1
<1> QED
  BY <1>3, <1>4, <1>5 DEF Continues, cs, h, v

\* A renewal ends no window earlier than it was to end.
LEMMA RenewContinues ==
  ASSUME NEW f, Sound(f), NEW id \in DOMAIN Held(f), NEW now \in Nat,
         NEW extend \in Int, extend > 0
  PROVE  LET cs == Renew(Held(f), id, now, extend)
         IN  IsCredentials(cs) /\ id \in DOMAIN cs /\ Continues(f, cs, "renew", id)
<1> DEFINE h == Held(f)
           was == h[id].notAfter
           end == (IF was < now THEN now ELSE was) + extend
           v == [tier |-> h[id].tier, notAfter |-> end]
           cs == Renew(h, id, now, extend)
<1>1. IsCredentials(h)
  BY HeldCredentials
<1>2. h[id] = [tier |-> h[id].tier, notAfter |-> was] /\ was \in Int
  BY <1>1 DEF IsCredentials, IsTerms
<1>3. end \in Int /\ end >= was
  BY <1>2
<1>4. cs = [h EXCEPT ![id].notAfter = end]
  BY DEF Renew
<1> HIDE DEF cs, end, was, h
<1>5. [h[id] EXCEPT !.notAfter = end] = v
  BY <1>2
<1>6. cs = [h EXCEPT ![id] = v]
  BY <1>4, <1>5
<1>7. /\ IsTerms(v) /\ v.notAfter = end
  BY <1>3 DEF IsTerms
<1> HIDE DEF v
<1>8. /\ DOMAIN cs = DOMAIN h /\ cs[id] = v
      /\ \A x \in DOMAIN h \ {id} : cs[x] = h[x]
      /\ cs = [x \in DOMAIN cs |-> cs[x]]
  BY <1>1, <1>6 DEF IsCredentials, h
<1>9. IsCredentials(cs)
  BY <1>1, <1>7, <1>8 DEF IsCredentials
<1>10. ASSUME NEW x \in DOMAIN h
       PROVE  x \in DOMAIN cs /\ cs[x].notAfter >= h[x].notAfter
  <2>1. h[x].notAfter \in Int
    BY <1>1 DEF IsCredentials, IsTerms
  <2> QED
    BY <1>3, <1>7, <1>8, <2>1 DEF was
<1> QED
  BY <1>8, <1>9, <1>10 DEF Continues, cs, h

\* A revocation takes one code.
LEMMA RevokeContinues ==
  ASSUME NEW f, Sound(f), NEW id
  PROVE  LET cs == Revoke(Held(f), id)
         IN  IsCredentials(cs) /\ Continues(f, cs, "revoke", id)
<1> DEFINE h == Held(f)
           cs == Revoke(h, id)
<1>1. IsCredentials(h)
  BY HeldCredentials
<1> HIDE DEF h
<1>2. /\ DOMAIN cs = DOMAIN h \ {id}
      /\ \A x \in DOMAIN cs : cs[x] = h[x]
      /\ cs = [x \in DOMAIN cs |-> cs[x]]
  BY DEF Revoke, Without, Restrict
<1> HIDE DEF cs
<1>3. IsCredentials(cs)
  BY <1>1, <1>2 DEF IsCredentials
<1>4. ASSUME NEW x \in DOMAIN h, x # id
      PROVE  x \in DOMAIN cs /\ cs[x].notAfter >= h[x].notAfter
  <2>1. h[x].notAfter \in Int
    BY <1>1 DEF IsCredentials, IsTerms
  <2> QED
    BY <1>2, <1>4, <2>1
<1> QED
  BY <1>3, <1>4 DEF Continues, cs, h

\* A command that was overtaken claims nothing about the file any more.
LEMMA StaleCommand ==
  ASSUME NEW c, IsCommand(c), c # Idle
  PROVE  LET n == [c EXCEPT !.stale = TRUE]
         IN  IsCommand(n) /\ \A f : Fresh(f, n)
<1>1. ASSUME NEW v \in BOOLEAN
      PROVE  LET n == [c EXCEPT !.stale = v]
             IN  (IsOpened(n) \/ IsWritten(n) \/ IsSaved(n)) /\ n.stale = v
  <2> DEFINE n == [c EXCEPT !.stale = v]
  <2>1. CASE IsOpened(c)
    <3>1. n = [step |-> "opened", kind |-> c.kind, id |-> c.id, credentials |-> c.credentials,
               mode |-> c.mode, existed |-> c.existed, stale |-> v]
      BY <2>1 DEF IsOpened
    <3> HIDE DEF n
    <3>2. IsOpened(n) /\ n.stale = v
      BY <2>1, <3>1 DEF IsOpened
    <3> QED
      BY <3>2 DEF n
  <2>2. CASE IsWritten(c)
    <3>1. n = [step |-> "written", kind |-> c.kind, id |-> c.id, stale |-> v, temp |-> c.temp]
      BY <2>2 DEF IsWritten
    <3> HIDE DEF n
    <3>2. IsWritten(n) /\ n.stale = v
      BY <2>2, <3>1 DEF IsWritten
    <3> QED
      BY <3>2 DEF n
  <2>3. CASE IsSaved(c)
    <3>1. n = [step |-> "saved", kind |-> c.kind, id |-> c.id, stale |-> v,
               notAfter |-> c.notAfter]
      BY <2>3 DEF IsSaved
    <3> HIDE DEF n
    <3>2. IsSaved(n) /\ n.stale = v
      BY <2>3, <3>1 DEF IsSaved
    <3> QED
      BY <3>2 DEF n
  <2> QED
    BY <2>1, <2>2, <2>3 DEF IsCommand
<1>2. PICK v \in BOOLEAN : v = TRUE
  OBVIOUS
<1> DEFINE n == [c EXCEPT !.stale = v]
<1>3. (IsOpened(n) \/ IsWritten(n) \/ IsSaved(n)) /\ n.stale = v
  BY <1>1
<1> HIDE DEF n
<1>4. IsCommand(n) /\ \A f : Fresh(f, n)
  BY <1>2, <1>3 DEF IsCommand, Fresh
<1>5. n = [c EXCEPT !.stale = TRUE]
  BY <1>2, Zenon DEF n
<1> QED
  BY <1>4, <1>5

\* When the path changes, the commands of `running` are idle or stale.
LEMMA OutdatedFresh ==
  ASSUME Commands, NEW running \in SUBSET Operators, NEW o \in running
  PROVE  IsCommand(Outdated(running)[o]) /\ \A f : Fresh(f, Outdated(running)[o])
<1>1. Outdated(running)[o] = IF commands[o] # Idle THEN [commands[o] EXCEPT !.stale = TRUE]
                             ELSE commands[o]
  BY DEF Outdated
<1>2. IsCommand(commands[o])
  BY DEF Commands
<1>3. CASE commands[o] = Idle
  BY <1>1, <1>3 DEF IsCommand, Fresh
<1>4. CASE commands[o] # Idle
  <2>1. Outdated(running)[o] = [commands[o] EXCEPT !.stale = TRUE]
    BY <1>1, <1>4
  <2> QED
    BY <1>2, <1>4, <2>1, StaleCommand
<1> QED
  BY <1>3, <1>4

\* The steps of a command, by name.
LEMMA CommandAt ==
  ASSUME NEW c, IsCommand(c)
  PROVE  /\ c.step = "opened" => IsOpened(c)
         /\ c.step = "written" => IsWritten(c)
         /\ c.step = "saved" => IsSaved(c)
BY DEF IsCommand, IsOpened, IsWritten, IsSaved, Idle

\* Writing back, and losing what was not synced, leave a whole file as it is.
LEMMA WholeKept ==
  ASSUME NEW f, IsWhole(f)
  PROVE  /\ [f EXCEPT !.synced = TRUE] = f
         /\ [f EXCEPT !.whole = @ /\ f.synced] = f
<1>1. ASSUME NEW v, v = f.synced
      PROVE  [f EXCEPT !.synced = v] = f
  BY <1>1 DEF IsWhole, IsFile
<1>2. ASSUME NEW v, v = f.whole
      PROVE  [f EXCEPT !.whole = v] = f
  BY <1>2 DEF IsWhole, IsFile
<1>3. TRUE = f.synced /\ (f.whole /\ f.synced) = f.whole
  BY DEF IsWhole
<1>4. [f EXCEPT !.synced = TRUE] = f
  BY <1>1, <1>3, Zenon
<1>5. [f EXCEPT !.whole = f.whole /\ f.synced] = f
  BY <1>2, <1>3, Zenon
<1> QED
  BY <1>4, <1>5

\* The administrator's change lets the relay read the file and leaves the rest.
LEMMA ProvidedWhole ==
  ASSUME NEW f, IsWhole(f),
         NEW n \in {[f EXCEPT !.owner = "relay"], [f EXCEPT !.mode = "shared"]}
  PROVE  IsWhole(n) /\ Held(n) = Held(f) /\ RelayMayRead(n)
<1>1. \/ n = [exists |-> f.exists, credentials |-> f.credentials, whole |-> f.whole,
              mode |-> f.mode, owner |-> "relay", synced |-> f.synced]
      \/ n = [exists |-> f.exists, credentials |-> f.credentials, whole |-> f.whole,
              mode |-> "shared", owner |-> f.owner, synced |-> f.synced]
  BY DEF IsWhole, IsFile
<1>2. /\ IsFile(n) /\ n.exists = f.exists /\ n.credentials = f.credentials
      /\ n.whole = f.whole /\ n.synced = f.synced
  BY <1>1 DEF IsFile
<1>3. RelayMayRead(n)
  BY <1>1 DEF RelayMayRead
<1> QED
  BY <1>2, <1>3 DEF IsWhole, Held

\* What WriteTemp leaves behind is whole, synced and as it was asked for.
LEMMA SyncedWhole ==
  ASSUME NEW cs, IsCredentials(cs), Marshals(cs), NEW mode, NEW owner
  PROVE  LET temp == Sync([exists |-> TRUE, credentials |-> cs, whole |-> TRUE, mode |-> mode,
                           owner |-> owner, synced |-> FALSE])
         IN  /\ IsWhole(temp)
             /\ temp.credentials = cs /\ temp.mode = mode /\ temp.owner = owner
<1>1. ASSUME NEW yes, NEW no
      PROVE  [[exists |-> yes, credentials |-> cs, whole |-> yes, mode |-> mode,
               owner |-> owner, synced |-> no] EXCEPT !.synced = yes]
               = [exists |-> yes, credentials |-> cs, whole |-> yes, mode |-> mode,
                  owner |-> owner, synced |-> yes]
  <2> DEFINE r == [exists |-> yes, credentials |-> cs, whole |-> yes, mode |-> mode,
                   owner |-> owner, synced |-> no]
  <2>1. /\ r = [exists |-> r.exists, credentials |-> r.credentials, whole |-> r.whole,
                mode |-> r.mode, owner |-> r.owner, synced |-> r.synced]
        /\ r.exists = yes /\ r.credentials = cs /\ r.whole = yes /\ r.mode = mode
        /\ r.owner = owner
    OBVIOUS
  <2> HIDE DEF r
  <2>2. [r EXCEPT !.synced = yes] = [exists |-> yes, credentials |-> cs, whole |-> yes,
                                     mode |-> mode, owner |-> owner, synced |-> yes]
    BY <2>1
  <2> QED
    BY <2>2 DEF r
<1> DEFINE temp == Sync([exists |-> TRUE, credentials |-> cs, whole |-> TRUE, mode |-> mode,
                         owner |-> owner, synced |-> FALSE])
<1>2. temp = [exists |-> TRUE, credentials |-> cs, whole |-> TRUE, mode |-> mode,
              owner |-> owner, synced |-> TRUE]
  BY <1>1, Zenon DEF Sync
<1> HIDE DEF temp
<1>3. /\ temp.exists = TRUE /\ temp.whole = TRUE /\ temp.synced = TRUE
      /\ temp.credentials = cs /\ temp.mode = mode /\ temp.owner = owner
  BY <1>2
<1>4. IsFile(temp)
  BY <1>2, <1>3, Zenon DEF IsFile
<1>5. IsWhole(temp)
  BY <1>3, <1>4 DEF IsWhole
<1> QED
  BY <1>3, <1>5 DEF temp

\* A time.Duration is a whole number of either sign.
LEMMA WindowInt ==
  ASSUME NEW days \in Days
  PROVE  window(days) \in Int
<1>1. days + DurationRange \in Int /\ 2 * DurationRange \in Nat \ {0}
  BY IssuanceConstants
<1>2. ASSUME NEW a \in Int, NEW b \in Nat \ {0}
      PROVE  a % b \in Int
  BY <1>2
<1>3. (days + DurationRange) % (2 * DurationRange) \in Int
  BY <1>1, <1>2
<1> QED
  BY <1>3, IssuanceConstants DEF window

-----------------------------------------------------------------------------
(***************************************************************************)
(* The steps.                                                              *)
(***************************************************************************)
\* One command moves on, the path stays as it is.
LEMMA CommandMoves ==
  ASSUME Commands, NEW o \in Operators, NEW c, IsCommand(c), Fresh(file, c),
         Goes(o, c), UNCHANGED file
  PROVE  Commands'
<1>1. commands' = [commands EXCEPT ![o] = c]
  BY DEF Goes
<1>2. commands' = [p \in Operators |-> commands'[p]]
  BY <1>1 DEF Commands
<1>3. ASSUME NEW p \in Operators
      PROVE  IsCommand(commands'[p]) /\ Fresh(file', commands'[p])
  <2>1. commands'[p] = c \/ commands'[p] = commands[p]
    BY <1>1 DEF Commands
  <2> QED
    BY <2>1 DEF Commands
<1> QED
  BY <1>2, <1>3 DEF Commands

\* Open: the command has read the file the path names.
LEMMA BeginStep ==
  ASSUME IInv, NEW o \in Operators, NEW kind, NEW id, NEW cs, IsCredentials(cs),
         kind # "revoke" => id \in DOMAIN cs,
         ReadsAsMeant => Continues(file, cs, kind, id), Begin(o, kind, id, cs)
  PROVE  IInv'
<1> DEFINE c == [step |-> "opened", kind |-> kind, id |-> id, credentials |-> cs,
                 mode |-> IF file.exists THEN file.mode ELSE "tight",
                 existed |-> file.exists, stale |-> FALSE]
<1>1. /\ Goes(o, c)
      /\ UNCHANGED <<file, disk, promised, undone, provided>>
  BY DEF Begin
<1>2. file.exists \in BOOLEAN
  BY HeldCredentials DEF IInv, Files
<1>3. ASSUME NEW mode, NEW existed \in BOOLEAN, NEW stale \in BOOLEAN,
             existed = file.exists, file.exists => mode = file.mode
      PROVE  LET d == [step |-> "opened", kind |-> kind, id |-> id, credentials |-> cs,
                       mode |-> mode, existed |-> existed, stale |-> stale]
             IN  IsCommand(d) /\ Fresh(file, d)
  <2> DEFINE d == [step |-> "opened", kind |-> kind, id |-> id, credentials |-> cs,
                   mode |-> mode, existed |-> existed, stale |-> stale]
  <2>1. /\ d.step = "opened" /\ d.kind = kind /\ d.id = id /\ d.credentials = cs
        /\ d.mode = mode /\ d.existed = existed /\ d.stale = stale
        /\ d = [step |-> "opened", kind |-> d.kind, id |-> d.id, credentials |-> d.credentials,
                mode |-> d.mode, existed |-> d.existed, stale |-> d.stale]
    OBVIOUS
  <2> HIDE DEF d
  <2>2. IsOpened(d)
    BY <2>1 DEF IsOpened
  <2>3. FreshOpened(file, d)
    BY <1>3, <2>1 DEF FreshOpened
  <2>4. IsCommand(d) /\ Fresh(file, d)
    BY <2>1, <2>2, <2>3 DEF IsCommand, Fresh
  <2> QED
    BY <2>4 DEF d
<1>4. IsCommand(c) /\ Fresh(file, c)
  <2>1. FALSE \in BOOLEAN
    OBVIOUS
  <2> DEFINE mode == IF file.exists THEN file.mode ELSE "tight"
  <2>2. file.exists => mode = file.mode
    BY <1>2
  <2> HIDE DEF mode
  <2>3. LET d == [step |-> "opened", kind |-> kind, id |-> id, credentials |-> cs,
                  mode |-> mode, existed |-> file.exists, stale |-> FALSE]
        IN  IsCommand(d) /\ Fresh(file, d)
    BY <1>2, <1>3, <2>1, <2>2, Zenon
  <2> QED
    BY <2>3 DEF mode
<1> HIDE DEF c
<1>5. Commands'
  BY <1>1, <1>4, CommandMoves DEF IInv
<1> QED
  BY <1>1, <1>5 DEF IInv, Files, Access, Told

\* Save, up to the rename: the temporary file has the mode and the owner of
\* the one it is to replace.
LEMMA WriteTempStep ==
  ASSUME IInv, NEW o \in Operators, WriteTemp(o)
  PROVE  IInv'
<1> DEFINE c == commands[o]
           temp == Sync([exists |-> TRUE, credentials |-> c.credentials, whole |-> TRUE,
                         mode |-> c.mode, owner |-> adoptOwner(c), synced |-> FALSE])
           d == [step |-> "written", kind |-> c.kind, id |-> c.id, stale |-> c.stale,
                 temp |-> temp]
<1>1. /\ c.step = "opened" /\ Marshals(c.credentials) /\ Goes(o, d)
      /\ UNCHANGED <<file, disk, promised, undone, provided>>
  BY DEF WriteTemp
<1>2. IsOpened(c) /\ Fresh(file, c)
  BY <1>1, CommandAt DEF IInv, Commands
<1>3. IsCredentials(c.credentials)
  BY <1>2 DEF IsOpened
<1>4. /\ IsWhole(temp) /\ temp.credentials = c.credentials /\ temp.mode = c.mode
      /\ temp.owner = adoptOwner(c)
  BY <1>1, <1>3, SyncedWhole
<1> HIDE DEF temp
<1>5. /\ d.step = "written" /\ d.kind = c.kind /\ d.id = c.id /\ d.stale = c.stale
      /\ d.temp = temp
      /\ d = [step |-> "written", kind |-> d.kind, id |-> d.id, stale |-> d.stale,
              temp |-> d.temp]
  OBVIOUS
<1> HIDE DEF d
<1>6. IsWritten(d)
  BY <1>2, <1>4, <1>5 DEF IsOpened, IsWritten
<1>7. Fresh(file, d)
  <2>1. CASE c.stale
    BY <1>5, <2>1 DEF Fresh
  <2>2. CASE ~c.stale
    <3>1. FreshOpened(file, c)
      BY <1>1, <1>2, <2>2 DEF Fresh, Idle, IsOpened
    <3>2. file.exists => adoptOwner(c) = file.owner
      BY <3>1 DEF FreshOpened, adoptOwner
    <3>3. FreshWritten(file, d)
      BY <1>4, <1>5, <3>1, <3>2 DEF FreshOpened, FreshWritten
    <3> QED
      BY <1>5, <3>3 DEF Fresh
  <2> QED
    BY <2>1, <2>2
<1>8. Commands'
  BY <1>1, <1>6, <1>7, CommandMoves DEF IInv, IsCommand
<1> QED
  BY <1>1, <1>8 DEF IInv, Files, Access, Told

\* The rename: a command that was not overtaken carries the promises and the
\* access over; one that was is counted as undone.
LEMMA RenameStep ==
  ASSUME IInv, NEW o \in Operators, Rename(o)
  PROVE  IInv'
<1> DEFINE c == commands[o]
           cs == c.temp.credentials
           d == [step |-> "saved", kind |-> c.kind, id |-> c.id, stale |-> FALSE,
                 notAfter |-> IF c.kind = "revoke" THEN 0 ELSE cs[c.id].notAfter]
           others == Operators \ {o}
<1>1. /\ c.step = "written" /\ file' = c.temp /\ undone' = (undone \/ c.stale)
      /\ promised' = IF c.kind = "revoke" THEN Without(promised, {c.id}) ELSE promised
      /\ UNCHANGED <<disk, provided>>
  BY DEF Rename
<1>2. commands' = [Outdated(others) EXCEPT ![o] = d]
  <2>1. Outdated(others)[o] = c
    BY DEF Outdated
  <2>2. commands' = [Outdated(others) EXCEPT ![o] =
          [step |-> "saved", kind |-> @.kind, id |-> @.id, stale |-> FALSE,
           notAfter |-> IF @.kind = "revoke" THEN 0 ELSE @.temp.credentials[@.id].notAfter]]
    BY DEF Rename
  <2> QED
    BY <2>1, <2>2, Zenon
<1>3. IsWritten(c) /\ Fresh(file, c)
  BY <1>1, CommandAt DEF IInv, Commands
<1>4. /\ IsWhole(file') /\ Held(file') = cs /\ IsCredentials(cs)
      /\ c.kind # "revoke" => c.id \in DOMAIN cs
  BY <1>1, <1>3 DEF IsWritten, IsWhole, Held
<1>5. IsCommand(d) /\ Fresh(file', d)
  <2>1. ASSUME NEW stale \in BOOLEAN, NEW end, c.kind # "revoke" => end = cs[c.id].notAfter
        PROVE  LET n == [step |-> "saved", kind |-> c.kind, id |-> c.id, stale |-> stale,
                         notAfter |-> end]
               IN  IsCommand(n) /\ Fresh(file', n)
    <3> DEFINE n == [step |-> "saved", kind |-> c.kind, id |-> c.id, stale |-> stale,
                     notAfter |-> end]
    <3>1. /\ n.step = "saved" /\ n.kind = c.kind /\ n.id = c.id /\ n.stale = stale
          /\ n.notAfter = end
          /\ n = [step |-> "saved", kind |-> n.kind, id |-> n.id, stale |-> n.stale,
                  notAfter |-> n.notAfter]
      OBVIOUS
    <3> HIDE DEF n
    <3>2. IsSaved(n)
      BY <3>1 DEF IsSaved
    <3>3. FreshSaved(file', n)
      BY <1>4, <2>1, <3>1 DEF FreshSaved
    <3>4. IsCommand(n) /\ Fresh(file', n)
      BY <3>1, <3>2, <3>3 DEF IsCommand, Fresh
    <3> QED
      BY <3>4 DEF n
  <2>2. FALSE \in BOOLEAN
    OBVIOUS
  <2> DEFINE end == IF c.kind = "revoke" THEN 0 ELSE cs[c.id].notAfter
  <2>3. c.kind # "revoke" => end = cs[c.id].notAfter
    OBVIOUS
  <2> HIDE DEF end
  <2>4. LET n == [step |-> "saved", kind |-> c.kind, id |-> c.id, stale |-> FALSE,
                  notAfter |-> end]
        IN  IsCommand(n) /\ Fresh(file', n)
    BY <2>1, <2>2, <2>3, Zenon
  <2> QED
    BY <2>4 DEF end
<1> HIDE DEF d
<1>6. Commands'
  <2>1. Outdated(others) = [p \in Operators |-> Outdated(others)[p]]
    BY DEF Outdated
  <2>2. commands' = [p \in Operators |-> commands'[p]]
    BY <1>2, <2>1
  <2>3. ASSUME NEW p \in Operators
        PROVE  IsCommand(commands'[p]) /\ Fresh(file', commands'[p])
    <3>1. CASE p = o
      <4>1. commands'[p] = d
        BY <1>2, <2>1, <3>1
      <4> QED
        BY <1>5, <4>1
    <3>2. CASE p # o
      <4>1. p \in others /\ others \in SUBSET Operators /\ commands'[p] = Outdated(others)[p]
        BY <1>2, <2>1, <3>2
      <4>2. IsCommand(Outdated(others)[p]) /\ Fresh(file', Outdated(others)[p])
        BY <4>1, OutdatedFresh DEF IInv
      <4> QED
        BY <4>1, <4>2
    <3> QED
      BY <3>1, <3>2
  <2> QED
    BY <2>2, <2>3 DEF Commands
<1>7. Files'
  BY <1>1, <1>4 DEF IInv, Files, Sound
<1>8. ASSUME ~undone'
      PROVE  ~undone /\ FreshWritten(file, c)
  <2>1. ~undone /\ ~c.stale
    BY <1>1, <1>8
  <2> QED
    BY <1>1, <1>3, <2>1 DEF Fresh, Idle, IsWritten
<1>9. Access'
  <2> SUFFICES ASSUME provided', ~undone'
               PROVE  file'.exists /\ RelayMayRead(file')
    BY DEF Access
  <2>1. file.exists /\ RelayMayRead(file) /\ FreshWritten(file, c)
    BY <1>1, <1>8 DEF IInv, Access
  <2>2. file'.mode = file.mode /\ file'.owner = file.owner
    BY <1>1, <2>1 DEF FreshWritten
  <2> QED
    BY <1>4, <2>1, <2>2 DEF RelayMayRead, IsWhole
<1>10. Told'
  <2>1. /\ promised' = [id \in DOMAIN promised' |-> promised'[id]]
        /\ DOMAIN promised' \subseteq DOMAIN promised
        /\ \A id \in DOMAIN promised' : /\ promised'[id] = promised[id]
                                         /\ ~(c.kind = "revoke" /\ id = c.id)
    BY <1>1 DEF Without, Restrict, IInv, Told
  <2>2. ASSUME ReadsAsMeant, ~undone', NEW id \in DOMAIN promised'
        PROVE  /\ id \in DOMAIN Held(file')
               /\ promised'[id] \in Int
               /\ Held(file')[id].notAfter >= promised'[id]
    <3>1. ~undone /\ Continues(file, cs, c.kind, c.id)
      BY <1>8, <2>2 DEF FreshWritten
    <3>2. /\ id \in DOMAIN Held(file) /\ promised[id] \in Int
          /\ Held(file)[id].notAfter >= promised[id]
      BY <2>1, <2>2, <3>1 DEF IInv, Told
    <3>3. id \in DOMAIN cs /\ cs[id].notAfter >= Held(file)[id].notAfter
      BY <2>1, <3>1, <3>2 DEF Continues
    <3>4. cs[id].notAfter \in Int /\ Held(file)[id].notAfter \in Int
      BY <1>4, <3>2, <3>3, HeldCredentials DEF IInv, Files, IsCredentials, IsTerms
    <3> QED
      BY <1>4, <2>1, <3>2, <3>3, <3>4
  <2> QED
    BY <2>1, <2>2 DEF Told
<1>11. undone' \in BOOLEAN
  BY <1>1
<1> QED
  BY <1>6, <1>7, <1>9, <1>10, <1>11 DEF IInv

\* The report: what is printed is what the path says.
LEMMA ReportStep ==
  ASSUME IInv, NEW o \in Operators, Report(o)
  PROVE  IInv'
<1> DEFINE c == commands[o]
<1>1. /\ c.step = "saved" /\ Goes(o, Idle)
      /\ promised' = IF c.kind = "revoke" \/ c.stale THEN promised
                     ELSE Put(promised, c.id, c.notAfter)
      /\ UNCHANGED <<file, disk, undone, provided>>
  BY DEF Report
<1>2. IsSaved(c) /\ Fresh(file, c)
  BY <1>1, CommandAt DEF IInv, Commands
<1>3. Commands'
  BY <1>1, CommandMoves DEF IInv, IsCommand, Fresh
<1>4. Told'
  <2>1. CASE c.kind = "revoke" \/ c.stale
    BY <1>1, <2>1 DEF IInv, Told
  <2>2. CASE ~(c.kind = "revoke" \/ c.stale)
    <3>1. promised' = Put(promised, c.id, c.notAfter)
      BY <1>1, <2>2
    <3>2. c.id \in DOMAIN Held(file) /\ Held(file)[c.id].notAfter = c.notAfter
      BY <1>1, <1>2, <2>2 DEF Fresh, FreshSaved, Idle, IsSaved
    <3>3. c.notAfter \in Int
      BY <3>2, HeldCredentials DEF IInv, Files, IsCredentials, IsTerms
    <3>4. /\ promised' = [id \in DOMAIN promised' |-> promised'[id]]
          /\ DOMAIN promised' = DOMAIN promised \cup {c.id}
          /\ promised'[c.id] = c.notAfter
          /\ \A id \in DOMAIN promised \ {c.id} : promised'[id] = promised[id]
      BY <3>1 DEF Put
    <3> QED
      BY <1>1, <3>2, <3>3, <3>4 DEF IInv, Told
  <2> QED
    BY <2>1, <2>2
<1> QED
  BY <1>1, <1>3, <1>4 DEF IInv, Files, Access

\* The administrator lets the relay read the file.
LEMMA ProvideStep ==
  ASSUME IInv, Provide
  PROVE  IInv'
<1>1. /\ file.exists
      /\ file' \in {[file EXCEPT !.owner = "relay"], [file EXCEPT !.mode = "shared"]}
      /\ commands' = Outdated(Operators)
      /\ UNCHANGED <<disk, promised, undone>>
  BY DEF Provide
<1>2. IsWhole(file)
  BY <1>1, ExistingWhole DEF IInv, Files
<1>3. IsWhole(file') /\ Held(file') = Held(file) /\ RelayMayRead(file')
  BY <1>1, <1>2, ProvidedWhole
<1>4. Commands'
  <2>1. commands' = [p \in Operators |-> commands'[p]]
    BY <1>1 DEF Outdated
  <2>2. ASSUME NEW p \in Operators
        PROVE  IsCommand(commands'[p]) /\ Fresh(file', commands'[p])
    <3>1. Operators \in SUBSET Operators
      OBVIOUS
    <3> QED
      BY <1>1, <3>1, OutdatedFresh DEF IInv
  <2> QED
    BY <2>1, <2>2 DEF Commands
<1>5. Access'
  BY <1>3 DEF Access, IsWhole
<1>6. Told'
  BY <1>1, <1>3 DEF IInv, Told
<1> QED
  BY <1>1, <1>3, <1>4, <1>5, <1>6 DEF IInv, Files, Sound

\* The file system writes a rename back: the path names what it named.
LEMMA WriteBackStep ==
  ASSUME IInv, WriteBack
  PROVE  IInv'
<1>1. /\ file' = [file EXCEPT !.synced = TRUE] /\ disk' = file'
      /\ UNCHANGED <<commands, promised, undone, provided>>
  BY DEF WriteBack
<1>2. file' = file
  <2>1. CASE IsWhole(file)
    BY <1>1, <2>1, WholeKept
  <2>2. CASE file = NoFile
    <3>1. ASSUME NEW no, NEW yes
          PROVE  [[exists |-> no] EXCEPT !.synced = yes] = [exists |-> no]
      OBVIOUS
    <3> QED
      BY <1>1, <2>2, <3>1, Zenon DEF NoFile
  <2> QED
    BY <2>1, <2>2 DEF IInv, Files, Sound
<1> QED
  BY <1>1, <1>2 DEF IInv, Files, Commands, Access, Told

\* A power cut: an older file at the path counts as undone.
LEMMA PowerCutStep ==
  ASSUME IInv, PowerCut
  PROVE  IInv'
<1>1. PICK left \in {disk, IF file.exists THEN [file EXCEPT !.whole = @ /\ file.synced] ELSE file} :
        file' = left /\ disk' = left /\ undone' = (undone \/ left # file)
  BY DEF PowerCut
<1>2. commands' = [o \in Operators |-> Idle] /\ UNCHANGED <<promised, provided>>
  BY DEF PowerCut
<1>3. left = disk \/ left = file
  <2>1. CASE file.exists
    <3>1. IsWhole(file)
      BY <2>1, ExistingWhole DEF IInv, Files
    <3>2. [file EXCEPT !.whole = @ /\ file.synced] = file
      BY <3>1, WholeKept
    <3> QED
      BY <1>1, <2>1, <3>2
  <2>2. CASE ~file.exists
    BY <1>1, <2>2
  <2> QED
    BY <2>1, <2>2
<1>4. Files'
  BY <1>1, <1>3 DEF IInv, Files
<1>5. Commands'
  BY <1>2 DEF Commands, IsCommand, Fresh
<1>6. ~undone' => ~undone /\ file' = file
  BY <1>1
<1>7. Access' /\ Told'
  BY <1>2, <1>6 DEF IInv, Access, Told
<1>8. undone' \in BOOLEAN
  BY <1>1
<1> QED
  BY <1>4, <1>5, <1>7, <1>8 DEF IInv

\* Every step keeps the invariant.
LEMMA IssuanceStep ==
  ASSUME IInv, [Next]_vars
  PROVE  IInv'
<1>0. Sound(file) /\ Held(file) = Opened
  BY DEF IInv, Files, Held, Opened
<1>1. ASSUME NEW o \in Operators, NEW now \in Readings, NEW days \in Days,
             NEW id \in Codes, NEW tier \in Presets, BeginMint(o, id, now, days, tier)
      PROVE  IInv'
  <2> DEFINE cs == Mint(Opened, id, Terms(tier, now + window(days)))
  <2>1. id \notin DOMAIN Opened /\ Begin(o, "mint", id, cs)
    BY <1>1 DEF BeginMint
  <2>2. now + window(days) \in Int
    BY WindowInt, IssuanceConstants
  <2>3. IsCredentials(cs) /\ id \in DOMAIN cs /\ Continues(file, cs, "mint", id)
    BY <1>0, <2>1, <2>2, MintContinues
  <2> HIDE DEF cs
  <2> QED
    BY <2>1, <2>3, BeginStep
<1>2. ASSUME NEW o \in Operators, NEW now \in Readings, NEW days \in Days,
             NEW typed \in Typings, BeginRenew(o, typed, now, days)
      PROVE  IInv'
  <2> DEFINE id == CredentialFromCode(typed)
             cs == Renew(Opened, id, now, window(days))
  <2>1. id \in DOMAIN Opened /\ window(days) > 0 /\ Begin(o, "renew", id, cs)
    BY <1>2 DEF BeginRenew
  <2>2. window(days) \in Int /\ now \in Nat
    BY WindowInt, IssuanceConstants
  <2> HIDE DEF id
  <2>3. IsCredentials(cs) /\ id \in DOMAIN cs /\ Continues(file, cs, "renew", id)
    BY <1>0, <2>1, <2>2, RenewContinues
  <2> HIDE DEF cs
  <2> QED
    BY <2>1, <2>3, BeginStep
<1>3. ASSUME NEW o \in Operators, NEW typed \in Typings, BeginRevoke(o, typed)
      PROVE  IInv'
  <2> DEFINE id == CredentialFromCode(typed)
             cs == Revoke(Opened, id)
  <2>1. id \in DOMAIN Opened /\ Begin(o, "revoke", Meant[typed], cs)
    BY <1>3 DEF BeginRevoke
  <2>2. IsCredentials(cs) /\ Continues(file, cs, "revoke", id)
    BY <1>0, RevokeContinues
  <2>3. ReadsAsMeant => id = Meant[typed]
    BY <1>0, <2>1, HeldCredentials DEF ReadsAsMeant, IsCredentials
  <2> HIDE DEF id, cs
  <2> QED
    BY <2>1, <2>2, <2>3, BeginStep
<1>4. ASSUME NEW o \in Operators, Abort(o)
      PROVE  IInv'
  <2>1. Goes(o, Idle) /\ UNCHANGED <<file, disk, promised, undone, provided>>
    BY <1>4 DEF Abort
  <2>2. Commands'
    BY <2>1, CommandMoves DEF IInv, IsCommand, Fresh
  <2> QED
    BY <2>1, <2>2 DEF IInv, Files, Access, Told
<1>5. ASSUME UNCHANGED <<file, disk, commands, promised, undone, provided>>
      PROVE  IInv'
  BY <1>5 DEF IInv, Files, Commands, Access, Told
<1>6. CASE Boot \/ Stop \/ Hangup \/ TakeAndRead \/ Apply \/ UNCHANGED vars
  BY <1>5, <1>6 DEF Boot, Stop, Hangup, TakeAndRead, Apply, vars
<1> QED
  BY <1>1, <1>2, <1>3, <1>4, <1>6, WriteTempStep, RenameStep, ReportStep, ProvideStep,
     WriteBackStep, PowerCutStep DEF Next

-----------------------------------------------------------------------------
(***************************************************************************)
(* The theorems.                                                           *)
(***************************************************************************)
\* A path without a file, or one a relay serves, is a sound start.
LEMMA InitSound == Init => IInv
<1> SUFFICES ASSUME Init
             PROVE  IInv
  OBVIOUS
<1> DEFINE First == [exists |-> TRUE, credentials |-> FirstCredentials, whole |-> TRUE,
                     mode |-> "tight", owner |-> "relay", synced |-> TRUE]
<1>1. IsCredentials(FirstCredentials) /\ Marshals(FirstCredentials)
  BY IssuanceConstants DEF IsCredentials, IsTerms, Marshals, validateCredential
<1>2. ASSUME NEW yes, yes = TRUE
      PROVE  IsWhole([exists |-> yes, credentials |-> FirstCredentials, whole |-> yes,
                      mode |-> "tight", owner |-> "relay", synced |-> yes])
  <2> DEFINE r == [exists |-> yes, credentials |-> FirstCredentials, whole |-> yes,
                   mode |-> "tight", owner |-> "relay", synced |-> yes]
  <2>1. /\ r = [exists |-> r.exists, credentials |-> r.credentials, whole |-> r.whole,
                mode |-> r.mode, owner |-> r.owner, synced |-> r.synced]
        /\ r.exists = yes /\ r.credentials = FirstCredentials /\ r.whole = yes
        /\ r.synced = yes
    OBVIOUS
  <2> HIDE DEF r
  <2>2. IsWhole(r)
    BY <1>1, <1>2, <2>1 DEF IsWhole, IsFile
  <2> QED
    BY <2>2 DEF r
<1>3. IsWhole(First)
  BY <1>2, Zenon
<1>4. First.owner = "relay"
  OBVIOUS
<1> HIDE DEF First
<1>5. file = NoFile \/ file = First
  BY DEF Init, First
<1>6. Files
  BY <1>3, <1>5 DEF Init, Files, Sound
<1>7. Commands
  BY DEF Init, Commands, IsCommand, Fresh
<1>8. Access
  <2>1. CASE file = NoFile
    BY <2>1 DEF Init, Access, NoFile
  <2>2. CASE file = First
    BY <1>3, <1>4, <2>2 DEF Access, IsWhole, RelayMayRead
  <2> QED
    BY <1>5, <2>1, <2>2
<1>9. Told
  <2>1. promised = [id \in DOMAIN Held(file) |-> Held(file)[id].notAfter]
    BY DEF Init, Held, Opened
  <2>2. \A id \in DOMAIN Held(file) : Held(file)[id].notAfter \in Int
    BY <1>6, HeldCredentials DEF Files, IsCredentials, IsTerms
  <2> QED
    BY <2>1, <2>2 DEF Told
<1> QED
  BY <1>6, <1>7, <1>8, <1>9 DEF Init, IInv

\* Files are sound, commands that were not overtaken work from the file at
\* the path, in every state of a box.
THEOREM IssuanceInvariance == Spec => []IInv
<1>1. Init => IInv
  BY InitSound
<1>2. IInv /\ [Next]_vars => IInv'
  BY IssuanceStep
<1> QED
  BY <1>1, <1>2, PTL DEF Spec

\* Save of internal/issue leaves no file or a whole, parsing one at the path,
\* whatever fails or overlaps.  That the relay may also read it is claimed only
\* once it was given access, and only until a command overlaps with another or
\* a power cut takes a rename back.  Whether an enforcing relay then accepts a
\* file without credentials is not part of it.
THEOREM FileStaysWhole == Spec => []FileLoads
<1>1. IInv => FileLoads
  <2> SUFFICES ASSUME IInv
               PROVE  FileLoads
    OBVIOUS
  <2>1. file.exists => Parses(file)
    <3> SUFFICES ASSUME file.exists
                 PROVE  Parses(file)
      OBVIOUS
    <3>1. IsWhole(file)
      BY ExistingWhole DEF IInv, Files
    <3> QED
      BY <3>1 DEF IsWhole, Parses, Marshals
  <2> QED
    BY <2>1 DEF IInv, Access, FileLoads
<1> QED
  BY <1>1, IssuanceInvariance, PTL

\* A printed window is kept, given that a typed code normalizes to the code
\* that was meant.
THEOREM PromisesKept ==
  ASSUME ReadsAsMeant
  PROVE  Spec => []PromiseKept
<1>1. IInv => PromiseKept
  BY DEF IInv, Told, PromiseKept, Held, Opened
<1> QED
  BY <1>1, IssuanceInvariance, PTL
=============================================================================
