--------------------------- MODULE AttachmentRelay ---------------------------
(***************************************************************************)
(* The live pass-through for attachment chunks (internal/attachment/       *)
(* relay.go): bounded windows between a sender that pushes and a recipient *)
(* that drains, idle sessions swept away, and a rolling daily byte total   *)
(* per circle.                                                             *)
(*                                                                         *)
(* PushWithGrant and Prune read the clock and then wait for r.mu, so they  *)
(* work with a time `t` up to MaxLag behind; Drain reads it with the lock  *)
(* held.  A day has HoursPerDay hours and an hour TicksPerHour ticks.      *)
(*                                                                         *)
(* An operator named op_fault is op with one plausible mistake; no other   *)
(* definition uses it.                                                     *)
(***************************************************************************)
EXTENDS Slices

CONSTANTS
  Chunks,       \* chunks senders may push
  Credentials,  \* indexes of admitted credentials, never 0
  Callers,      \* credentials that push; 0 is a caller without one
  TermsOf,      \* caller -> its terms; 0 means the box's own cap
  MaxWindow, MaxAttachmentBytes, MaxSessions, IdleTimeout,
  HoursPerDay, TicksPerHour,
  MaxLag,       \* how far a waiting call's clock reading may be behind
  Horizon,      \* bound: the clock stops here
  LastPush,     \* bound: senders push until then
  MaxPushes     \* bound: chunks accepted over a behaviour

NoCredential == 0

\* A chunk's form is "ok" when it passes the checks made before the lock is
\* taken.  A call waits for the lock for less than a day but one hour: a push
\* that came back later than that would charge a bucket already in use again.
ASSUME RelayConstants ==
  /\ \A c \in Chunks : c.index \in Nat /\ c.totalChunks \in Nat /\ c.bytes \in Nat \ {0}
  /\ \A c \in Chunks : c.form = "ok" => c.index < c.totalChunks
  /\ NoCredential \notin Credentials
  /\ Callers \subseteq Credentials \cup {NoCredential}
  /\ TermsOf \in [Callers -> [attachmentBytes : Nat, concurrentTransfers : Nat,
                              transitBytesPerDay : Nat]]
  /\ NoCredential \in Callers =>
       TermsOf[NoCredential] = [attachmentBytes |-> 0, concurrentTransfers |-> 0,
                                transitBytesPerDay |-> 0]
  /\ MaxWindow \in Nat \ {0} /\ MaxAttachmentBytes \in Nat \ {0}
  /\ MaxSessions \in Nat \ {0} /\ IdleTimeout \in Nat \ {0}
  /\ HoursPerDay \in Nat \ {0} /\ TicksPerHour \in Nat \ {0}
  /\ MaxLag \in Nat /\ MaxLag <= (HoursPerDay - 1) * TicksPerHour
  /\ Horizon \in Nat /\ TicksPerHour <= Horizon
  /\ LastPush \in Nat /\ MaxPushes \in Nat

VARIABLES
  sessions,  \* capability -> session
  transit,   \* credential -> hour slot -> [hour, bytes]
  now,
  pushes,    \* chunks accepted so far
  pushed     \* <<credential charged, hour>> -> bytes accepted so far

history == <<pushes, pushed>>
vars == <<sessions, transit, now, history>>

-----------------------------------------------------------------------------
EmptyMap == [x \in {} |-> x]
Put(map, k, v) == [x \in DOMAIN map \cup {k} |-> IF x = k THEN v ELSE map[x]]

lowerOf(box, credential) ==
  IF credential = 0 \/ credential > box THEN box ELSE credential

\* transitWindow: one bucket per hour of the day, reused a day later.
Slots == 0..(HoursPerDay - 1)
hourOf(t) == t \div TicksPerHour
NewWindow == [s \in Slots |-> [hour |-> 0, bytes |-> 0]]

add_keepsOld(window, t, n) ==
  LET slot == hourOf(t) % HoursPerDay
  IN  [window EXCEPT ![slot] = [hour |-> hourOf(t), bytes |-> @.bytes + n]]
add(window, t, n) ==
  LET slot == hourOf(t) % HoursPerDay
      kept == IF window[slot].hour # hourOf(t) THEN 0 ELSE window[slot].bytes
  IN  [window EXCEPT ![slot] = [hour |-> hourOf(t), bytes |-> kept + n]]

total(window, t) ==
  LET oldest == hourOf(t) - (HoursPerDay - 1)
  IN  Sum([i \in 1..HoursPerDay |->
             IF window[i - 1].hour >= oldest THEN window[i - 1].bytes ELSE 0])

\* sweepLocked: sessions whose peers have gone quiet.
sweepLocked_keepsFull(ss, t) ==
  RestrictDomain(ss, LAMBDA k : ss[k].window # <<>> \/ t - ss[k].lastActivity <= IdleTimeout)
sweepLocked(ss, t) == RestrictDomain(ss, LAMBDA k : t - ss[k].lastActivity <= IdleTimeout)

sessionsFor(ss, credential) ==
  Cardinality({k \in DOMAIN ss : ss[k].credential = credential})

NewSession(chunk, credential, t) ==
  [transferID |-> chunk.transferID, recipient |-> chunk.recipient,
   totalChunks |-> chunk.totalChunks, window |-> <<>>, bytes |-> 0, seen |-> {},
   lastActivity |-> t, credential |-> credential, pushedBytes |-> 0,
   drained |-> <<>>]  \* what the session does not record: indexes handed out

-----------------------------------------------------------------------------
(***************************************************************************)
(* PushWithGrant.  A first chunk opens the session even when a later check *)
(* refuses the chunk.                                                      *)
(***************************************************************************)
NoRoom(ss, credential) ==
  LET mine == TermsOf[credential].concurrentTransfers
  IN  \/ Cardinality(DOMAIN ss) >= MaxSessions
      \/ /\ credential # NoCredential
         /\ mine > 0
         /\ sessionsFor(ss, credential) >= lowerOf(MaxSessions, mine)

pushError_unpinned(session, chunk, credential, t) ==
  IF chunk.index \in session.seen THEN "ErrDuplicate"
  ELSE IF Len(session.window) >= MaxWindow THEN "ErrWindowFull"
  ELSE "ok"
pushError_replayed(session, chunk, credential, t) ==
  IF session.totalChunks # chunk.totalChunks THEN "ErrInvalid"
  ELSE IF Len(session.window) >= MaxWindow THEN "ErrWindowFull"
  ELSE IF session.pushedBytes + chunk.bytes > MaxAttachmentBytes THEN "ErrTooLarge"
  ELSE "ok"
pushError_windowBytes(session, chunk, credential, t) ==
  IF chunk.index \in session.seen THEN "ErrDuplicate"
  ELSE IF Len(session.window) > MaxWindow THEN "ErrWindowFull"
  ELSE IF session.bytes + chunk.bytes > MaxAttachmentBytes THEN "ErrTooLarge"
  ELSE "ok"
pushError(session, chunk, credential, t) ==
  LET terms == TermsOf[credential]
      charged == session.credential
  IN  IF \/ session.transferID # chunk.transferID
         \/ session.recipient # chunk.recipient
         \/ session.totalChunks # chunk.totalChunks
      THEN "ErrInvalid"
      ELSE IF chunk.index \in session.seen THEN "ErrDuplicate"
      ELSE IF Len(session.window) >= MaxWindow THEN "ErrWindowFull"
      ELSE IF /\ charged # NoCredential
              /\ terms.transitBytesPerDay > 0
              /\ charged \in DOMAIN transit
              /\ total(transit[charged], t) + chunk.bytes > terms.transitBytesPerDay
      THEN "ErrTransitExhausted"
      ELSE IF session.pushedBytes + chunk.bytes
                > lowerOf(MaxAttachmentBytes, terms.attachmentBytes)
      THEN "ErrTooLarge"
      ELSE "ok"

Buffered(session, chunk, t) ==
  [session EXCEPT !.window = Append(@, [index |-> chunk.index, bytes |-> chunk.bytes]),
                  !.bytes = @ + chunk.bytes,
                  !.pushedBytes = @ + chunk.bytes,
                  !.seen = @ \cup {chunk.index},
                  !.lastActivity = t]

PushedAt(c, h) == IF <<c, h>> \in DOMAIN pushed THEN pushed[<<c, h>>] ELSE 0

Readings == {t \in 1..now : now <= t + MaxLag}

Init == /\ sessions = EmptyMap /\ transit = EmptyMap /\ now = TicksPerHour
        /\ pushes = 0 /\ pushed = EmptyMap

PushWithGrant(chunk, credential, t) ==
  LET swept == sweepLocked(sessions, t)
      known == chunk.capability \in DOMAIN swept
      session == IF known THEN swept[chunk.capability] ELSE NewSession(chunk, credential, t)
      error == pushError(session, chunk, credential, t)
      charged == session.credential
      window == IF charged \in DOMAIN transit THEN transit[charged] ELSE NewWindow
  IN  /\ now <= LastPush
      /\ chunk.form = "ok"
      /\ \/ /\ ~known /\ NoRoom(swept, credential)
            /\ sessions' = swept
            /\ UNCHANGED <<transit, history>>
         \/ /\ known \/ ~NoRoom(swept, credential)
            /\ error # "ok"
            /\ sessions' = Put(swept, chunk.capability, session)
            /\ UNCHANGED <<transit, history>>
         \/ /\ known \/ ~NoRoom(swept, credential)
            /\ error = "ok"
            /\ pushes < MaxPushes
            /\ sessions' = Put(swept, chunk.capability, Buffered(session, chunk, t))
            /\ transit' = IF charged = NoCredential THEN transit
                          ELSE Put(transit, charged, add(window, t, chunk.bytes))
            /\ pushes' = pushes + 1
            /\ pushed' = Put(pushed, <<charged, hourOf(t)>>,
                             PushedAt(charged, hourOf(t)) + chunk.bytes)
      /\ UNCHANGED now

\* A chunk with a bad field, or of a transfer cut into too many, changes nothing.
PushRefused(chunk) == chunk.form # "ok" /\ UNCHANGED vars

\* The indexes in a session's window.
Waiting(session) == [i \in DOMAIN session.window |-> session.window[i].index]

\* Everything buffered for the recipient goes, and its ids stay remembered.
Drained(session, t) ==
  [session EXCEPT !.window = <<>>, !.bytes = 0, !.lastActivity = t,
                  !.drained = @ \o Waiting(session)]

Drain(swept, recipient, capability) ==
  IF /\ capability \in DOMAIN swept
     /\ swept[capability].recipient = recipient
     /\ swept[capability].window # <<>>
  THEN [swept EXCEPT ![capability] = Drained(@, now)]
  ELSE swept

\* GET /attachments/chunks: one look of the long poll, which looks again and
\* again until there is something, its deadline passes or the caller is gone.
Poll(recipient, capability) ==
  /\ sessions' = Drain(sweepLocked(sessions, now), recipient, capability)
  /\ UNCHANGED <<transit, now, history>>

Complete(transferID, capability) ==
  /\ capability \in DOMAIN sessions
  /\ sessions[capability].transferID = transferID
  /\ sessions' = Restrict(sessions, DOMAIN sessions \ {capability})
  /\ UNCHANGED <<transit, now, history>>

\* The cleanup ticker and GET /health: idle sessions and spent windows go.
Prune(t) ==
  /\ sessions' = sweepLocked(sessions, t)
  /\ transit' = RestrictDomain(transit, LAMBDA c : total(transit[c], t) # 0)
  /\ UNCHANGED <<now, history>>

Tick == now < Horizon /\ now' = now + 1 /\ UNCHANGED <<sessions, transit, history>>

Next ==
  \/ \E t \in Readings :
       \/ \E chunk \in Chunks, c \in Callers : PushWithGrant(chunk, c, t)
       \/ Prune(t)
  \/ \E chunk \in Chunks :
       \/ PushRefused(chunk)
       \/ Poll(chunk.recipient, chunk.capability)
       \/ Complete(chunk.transferID, chunk.capability)
  \/ Tick

Spec == Init /\ [][Next]_vars

\* Time passes, and the cleanup ticker runs at every CleanupInterval.
FairSpec == Spec /\ WF_vars(Tick) /\ WF_vars(Prune(now))

-----------------------------------------------------------------------------
(***************************************************************************)
(* Properties.                                                             *)
(***************************************************************************)
\* Sessions and windows hold what their fields are declared for.
TypeOK ==
  /\ DOMAIN sessions \subseteq {c.capability : c \in Chunks}
  /\ \A k \in DOMAIN sessions :
       /\ sessions[k].credential \in Callers
       /\ sessions[k].seen \subseteq 0..(sessions[k].totalChunks - 1)
       /\ sessions[k].lastActivity \in 1..now
  /\ DOMAIN transit \subseteq Credentials
  /\ now \in 1..Horizon

\* The bytes in a session's window.
WaitingBytes(session) ==
  Sum([i \in DOMAIN session.window |-> session.window[i].bytes])

(***************************************************************************)
(* In the life of a session no chunk is delivered twice and none is lost   *)
(* on the relay: an index that was accepted was drained once or waits in   *)
(* the window once, however pushes, replays and drains interleave.         *)
(***************************************************************************)
DeliveredOnce ==
  \A k \in DOMAIN sessions :
    LET all == sessions[k].drained \o Waiting(sessions[k])
    IN  IsInjective(all) /\ ToSet(all) = sessions[k].seen

(***************************************************************************)
(* The relay's footprint stays inside what its memory ceiling is computed  *)
(* from: windows, sessions, a circle's live transfers, whole attachments;  *)
(* the byte counter monitoring reads is what is really buffered, and no    *)
(* session accepts a chunk outside the transfer it was opened for.         *)
(***************************************************************************)
FootprintBounded ==
  /\ TypeOK
  /\ Cardinality(DOMAIN sessions) <= MaxSessions
  /\ \A k \in DOMAIN sessions :
       /\ Len(sessions[k].window) <= MaxWindow
       /\ sessions[k].bytes = WaitingBytes(sessions[k])
       /\ sessions[k].pushedBytes <= MaxAttachmentBytes
  /\ \A c \in Callers \ {NoCredential} :
       TermsOf[c].concurrentTransfers > 0 =>
         sessionsFor(sessions, c) <= lowerOf(MaxSessions, TermsOf[c].concurrentTransfers)

\* The last of the hours up to now that use a slot; together, the last HoursPerDay.
LatestHour(slot) == hourOf(now) - ((hourOf(now) - slot) % HoursPerDay)

PushedToday(c) == Sum([i \in 1..HoursPerDay |-> PushedAt(c, LatestHour(i - 1))])

TransitToday(c) == IF c \in DOMAIN transit THEN total(transit[c], now) ELSE 0

(***************************************************************************)
(* The hourly buckets add up to exactly what the circle pushed in the last *)
(* HoursPerDay hours, as buckets are reused, pruned and charged with late  *)
(* clock readings.                                                         *)
(***************************************************************************)
TransitExact == \A c \in Credentials : TransitToday(c) = PushedToday(c)

(***************************************************************************)
(* A slot always comes back: a session whose peers went quiet, or whose    *)
(* first chunk was refused, does not stay.                                 *)
(***************************************************************************)
SlotsComeBack ==
  \A k \in {c.capability : c \in Chunks} :
    k \in DOMAIN sessions ~> k \notin DOMAIN sessions

(***************************************************************************)
(* What relay.go says of the daily ceiling: it is pinned to the circle     *)
(* that opened the transfer, so that no second credential tops it up.      *)
(***************************************************************************)
TransitCeiling ==
  \A c \in Credentials \cap Callers :
    TermsOf[c].transitBytesPerDay > 0 => TransitToday(c) <= TermsOf[c].transitBytesPerDay
=============================================================================
