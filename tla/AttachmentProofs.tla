-------------------------- MODULE AttachmentProofs --------------------------
(***************************************************************************)
(* Proofs about AttachmentRelay, for every set of chunks and of circles,   *)
(* all terms and caps, and days of any length.                             *)
(***************************************************************************)
EXTENDS AttachmentRelay, SliceProofs

-----------------------------------------------------------------------------
(***************************************************************************)
(* Hours and slots.                                                        *)
(***************************************************************************)
\* hourOf rounds down.
LEMMA HourBounds ==
  ASSUME NEW t \in Nat
  PROVE  /\ hourOf(t) \in Nat
         /\ hourOf(t) * TicksPerHour <= t
         /\ t < hourOf(t) * TicksPerHour + TicksPerHour
<1>1. TicksPerHour \in Nat /\ TicksPerHour > 0
  BY RelayConstants
<1> QED
  BY <1>1 DEF hourOf

\* An hour has TicksPerHour ticks: a product grows with its factor.
LEMMA HoursGrow ==
  ASSUME NEW a \in Int, NEW b \in Int, a < b
  PROVE  a * TicksPerHour + TicksPerHour <= b * TicksPerHour
<1>1. TicksPerHour \in Nat /\ TicksPerHour > 0
  BY RelayConstants
<1>2. b - a - 1 \in Nat
  OBVIOUS
<1>3. (b - a - 1) * TicksPerHour >= 0
  BY <1>1, <1>2
<1>4. (b - a - 1) * TicksPerHour = b * TicksPerHour - a * TicksPerHour - TicksPerHour
  BY <1>1
<1>5. a * TicksPerHour \in Int /\ b * TicksPerHour \in Int
  BY <1>1
<1> QED
  BY <1>1, <1>3, <1>4, <1>5

\* A clock reading is of an hour that the last day ends with.
LEMMA ReadingHours ==
  ASSUME NEW t \in Nat, NEW n \in Nat, t <= n, n <= t + MaxLag
  PROVE  hourOf(t) <= hourOf(n) /\ hourOf(n) - HoursPerDay < hourOf(t)
<1> DEFINE a == hourOf(t)
           b == hourOf(n)
<1>1. /\ TicksPerHour \in Nat /\ TicksPerHour > 0 /\ HoursPerDay \in Nat /\ MaxLag \in Nat
      /\ MaxLag <= (HoursPerDay - 1) * TicksPerHour
  BY RelayConstants
<1>2. /\ a \in Nat /\ a * TicksPerHour <= t /\ t < a * TicksPerHour + TicksPerHour
      /\ b \in Nat /\ b * TicksPerHour <= n /\ n < b * TicksPerHour + TicksPerHour
  BY HourBounds
<1> HIDE DEF a, b
<1>3. ~(b < a)
  <2>1. b < a => b * TicksPerHour + TicksPerHour <= a * TicksPerHour
    BY <1>2, HoursGrow
  <2>2. b * TicksPerHour \in Int /\ a * TicksPerHour \in Int
    BY <1>1, <1>2
  <2> QED
    BY <1>1, <1>2, <2>1, <2>2
<1>4. ~(a + (HoursPerDay - 1) < b)
  <2>1. a + (HoursPerDay - 1) < b =>
          (a + (HoursPerDay - 1)) * TicksPerHour + TicksPerHour <= b * TicksPerHour
    BY <1>1, <1>2, HoursGrow
  <2>2. (a + (HoursPerDay - 1)) * TicksPerHour
          = a * TicksPerHour + (HoursPerDay - 1) * TicksPerHour
    BY <1>1, <1>2
  <2>3. /\ a * TicksPerHour \in Int /\ b * TicksPerHour \in Int
        /\ (HoursPerDay - 1) * TicksPerHour \in Int
    BY <1>1, <1>2
  <2> QED
    BY <1>1, <1>2, <2>1, <2>2, <2>3
<1> QED
  BY <1>1, <1>2, <1>3, <1>4 DEF a, b

\* The slot an hour uses, and whole days.
SlotNo(h) == h % HoursPerDay
Days(q) == q * HoursPerDay

\* A day is a number of hours: its multiples are that far apart.
LEMMA DaysApart ==
  ASSUME NEW p \in Int, NEW q \in Int
  PROVE  /\ Days(p) \in Int /\ Days(q) \in Int
         /\ p < q => Days(q) - Days(p) >= HoursPerDay
<1>1. HoursPerDay \in Nat /\ HoursPerDay > 0
  BY RelayConstants
<1>2. Days(p) \in Int /\ Days(q) \in Int
  BY <1>1 DEF Days
<1>3. ASSUME p < q
      PROVE  Days(q) - Days(p) >= HoursPerDay
  <2>1. (q - p - 1) * HoursPerDay >= 0
    BY <1>1, <1>3
  <2>2. (q - p - 1) * HoursPerDay = Days(q) - Days(p) - HoursPerDay
    BY <1>1 DEF Days
  <2> QED
    BY <1>1, <1>2, <2>1, <2>2
<1> QED
  BY <1>2, <1>3

\* An hour is some whole days and its slot.
LEMMA SlotOf ==
  ASSUME NEW h \in Int
  PROVE  SlotNo(h) \in Slots /\ \E q \in Int : h = Days(q) + SlotNo(h)
<1> DEFINE d == h \div HoursPerDay
<1>1. HoursPerDay \in Nat /\ HoursPerDay > 0
  BY RelayConstants
<1>2. SlotNo(h) \in 0..(HoursPerDay - 1) /\ d \in Int
  BY <1>1 DEF SlotNo
<1>3. h - HoursPerDay * d = SlotNo(h)
  BY <1>1 DEF SlotNo
<1> HIDE DEF d
<1>4. HoursPerDay * d = Days(d) /\ Days(d) \in Int
  BY <1>1, <1>2 DEF Days
<1>5. h = Days(d) + SlotNo(h)
  BY <1>2, <1>3, <1>4
<1> QED
  BY <1>2, <1>5 DEF Slots

\* Days and a slot determine each other.
LEMMA SlotUnique ==
  ASSUME NEW p \in Int, NEW q \in Int, NEW r \in Slots, NEW s \in Slots,
         Days(p) + r = Days(q) + s
  PROVE  r = s
<1>1. HoursPerDay \in Nat /\ HoursPerDay > 0
  BY RelayConstants
<1>2. r \in Int /\ 0 <= r /\ r < HoursPerDay /\ s \in Int /\ 0 <= s /\ s < HoursPerDay
  BY <1>1 DEF Slots
<1>3. Days(p) \in Int /\ Days(q) \in Int
  BY DaysApart
<1>4. ~(p < q)
  BY <1>1, <1>2, <1>3, DaysApart
<1>5. ~(q < p)
  BY <1>1, <1>2, <1>3, DaysApart
<1>6. p = q
  BY <1>4, <1>5
<1> QED
  BY <1>2, <1>3, <1>6

\* Two hours less than a day apart share a slot only if they are the same.
LEMMA SlotTwice ==
  ASSUME NEW a \in Int, NEW b \in Int, SlotNo(a) = SlotNo(b),
         a - b < HoursPerDay, b - a < HoursPerDay
  PROVE  a = b
<1>1. HoursPerDay \in Nat /\ HoursPerDay > 0
  BY RelayConstants
<1>2. PICK p \in Int : a = Days(p) + SlotNo(a)
  BY SlotOf
<1>3. PICK q \in Int : b = Days(q) + SlotNo(b)
  BY SlotOf
<1>4. SlotNo(a) \in Int /\ Days(p) \in Int /\ Days(q) \in Int
  <2>1. SlotNo(a) \in Slots
    BY SlotOf
  <2> QED
    BY <1>1, <2>1, DaysApart DEF Slots
<1>5. ~(p < q) /\ ~(q < p)
  <2>1. p < q => Days(q) - Days(p) >= HoursPerDay
    BY DaysApart
  <2>2. q < p => Days(p) - Days(q) >= HoursPerDay
    BY DaysApart
  <2> QED
    BY <1>1, <1>2, <1>3, <1>4, <2>1, <2>2
<1>6. p = q
  BY <1>5
<1> QED
  BY <1>2, <1>3, <1>6

\* The last of the hours up to h that use slot s.
LEMMA LatestInSlot ==
  ASSUME NEW s \in Slots, NEW h \in Int
  PROVE  LET l == h - ((h - s) % HoursPerDay)
         IN  l \in Int /\ h - HoursPerDay < l /\ l <= h /\ SlotNo(l) = s
<1> DEFINE r == SlotNo(h - s)
           l == h - r
<1>1. HoursPerDay \in Nat /\ HoursPerDay > 0 /\ s \in Int
  BY RelayConstants DEF Slots
<1>2. PICK q \in Int : h - s = Days(q) + r
  BY <1>1, SlotOf
<1>3. r \in Int /\ 0 <= r /\ r < HoursPerDay
  <2>1. r \in Slots
    BY <1>1, SlotOf
  <2> QED
    BY <1>1, <2>1 DEF Slots
<1>4. l = Days(q) + s /\ l \in Int
  <2>1. Days(q) \in Int
    BY DaysApart
  <2> QED
    BY <1>1, <1>2, <1>3, <2>1
<1> DEFINE m == l
<1>5. PICK p \in Int : m = Days(p) + SlotNo(m)
  BY <1>4, SlotOf
<1>6. SlotNo(m) \in Slots
  BY <1>4, SlotOf
<1> HIDE DEF m
<1>7. SlotNo(m) = s
  <2>1. m = Days(q) + s
    BY <1>4 DEF m
  <2> QED
    BY <1>5, <1>6, <2>1, SlotUnique
<1>8. h - ((h - s) % HoursPerDay) = l
  BY DEF SlotNo
<1> QED
  BY <1>1, <1>3, <1>4, <1>7, <1>8 DEF m

-----------------------------------------------------------------------------
(***************************************************************************)
(* One session: what it holds, and that pushing to it and draining it keep *)
(* it so.  `t` is the time.                                                *)
(***************************************************************************)
Item == [index : Nat, bytes : Nat]
Session ==
  [transferID : {c.transferID : c \in Chunks}, recipient : {c.recipient : c \in Chunks},
   totalChunks : Nat, window : Seq(Item), bytes : Nat, seen : SUBSET Nat,
   lastActivity : Nat, credential : Callers, pushedBytes : Nat, drained : Seq(Nat)]

\* The indexes accepted, in the order in which the recipient gets them.
Accepted(s) == s.drained \o Waiting(s)
OnceEach(s) == IsInjective(Accepted(s)) /\ ToSet(Accepted(s)) = s.seen

SessionOK(s, t) ==
  /\ s \in Session
  /\ s.seen \subseteq 0..(s.totalChunks - 1)
  /\ s.lastActivity \in 1..t
  /\ OnceEach(s)
  /\ Len(s.window) <= MaxWindow
  /\ s.bytes = WaitingBytes(s)
  /\ s.pushedBytes <= MaxAttachmentBytes

\* What a window holds, as sequences.
LEMMA WaitingType ==
  ASSUME NEW s \in Session
  PROVE  /\ Waiting(s) \in Seq(Nat) /\ Len(Waiting(s)) = Len(s.window)
         /\ [i \in DOMAIN s.window |-> s.window[i].bytes] \in Seq(Nat)
         /\ Len([i \in DOMAIN s.window |-> s.window[i].bytes]) = Len(s.window)
         /\ Accepted(s) \in Seq(Nat)
<1> DEFINE w == s.window
<1>1. w \in Seq(Item) /\ s.drained \in Seq(Nat)
  BY DEF Session
<1>2. Len(w) \in Nat /\ DOMAIN w = 1..Len(w) /\ \A i \in 1..Len(w) : w[i] \in Item
  BY <1>1, LenProperties, ElementOfSeq
<1>3. \A i \in 1..Len(w) : w[i].index \in Nat /\ w[i].bytes \in Nat
  BY <1>2 DEF Item
<1>4. /\ [i \in 1..Len(w) |-> w[i].index] \in Seq(Nat)
      /\ [i \in 1..Len(w) |-> w[i].bytes] \in Seq(Nat)
  BY <1>2, <1>3, IsASeq
<1>5. /\ Len([i \in 1..Len(w) |-> w[i].index]) = Len(w)
      /\ Len([i \in 1..Len(w) |-> w[i].bytes]) = Len(w)
  <2>1. ASSUME NEW q \in Seq(Nat), DOMAIN q = 1..Len(w)
        PROVE  Len(q) = Len(w)
    BY <1>2, <2>1, LenProperties
  <2>2. /\ DOMAIN [i \in 1..Len(w) |-> w[i].index] = 1..Len(w)
        /\ DOMAIN [i \in 1..Len(w) |-> w[i].bytes] = 1..Len(w)
    OBVIOUS
  <2> QED
    BY <1>4, <2>1, <2>2
<1>6. Waiting(s) \in Seq(Nat) /\ Len(Waiting(s)) = Len(w)
  BY <1>2, <1>4, <1>5 DEF Waiting
<1>7. Accepted(s) \in Seq(Nat)
  BY <1>1, <1>6, ConcatProperties DEF Accepted
<1> QED
  BY <1>2, <1>4, <1>5, <1>6, <1>7

\* The same for one item more.
LEMMA WaitingAppend ==
  ASSUME NEW s \in Session, NEW e \in Item
  PROVE  LET w == Append(s.window, e)
         IN  /\ w \in Seq(Item) /\ Len(w) = Len(s.window) + 1
             /\ [i \in DOMAIN w |-> w[i].index] = Append(Waiting(s), e.index)
             /\ [i \in DOMAIN w |-> w[i].bytes]
                  = Append([i \in DOMAIN s.window |-> s.window[i].bytes], e.bytes)
<1> DEFINE w == Append(s.window, e)
           old == [i \in DOMAIN s.window |-> s.window[i].bytes]
<1>1. s.window \in Seq(Item)
  BY DEF Session
<1>2. Len(s.window) \in Nat /\ DOMAIN s.window = 1..Len(s.window)
  BY <1>1, LenProperties
<1>3. /\ w \in Seq(Item) /\ Len(w) = Len(s.window) + 1
      /\ \A i \in 1..Len(s.window) : w[i] = s.window[i]
      /\ w[Len(s.window) + 1] = e
  BY <1>1, AppendProperties
<1>4. DOMAIN w = 1..(Len(s.window) + 1)
  BY <1>3, LenProperties
<1> HIDE DEF w
<1>5. ASSUME NEW p \in Seq(Nat), NEW x \in Nat, Len(p) = Len(s.window)
      PROVE  /\ DOMAIN Append(p, x) = DOMAIN w
             /\ \A i \in 1..Len(s.window) : Append(p, x)[i] = p[i]
             /\ Append(p, x)[Len(s.window) + 1] = x
             /\ Append(p, x) = [i \in DOMAIN w |-> Append(p, x)[i]]
  <2>1. /\ Append(p, x) \in Seq(Nat) /\ Len(Append(p, x)) = Len(p) + 1
        /\ \A i \in 1..Len(p) : Append(p, x)[i] = p[i]
        /\ Append(p, x)[Len(p) + 1] = x
    BY AppendProperties
  <2>2. DOMAIN Append(p, x) = 1..(Len(p) + 1)
    BY <2>1, LenProperties
  <2>3. Append(p, x) = [i \in DOMAIN Append(p, x) |-> Append(p, x)[i]]
    <3>1. Append(p, x) \in [1..Len(Append(p, x)) -> Nat]
      BY <2>1, LenProperties
    <3> QED
      BY <3>1
  <2> QED
    BY <1>4, <1>5, <2>1, <2>2, <2>3
<1>6. \A i \in 1..(Len(s.window) + 1) : i \in 1..Len(s.window) \/ i = Len(s.window) + 1
  BY <1>2
<1>7. [i \in DOMAIN w |-> w[i].index] = Append(Waiting(s), e.index)
  <2>1. Waiting(s) \in Seq(Nat) /\ Len(Waiting(s)) = Len(s.window) /\ e.index \in Nat
    BY WaitingType DEF Item
  <2>2. \A i \in 1..Len(s.window) : Waiting(s)[i] = s.window[i].index
    BY <1>2 DEF Waiting
  <2>3. \A i \in DOMAIN w : w[i].index = Append(Waiting(s), e.index)[i]
    BY <1>3, <1>4, <1>5, <1>6, <2>1, <2>2
  <2> QED
    BY <1>5, <2>1, <2>3
<1>8. [i \in DOMAIN w |-> w[i].bytes] = Append(old, e.bytes)
  <2>1. old \in Seq(Nat) /\ Len(old) = Len(s.window) /\ e.bytes \in Nat
    BY WaitingType DEF Item
  <2>2. \A i \in 1..Len(s.window) : old[i] = s.window[i].bytes
    BY <1>2
  <2> HIDE DEF old
  <2>3. \A i \in DOMAIN w : w[i].bytes = Append(old, e.bytes)[i]
    BY <1>3, <1>4, <1>5, <1>6, <2>1, <2>2
  <2> QED
    BY <1>5, <2>1, <2>3
<1> QED
  BY <1>3, <1>7, <1>8 DEF w

\* A first chunk opens a session that holds nothing.
LEMMA NewSessionOK ==
  ASSUME NEW chunk \in Chunks, NEW c \in Callers, NEW n \in Nat, NEW t \in 1..n
  PROVE  /\ SessionOK(NewSession(chunk, c, t), n)
         /\ NewSession(chunk, c, t).credential = c
<1> DEFINE s == NewSession(chunk, c, t)
<1>1. /\ s.window = <<>> /\ s.drained = <<>> /\ s.bytes = 0 /\ s.seen = {}
      /\ s.lastActivity = t /\ s.credential = c /\ s.pushedBytes = 0
  BY DEF NewSession
<1>2. <<>> \in Seq(Item) /\ <<>> \in Seq(Nat)
  BY EmptySeq
<1>3. s \in Session
  BY <1>2, RelayConstants DEF NewSession, Session
<1> HIDE DEF s
<1>4. Len(s.window) = 0 /\ DOMAIN s.window = {}
  BY <1>1, EmptySeq
<1>5. Len(Waiting(s)) = 0 /\ Waiting(s) = <<>>
  BY <1>3, <1>4, WaitingType, EmptySeq
<1>6. WaitingBytes(s) = 0
  BY <1>3, <1>4, WaitingType, SumEmpty DEF WaitingBytes
<1>7. Accepted(s) = <<>>
  BY <1>1, <1>2, <1>5, ConcatEmptySeq DEF Accepted
<1>8. OnceEach(s)
  BY <1>1, <1>7 DEF OnceEach, IsInjective, ToSet
<1>9. 0 <= MaxWindow /\ 0 <= MaxAttachmentBytes
  BY RelayConstants
<1> QED
  BY <1>1, <1>3, <1>4, <1>6, <1>8, <1>9 DEF SessionOK, s

\* An accepted chunk is one index more, at the end, and its bytes more.
LEMMA BufferedOK ==
  ASSUME NEW n \in Nat, NEW s, SessionOK(s, n), NEW chunk \in Chunks, NEW t \in 1..n,
         chunk.form = "ok", s.totalChunks = chunk.totalChunks, chunk.index \notin s.seen,
         Len(s.window) < MaxWindow, s.pushedBytes + chunk.bytes <= MaxAttachmentBytes
  PROVE  /\ SessionOK(Buffered(s, chunk, t), n)
         /\ Buffered(s, chunk, t).credential = s.credential
<1> DEFINE e == [index |-> chunk.index, bytes |-> chunk.bytes]
           w == Append(s.window, e)
           b == Buffered(s, chunk, t)
<1>0. /\ s \in Session /\ s.window \in Seq(Item) /\ s.bytes \in Nat /\ s.seen \subseteq Nat
      /\ s.pushedBytes \in Nat /\ s.drained \in Seq(Nat) /\ s.totalChunks \in Nat
  BY DEF SessionOK, Session
<1>1. chunk.index \in Nat /\ chunk.bytes \in Nat /\ chunk.index < chunk.totalChunks
  BY RelayConstants
<1>2. e \in Item /\ e.index = chunk.index /\ e.bytes = chunk.bytes
  BY <1>1 DEF Item
<1> HIDE DEF e
<1>3. /\ w \in Seq(Item) /\ Len(w) = Len(s.window) + 1
      /\ [i \in DOMAIN w |-> w[i].index] = Append(Waiting(s), e.index)
      /\ [i \in DOMAIN w |-> w[i].bytes]
           = Append([i \in DOMAIN s.window |-> s.window[i].bytes], e.bytes)
  BY <1>0, <1>2, WaitingAppend
<1> HIDE DEF w
<1>4. b = [s EXCEPT !.window = w, !.bytes = s.bytes + chunk.bytes,
                    !.pushedBytes = s.pushedBytes + chunk.bytes,
                    !.seen = s.seen \cup {chunk.index}, !.lastActivity = t]
  BY <1>0 DEF Buffered, w, e, Session
<1> HIDE DEF b
<1>5. /\ b.window = w /\ b.bytes = s.bytes + chunk.bytes
      /\ b.pushedBytes = s.pushedBytes + chunk.bytes
      /\ b.seen = s.seen \cup {chunk.index} /\ b.lastActivity = t
      /\ b.drained = s.drained /\ b.totalChunks = s.totalChunks
      /\ b.credential = s.credential
  BY <1>0, <1>4 DEF Session
<1>6. b \in Session
  <2>1. /\ s.bytes + chunk.bytes \in Nat /\ s.pushedBytes + chunk.bytes \in Nat
        /\ s.seen \cup {chunk.index} \in SUBSET Nat /\ t \in Nat
    BY <1>0, <1>1
  <2> QED
    BY <1>0, <1>3, <1>4, <2>1 DEF Session
<1>7. Accepted(b) = Append(Accepted(s), chunk.index)
  <2>1. Waiting(b) = Append(Waiting(s), chunk.index)
    BY <1>2, <1>3, <1>5 DEF Waiting
  <2>2. Waiting(s) \in Seq(Nat)
    BY <1>0, WaitingType
  <2>3. s.drained \o Append(Waiting(s), chunk.index)
          = Append(s.drained \o Waiting(s), chunk.index)
    <3>1. <<chunk.index>> \in Seq(Nat) /\ s.drained \o Waiting(s) \in Seq(Nat)
      BY <1>0, <1>1, <2>2, ConcatProperties
    <3>2. /\ Append(Waiting(s), chunk.index) = Waiting(s) \o <<chunk.index>>
          /\ Append(s.drained \o Waiting(s), chunk.index)
               = (s.drained \o Waiting(s)) \o <<chunk.index>>
      BY <1>1, <2>2, <3>1, AppendIsConcat
    <3>3. (s.drained \o Waiting(s)) \o <<chunk.index>>
            = s.drained \o (Waiting(s) \o <<chunk.index>>)
      <4>1. \A x, y, z \in Seq(Nat) : (x \o y) \o z = x \o (y \o z)
        BY ConcatAssociative, SMTT(30)
      <4> QED
        BY <1>0, <2>2, <3>1, <4>1, Zenon
    <3> QED
      BY <3>2, <3>3
  <2> QED
    BY <1>5, <2>1, <2>3 DEF Accepted
<1>8. OnceEach(b)
  <2>1. Accepted(s) \in Seq(Nat) /\ IsInjective(Accepted(s)) /\ ToSet(Accepted(s)) = s.seen
    BY <1>0, WaitingType DEF SessionOK, OnceEach
  <2>2. /\ IsInjective(Append(Accepted(s), chunk.index))
        /\ ToSet(Append(Accepted(s), chunk.index)) = ToSet(Accepted(s)) \cup {chunk.index}
    BY <1>1, <2>1, AppendElements
  <2> QED
    BY <1>5, <1>7, <2>1, <2>2 DEF OnceEach
<1>9. b.bytes = WaitingBytes(b)
  <2> DEFINE old == [i \in DOMAIN s.window |-> s.window[i].bytes]
  <2>1. old \in Seq(Nat)
    BY <1>0, WaitingType
  <2>2. s.bytes = Sum(old)
    BY DEF SessionOK, WaitingBytes
  <2>3. WaitingBytes(b) = Sum(Append(old, chunk.bytes))
    BY <1>2, <1>3, <1>5 DEF WaitingBytes
  <2> HIDE DEF old
  <2> QED
    BY <1>1, <1>5, <2>1, <2>2, <2>3, SumAppend
<1>10. b.seen \subseteq 0..(b.totalChunks - 1)
  <2>1. s.seen \subseteq 0..(s.totalChunks - 1)
    BY DEF SessionOK
  <2>2. chunk.index \in 0..(s.totalChunks - 1)
    BY <1>0, <1>1
  <2> QED
    BY <1>5, <2>1, <2>2
<1>11. Len(b.window) <= MaxWindow /\ b.pushedBytes <= MaxAttachmentBytes
  <2>1. Len(s.window) \in Nat /\ MaxWindow \in Nat
    BY <1>0, LenProperties, RelayConstants
  <2> QED
    BY <1>3, <1>5, <2>1
<1> QED
  BY <1>5, <1>6, <1>8, <1>9, <1>10, <1>11 DEF SessionOK, b

\* A drain moves the window to what was handed out.
LEMMA DrainedOK ==
  ASSUME NEW n \in Nat \ {0}, NEW s, SessionOK(s, n)
  PROVE  /\ SessionOK(Drained(s, n), n)
         /\ Drained(s, n).credential = s.credential
<1> DEFINE d == Drained(s, n)
<1>0. s \in Session /\ s.drained \in Seq(Nat)
  BY DEF SessionOK, Session
<1>1. Accepted(s) \in Seq(Nat) /\ Waiting(s) \in Seq(Nat)
  BY <1>0, WaitingType
<1>2. <<>> \in Seq(Item) /\ <<>> \in Seq(Nat)
  BY EmptySeq
<1>3. d = [s EXCEPT !.window = <<>>, !.bytes = 0, !.lastActivity = n,
                    !.drained = Accepted(s)]
  BY <1>0 DEF Drained, Accepted, Session
<1> HIDE DEF d
<1>4. /\ d.window = <<>> /\ d.bytes = 0 /\ d.lastActivity = n /\ d.drained = Accepted(s)
      /\ d.seen = s.seen /\ d.totalChunks = s.totalChunks /\ d.credential = s.credential
      /\ d.pushedBytes = s.pushedBytes
  BY <1>0, <1>3 DEF Session
<1>5. d \in Session
  BY <1>0, <1>1, <1>2, <1>3 DEF Session
<1>6. Len(d.window) = 0 /\ DOMAIN d.window = {}
  BY <1>4, EmptySeq
<1>7. Waiting(d) = <<>>
  BY <1>5, <1>6, WaitingType, EmptySeq
<1>8. Accepted(d) = Accepted(s)
  BY <1>1, <1>4, <1>7, ConcatEmptySeq DEF Accepted
<1>9. WaitingBytes(d) = 0
  BY <1>5, <1>6, WaitingType, SumEmpty DEF WaitingBytes
<1>10. 0 <= MaxWindow
  BY RelayConstants
<1> QED
  BY <1>4, <1>5, <1>6, <1>8, <1>9, <1>10 DEF SessionOK, OnceEach, d

-----------------------------------------------------------------------------
(***************************************************************************)
(* The sessions of the relay.                                              *)
(***************************************************************************)
Capabilities == {c.capability : c \in Chunks}
CircleCap(c) == lowerOf(MaxSessions, TermsOf[c].concurrentTransfers)

SessionsOK(ss, n) ==
  /\ DOMAIN ss \subseteq Capabilities
  /\ IsFiniteSet(DOMAIN ss) /\ Cardinality(DOMAIN ss) <= MaxSessions
  /\ \A k \in DOMAIN ss : SessionOK(ss[k], n)
  /\ \A c \in Callers \ {NoCredential} :
       TermsOf[c].concurrentTransfers > 0 => sessionsFor(ss, c) <= CircleCap(c)

LEMMA CapType ==
  ASSUME NEW box \in Nat, NEW c \in Nat
  PROVE  lowerOf(box, c) \in Nat /\ lowerOf(box, c) <= box
BY DEF lowerOf

\* Sessions that go, or change and stay with their circle, leave room.
LEMMA SessionsShrink ==
  ASSUME NEW n \in Nat, NEW ss, SessionsOK(ss, n), NEW r, DOMAIN r \subseteq DOMAIN ss,
         \A k \in DOMAIN r : SessionOK(r[k], n) /\ r[k].credential = ss[k].credential
  PROVE  SessionsOK(r, n)
<1>1. /\ DOMAIN ss \subseteq Capabilities /\ IsFiniteSet(DOMAIN ss)
      /\ Cardinality(DOMAIN ss) <= MaxSessions
  BY DEF SessionsOK
<1>2. /\ IsFiniteSet(DOMAIN r) /\ Cardinality(DOMAIN r) <= Cardinality(DOMAIN ss)
  BY <1>1, FS_Subset
<1>3. Cardinality(DOMAIN r) \in Nat /\ Cardinality(DOMAIN ss) \in Nat /\ MaxSessions \in Nat
  BY <1>1, <1>2, FS_CardinalityType, RelayConstants
<1>4. ASSUME NEW c \in Callers \ {NoCredential}, TermsOf[c].concurrentTransfers > 0
      PROVE  sessionsFor(r, c) <= CircleCap(c)
  <2> DEFINE A == {k \in DOMAIN r : r[k].credential = c}
             B == {k \in DOMAIN ss : ss[k].credential = c}
  <2>1. A \subseteq B /\ B \subseteq DOMAIN ss
    OBVIOUS
  <2>2. IsFiniteSet(B)
    BY <1>1, <2>1, FS_Subset
  <2>3. IsFiniteSet(A) /\ Cardinality(A) <= Cardinality(B)
    BY <2>1, <2>2, FS_Subset
  <2>4. Cardinality(A) \in Nat /\ Cardinality(B) \in Nat
    BY <2>2, <2>3, FS_CardinalityType
  <2>5. sessionsFor(r, c) = Cardinality(A) /\ sessionsFor(ss, c) = Cardinality(B)
    BY DEF sessionsFor
  <2> HIDE DEF A, B
  <2>6. sessionsFor(ss, c) <= CircleCap(c)
    BY <1>4 DEF SessionsOK
  <2>7. CircleCap(c) \in Nat
    BY CapType, RelayConstants DEF CircleCap
  <2> QED
    BY <2>3, <2>4, <2>5, <2>6, <2>7
<1> QED
  BY <1>1, <1>2, <1>3, <1>4 DEF SessionsOK

\* A session opened where there is room keeps to the caps.
LEMMA SessionsGrow ==
  ASSUME NEW n \in Nat, NEW ss, SessionsOK(ss, n), NEW k \in Capabilities, k \notin DOMAIN ss,
         NEW c \in Callers, ~NoRoom(ss, c), NEW s, SessionOK(s, n), s.credential = c
  PROVE  SessionsOK(Put(ss, k, s), n)
<1> DEFINE r == Put(ss, k, s)
<1>1. /\ DOMAIN ss \subseteq Capabilities /\ IsFiniteSet(DOMAIN ss)
      /\ \A j \in DOMAIN ss : SessionOK(ss[j], n)
  BY DEF SessionsOK
<1>2. /\ DOMAIN r = DOMAIN ss \cup {k} /\ r[k] = s
      /\ \A j \in DOMAIN ss : r[j] = ss[j]
  BY DEF Put
<1> HIDE DEF r
<1>3. IsFiniteSet(DOMAIN r) /\ Cardinality(DOMAIN r) = Cardinality(DOMAIN ss) + 1
  BY <1>1, <1>2, FS_AddElement
<1>4. Cardinality(DOMAIN ss) \in Nat /\ MaxSessions \in Nat
  BY <1>1, FS_CardinalityType, RelayConstants
<1>5. Cardinality(DOMAIN r) <= MaxSessions
  BY <1>3, <1>4 DEF NoRoom
<1>6. ASSUME NEW x \in Callers \ {NoCredential}, TermsOf[x].concurrentTransfers > 0
      PROVE  sessionsFor(r, x) <= CircleCap(x)
  <2> DEFINE A == {j \in DOMAIN r : r[j].credential = x}
             B == {j \in DOMAIN ss : ss[j].credential = x}
  <2>1. sessionsFor(r, x) = Cardinality(A) /\ sessionsFor(ss, x) = Cardinality(B)
    BY DEF sessionsFor
  <2>2. B \subseteq DOMAIN ss /\ k \notin B
    OBVIOUS
  <2>3. IsFiniteSet(B) /\ Cardinality(B) \in Nat
    BY <1>1, <2>2, FS_Subset, FS_CardinalityType
  <2>4. sessionsFor(ss, x) <= CircleCap(x) /\ CircleCap(x) \in Nat
    BY <1>6, CapType, RelayConstants DEF SessionsOK, CircleCap
  <2>5. CASE x = c
    <3>1. A = B \cup {k}
      BY <1>2, <2>5
    <3> HIDE DEF A, B
    <3>2. Cardinality(A) = Cardinality(B) + 1
      BY <2>2, <2>3, <3>1, FS_AddElement
    <3>3. ~(sessionsFor(ss, x) >= CircleCap(x))
      BY <1>6, <2>5 DEF NoRoom, CircleCap
    <3> QED
      BY <2>1, <2>3, <2>4, <3>2, <3>3
  <2>6. CASE x # c
    <3>1. A = B
      BY <1>2, <2>6
    <3> QED
      BY <2>1, <2>4, <3>1
  <2> QED
    BY <2>5, <2>6
<1> QED
  BY <1>1, <1>2, <1>3, <1>5, <1>6 DEF SessionsOK, r

\* What sweepLocked leaves is what it was.
LEMMA SweptOK ==
  ASSUME NEW n \in Nat, NEW ss, SessionsOK(ss, n), NEW t
  PROVE  SessionsOK(sweepLocked(ss, t), n)
<1> DEFINE r == sweepLocked(ss, t)
<1>1. DOMAIN r \subseteq DOMAIN ss /\ \A k \in DOMAIN r : r[k] = ss[k]
  BY DEF sweepLocked, RestrictDomain, Restrict
<1>2. \A k \in DOMAIN ss : SessionOK(ss[k], n)
  BY DEF SessionsOK
<1> HIDE DEF r
<1> QED
  BY <1>1, <1>2, SessionsShrink DEF r

\* Time passing changes nothing.
LEMMA LaterOK ==
  ASSUME NEW n \in Nat, NEW ss, SessionsOK(ss, n)
  PROVE  SessionsOK(ss, n + 1)
<1>1. ASSUME NEW k \in DOMAIN ss
      PROVE  SessionOK(ss[k], n + 1)
  <2>1. SessionOK(ss[k], n)
    BY DEF SessionsOK
  <2>2. ss[k].lastActivity \in 1..(n + 1)
    BY <2>1 DEF SessionOK
  <2> QED
    BY <2>1, <2>2 DEF SessionOK
<1> QED
  BY <1>1 DEF SessionsOK

-----------------------------------------------------------------------------
(***************************************************************************)
(* The daily totals.  For each hour of the last day, the bucket of its     *)
(* slot holds what was pushed in that hour, or still belongs to another    *)
(* one and nothing was pushed.                                             *)
(***************************************************************************)
Bucket == [hour : Nat, bytes : Nat]

BucketsOK(w, hour) ==
  /\ w \in [Slots -> Bucket]
  /\ \A s \in Slots : w[s].hour <= hour /\ (w[s].bytes # 0 => SlotNo(w[s].hour) = s)

At(p, c, h) == IF <<c, h>> \in DOMAIN p THEN p[<<c, h>>] ELSE 0
Held(w, h) == IF w[SlotNo(h)].hour = h THEN w[SlotNo(h)].bytes ELSE 0
WindowOf(tr, c) == IF c \in DOMAIN tr THEN tr[c] ELSE NewWindow
LastDay(n) == {h \in Int : hourOf(n) - HoursPerDay < h /\ h <= hourOf(n)}

RingOK(tr, p, n) ==
  /\ DOMAIN tr \subseteq Credentials
  /\ \A c \in DOMAIN tr : BucketsOK(tr[c], hourOf(n))
  /\ \A c \in Credentials, h \in Int : At(p, c, h) \in Nat
  /\ \A c \in Credentials, h \in Int : h > hourOf(n) => At(p, c, h) = 0
  /\ \A c \in Credentials : \A h \in LastDay(n) : At(p, c, h) = Held(WindowOf(tr, c), h)

\* A circle that pushed nothing has empty buckets.
LEMMA WindowOK ==
  ASSUME NEW n \in Nat, NEW tr, NEW p, RingOK(tr, p, n), NEW c
  PROVE  BucketsOK(WindowOf(tr, c), hourOf(n))
<1>1. hourOf(n) \in Nat
  BY HourBounds
<1>2. BucketsOK(NewWindow, hourOf(n))
  BY <1>1 DEF BucketsOK, NewWindow, Bucket
<1> QED
  BY <1>2 DEF RingOK, WindowOf

\* A push at one of the last day's hours charges its own bucket.
LEMMA AddHeld ==
  ASSUME NEW n \in Nat, NEW t \in 1..n, n <= t + MaxLag, NEW w, BucketsOK(w, hourOf(n)),
         NEW b \in Nat
  PROVE  /\ hourOf(t) \in LastDay(n)
         /\ BucketsOK(add(w, t, b), hourOf(n))
         /\ Held(add(w, t, b), hourOf(t)) = Held(w, hourOf(t)) + b
         /\ \A h \in LastDay(n) \ {hourOf(t)} : Held(add(w, t, b), h) = Held(w, h)
<1> DEFINE g == hourOf(t)
           v == add(w, t, b)
           kept == IF w[SlotNo(g)].hour # g THEN 0 ELSE w[SlotNo(g)].bytes
<1>0. t \in Nat /\ t <= n
  OBVIOUS
<1>1. g \in Nat /\ hourOf(n) \in Nat /\ g <= hourOf(n) /\ hourOf(n) - HoursPerDay < g
  BY <1>0, HourBounds, ReadingHours
<1>2. SlotNo(g) \in Slots
  BY <1>1, SlotOf
<1>3. w \in [Slots -> Bucket] /\ w[SlotNo(g)] \in Bucket
  BY <1>2 DEF BucketsOK
<1>4. kept \in Nat /\ kept = Held(w, g)
  BY <1>3 DEF Bucket, Held
<1>5. v = [w EXCEPT ![SlotNo(g)] = [hour |-> g, bytes |-> kept + b]]
  BY DEF add, SlotNo
<1> HIDE DEF v, g, kept
<1>6. /\ v \in [Slots -> Bucket]
      /\ v[SlotNo(g)].hour = g /\ v[SlotNo(g)].bytes = kept + b
      /\ \A s \in Slots : s # SlotNo(g) => v[s] = w[s]
  <2>1. [hour |-> g, bytes |-> kept + b] \in Bucket
    BY <1>1, <1>4 DEF Bucket
  <2> QED
    BY <1>2, <1>3, <1>5, <2>1
<1>7. BucketsOK(v, hourOf(n))
  <2> SUFFICES ASSUME NEW s \in Slots
               PROVE  v[s].hour <= hourOf(n) /\ (v[s].bytes # 0 => SlotNo(v[s].hour) = s)
    BY <1>6 DEF BucketsOK
  <2>1. CASE s = SlotNo(g)
    BY <1>1, <1>6, <2>1
  <2>2. CASE s # SlotNo(g)
    BY <1>6, <2>2 DEF BucketsOK
  <2> QED
    BY <2>1, <2>2
<1>8. Held(v, g) = Held(w, g) + b
  BY <1>4, <1>6 DEF Held
<1>9. ASSUME NEW h \in LastDay(n) \ {g}
      PROVE  Held(v, h) = Held(w, h)
  <2>1. h \in Int /\ hourOf(n) - HoursPerDay < h /\ h <= hourOf(n)
    BY DEF LastDay
  <2>2. SlotNo(h) \in Slots
    BY <2>1, SlotOf
  <2>3. HoursPerDay \in Nat
    BY RelayConstants
  <2>4. g - h < HoursPerDay /\ h - g < HoursPerDay
    BY <1>1, <2>1, <2>3
  <2>5. SlotNo(h) # SlotNo(g)
    <3> SUFFICES ASSUME SlotNo(h) = SlotNo(g)
                 PROVE  h = g
      OBVIOUS
    <3>1. g \in Int
      BY <1>1
    <3> QED
      BY <2>1, <2>4, <3>1, SlotTwice
  <2> QED
    BY <1>6, <2>2, <2>5 DEF Held
<1>10. g \in LastDay(n)
  BY <1>1 DEF LastDay
<1> QED
  BY <1>7, <1>8, <1>9, <1>10 DEF v, g

\* An accepted chunk charged to a circle.
LEMMA ChargeRing ==
  ASSUME NEW n \in Nat, NEW tr, NEW p, RingOK(tr, p, n), NEW t \in 1..n, n <= t + MaxLag,
         NEW c \in Credentials, NEW b \in Nat
  PROVE  RingOK(Put(tr, c, add(WindowOf(tr, c), t, b)),
                Put(p, <<c, hourOf(t)>>, At(p, c, hourOf(t)) + b), n)
<1> DEFINE g == hourOf(t)
           w == WindowOf(tr, c)
           v == add(w, t, b)
           tr2 == Put(tr, c, v)
           p2 == Put(p, <<c, g>>, At(p, c, g) + b)
<1>1. BucketsOK(w, hourOf(n))
  BY WindowOK
<1> HIDE DEF w
<1>2. /\ g \in LastDay(n) /\ BucketsOK(v, hourOf(n))
      /\ Held(v, g) = Held(w, g) + b
      /\ \A h \in LastDay(n) \ {g} : Held(v, h) = Held(w, h)
  BY <1>1, AddHeld
<1> HIDE DEF v, g
<1>3. g \in Int /\ g <= hourOf(n) /\ hourOf(n) \in Int
  BY <1>2, HourBounds DEF LastDay
<1>4. /\ DOMAIN tr2 = DOMAIN tr \cup {c} /\ tr2[c] = v
      /\ \A x \in DOMAIN tr \ {c} : tr2[x] = tr[x]
  BY DEF Put
<1>5. /\ WindowOf(tr2, c) = v
      /\ \A x \in Credentials \ {c} : WindowOf(tr2, x) = WindowOf(tr, x)
  BY <1>4 DEF WindowOf
<1>6. /\ At(p2, c, g) = At(p, c, g) + b
      /\ \A x, h : <<x, h>> # <<c, g>> => At(p2, x, h) = At(p, x, h)
  BY DEF Put, At
<1> HIDE DEF tr2, p2
<1>7. At(p, c, g) \in Nat /\ At(p, c, g) = Held(w, g)
  BY <1>2, <1>3 DEF RingOK, w
<1>8. \A x \in DOMAIN tr2 : BucketsOK(tr2[x], hourOf(n))
  BY <1>2, <1>4 DEF RingOK
<1>9. DOMAIN tr2 \subseteq Credentials
  BY <1>4 DEF RingOK
<1>10. ASSUME NEW x \in Credentials, NEW h \in Int
       PROVE  /\ At(p2, x, h) \in Nat
              /\ h > hourOf(n) => At(p2, x, h) = 0
  <2>1. CASE x = c /\ h = g
    BY <1>3, <1>6, <1>7, <2>1
  <2>2. CASE ~(x = c /\ h = g)
    BY <1>6, <2>2 DEF RingOK
  <2> QED
    BY <2>1, <2>2
<1>11. ASSUME NEW x \in Credentials, NEW h \in LastDay(n)
       PROVE  At(p2, x, h) = Held(WindowOf(tr2, x), h)
  <2>0. At(p, x, h) = Held(WindowOf(tr, x), h)
    BY DEF RingOK
  <2>1. CASE x = c /\ h = g
    BY <1>2, <1>5, <1>6, <1>7, <2>1
  <2>2. CASE x = c /\ h # g
    BY <1>2, <1>5, <1>6, <2>0, <2>2 DEF w
  <2>3. CASE x # c
    BY <1>5, <1>6, <2>0, <2>3
  <2> QED
    BY <2>1, <2>2, <2>3
<1> QED
  BY <1>8, <1>9, <1>10, <1>11 DEF RingOK, tr2, p2, v, w, g

\* One that is charged to nobody.
LEMMA ChargeNobody ==
  ASSUME NEW n \in Nat, NEW tr, NEW p, RingOK(tr, p, n), NEW h, NEW b
  PROVE  RingOK(tr, Put(p, <<NoCredential, h>>, b), n)
<1>1. \A x \in Credentials : x # NoCredential
  BY RelayConstants
<1>2. \A x \in Credentials : \A g : At(Put(p, <<NoCredential, h>>, b), x, g) = At(p, x, g)
  BY <1>1 DEF At, Put
<1> QED
  BY <1>2 DEF RingOK

\* The terms of a window's total.
TotalTerms(w, t) ==
  [i \in 1..HoursPerDay |->
     IF w[i - 1].hour >= hourOf(t) - (HoursPerDay - 1) THEN w[i - 1].bytes ELSE 0]

LEMMA TotalType ==
  ASSUME NEW w, NEW hour, BucketsOK(w, hour), NEW t
  PROVE  /\ TotalTerms(w, t) \in Seq(Nat) /\ Len(TotalTerms(w, t)) = HoursPerDay
         /\ total(w, t) = Sum(TotalTerms(w, t))
<1>1. HoursPerDay \in Nat
  BY RelayConstants
<1>2. \A i \in 1..HoursPerDay : i - 1 \in Slots /\ w[i - 1].bytes \in Nat
  BY <1>1 DEF BucketsOK, Slots, Bucket
<1>3. \A i \in 1..HoursPerDay :
        (IF w[i - 1].hour >= hourOf(t) - (HoursPerDay - 1) THEN w[i - 1].bytes ELSE 0) \in Nat
  BY <1>2
<1>4. TotalTerms(w, t) \in Seq(Nat)
  BY <1>1, <1>3, IsASeq DEF TotalTerms
<1>5. DOMAIN TotalTerms(w, t) = 1..HoursPerDay
  BY DEF TotalTerms
<1>6. Len(TotalTerms(w, t)) = HoursPerDay
  BY <1>1, <1>4, <1>5, LenProperties
<1>7. total(w, t) = Sum(TotalTerms(w, t))
  BY DEF total, TotalTerms
<1> QED
  BY <1>4, <1>6, <1>7

\* A window whose total is zero holds nothing of the last day.
LEMMA SpentWindow ==
  ASSUME NEW n \in Nat, NEW t \in 1..n, n <= t + MaxLag, NEW w, BucketsOK(w, hourOf(n)),
         total(w, t) = 0, NEW h \in LastDay(n)
  PROVE  Held(w, h) = 0
<1>0. t \in Nat /\ t <= n /\ HoursPerDay \in Nat
  BY RelayConstants
<1>1. h \in Int /\ hourOf(n) - HoursPerDay < h /\ h <= hourOf(n)
  BY DEF LastDay
<1>2. hourOf(t) \in Nat /\ hourOf(n) \in Nat /\ hourOf(t) <= hourOf(n)
  BY <1>0, HourBounds, ReadingHours
<1> DEFINE s == SlotNo(h)
<1>3. s \in Slots
  BY <1>1, SlotOf
<1>4. s \in Int /\ s + 1 \in 1..HoursPerDay /\ (s + 1) - 1 = s
  BY <1>0, <1>3 DEF Slots
<1>5. w[s].hour \in Nat /\ w[s].bytes \in Nat
  BY <1>3 DEF BucketsOK, Bucket
<1> HIDE DEF s
<1>6. /\ TotalTerms(w, t) \in Seq(Nat) /\ Len(TotalTerms(w, t)) = HoursPerDay
      /\ total(w, t) = Sum(TotalTerms(w, t))
  BY TotalType
<1>7. TotalTerms(w, t)[s + 1] <= 0
  BY <1>4, <1>6, SumType
<1>8. TotalTerms(w, t)[s + 1]
        = IF w[s].hour >= hourOf(t) - (HoursPerDay - 1) THEN w[s].bytes ELSE 0
  BY <1>4 DEF TotalTerms
<1>9. CASE w[s].hour = h
  <2>1. w[s].hour >= hourOf(t) - (HoursPerDay - 1)
    BY <1>0, <1>1, <1>2, <1>9
  <2>2. w[s].bytes = 0
    BY <1>5, <1>7, <1>8, <2>1
  <2> QED
    BY <2>2 DEF Held, s
<1>10. CASE w[s].hour # h
  BY <1>10 DEF Held, s
<1> QED
  BY <1>9, <1>10

\* Prune forgets windows that hold nothing of the last day.
LEMMA PruneRing ==
  ASSUME NEW n \in Nat, NEW tr, NEW p, RingOK(tr, p, n), NEW t \in 1..n, n <= t + MaxLag,
         NEW r, DOMAIN r = {c \in DOMAIN tr : total(tr[c], t) # 0},
         \A c \in DOMAIN r : r[c] = tr[c]
  PROVE  RingOK(r, p, n)
<1>1. DOMAIN r \subseteq DOMAIN tr /\ \A c \in DOMAIN tr \ DOMAIN r : total(tr[c], t) = 0
  OBVIOUS
<1>2. DOMAIN r \subseteq Credentials /\ \A c \in DOMAIN r : BucketsOK(r[c], hourOf(n))
  BY <1>1 DEF RingOK
<1>3. ASSUME NEW c \in Credentials, NEW h \in LastDay(n)
      PROVE  At(p, c, h) = Held(WindowOf(r, c), h)
  <2>0. At(p, c, h) = Held(WindowOf(tr, c), h)
    BY DEF RingOK
  <2>1. CASE c \in DOMAIN r \/ c \notin DOMAIN tr
    BY <1>1, <2>0, <2>1 DEF WindowOf
  <2>2. CASE c \in DOMAIN tr /\ c \notin DOMAIN r
    <3>1. total(tr[c], t) = 0 /\ BucketsOK(tr[c], hourOf(n))
      BY <1>1, <2>2 DEF RingOK
    <3>2. Held(tr[c], h) = 0
      BY <3>1, SpentWindow
    <3>3. WindowOf(r, c) = NewWindow
      BY <2>2 DEF WindowOf
    <3>4. SlotNo(h) \in Slots
      BY SlotOf DEF LastDay
    <3>5. Held(NewWindow, h) = 0
      BY <3>4 DEF Held, NewWindow
    <3> QED
      BY <2>0, <2>2, <3>2, <3>3, <3>5 DEF WindowOf
  <2> QED
    BY <2>1, <2>2
<1> QED
  BY <1>2, <1>3 DEF RingOK

\* An hour that begins has a bucket that is not its own yet.
LEMMA LaterRing ==
  ASSUME NEW n \in Nat, NEW tr, NEW p, RingOK(tr, p, n)
  PROVE  RingOK(tr, p, n + 1)
<1>1. /\ hourOf(n) \in Nat /\ hourOf(n + 1) \in Nat
      /\ hourOf(n) <= hourOf(n + 1) /\ hourOf(n + 1) <= hourOf(n) + 1
  <2> DEFINE a == hourOf(n)
             b == hourOf(n + 1)
  <2>0. TicksPerHour \in Nat /\ TicksPerHour > 0
    BY RelayConstants
  <2>1. /\ a \in Nat /\ a * TicksPerHour <= n /\ n < a * TicksPerHour + TicksPerHour
        /\ b \in Nat /\ b * TicksPerHour <= n + 1 /\ n + 1 < b * TicksPerHour + TicksPerHour
    BY HourBounds
  <2> HIDE DEF a, b
  <2>2. a * TicksPerHour \in Int /\ b * TicksPerHour \in Int
        /\ (a + 1) * TicksPerHour = a * TicksPerHour + TicksPerHour
    BY <2>0, <2>1
  <2>3. ~(b < a)
    <3>1. b < a => b * TicksPerHour + TicksPerHour <= a * TicksPerHour
      BY <2>1, HoursGrow
    <3> QED
      BY <2>0, <2>1, <2>2, <3>1
  <2>4. ~(a + 1 < b)
    <3>1. a + 1 < b => (a + 1) * TicksPerHour + TicksPerHour <= b * TicksPerHour
      BY <2>1, HoursGrow
    <3> QED
      BY <2>0, <2>1, <2>2, <3>1
  <2> QED
    BY <2>1, <2>3, <2>4 DEF a, b
<1>2. ASSUME NEW c \in DOMAIN tr
      PROVE  BucketsOK(tr[c], hourOf(n + 1))
  <2>1. BucketsOK(tr[c], hourOf(n))
    BY DEF RingOK
  <2>2. ASSUME NEW s \in Slots
        PROVE  tr[c][s].hour <= hourOf(n + 1)
    <3>1. tr[c][s].hour \in Nat /\ tr[c][s].hour <= hourOf(n)
      BY <2>1 DEF BucketsOK, Bucket
    <3> QED
      BY <1>1, <3>1
  <2> QED
    BY <2>1, <2>2 DEF BucketsOK
<1>3. ASSUME NEW c \in Credentials, NEW h \in LastDay(n + 1)
      PROVE  At(p, c, h) = Held(WindowOf(tr, c), h)
  <2>1. h \in Int /\ hourOf(n + 1) - HoursPerDay < h /\ h <= hourOf(n + 1) /\ HoursPerDay \in Nat
    BY RelayConstants DEF LastDay
  <2>2. CASE h <= hourOf(n)
    <3>1. h \in LastDay(n)
      BY <1>1, <2>1, <2>2 DEF LastDay
    <3> QED
      BY <3>1 DEF RingOK
  <2>3. CASE ~(h <= hourOf(n))
    <3>1. h > hourOf(n)
      BY <1>1, <2>1, <2>3
    <3>2. At(p, c, h) = 0
      BY <2>1, <3>1 DEF RingOK
    <3>3. BucketsOK(WindowOf(tr, c), hourOf(n)) /\ SlotNo(h) \in Slots
      BY <2>1, WindowOK, SlotOf
    <3>4. WindowOf(tr, c)[SlotNo(h)].hour # h
      BY <2>3, <3>3 DEF BucketsOK
    <3> QED
      BY <3>2, <3>4 DEF Held
  <2> QED
    BY <2>2, <2>3
<1>4. \A c \in Credentials, h \in Int : h > hourOf(n + 1) => At(p, c, h) = 0
  <2>1. \A h \in Int : h > hourOf(n + 1) => h > hourOf(n)
    BY <1>1
  <2> QED
    BY <2>1 DEF RingOK
<1> QED
  BY <1>2, <1>3, <1>4 DEF RingOK

\* The buckets add up: term by term, the total is what was pushed in the hours
\* of the last day.
LEMMA RingExact ==
  ASSUME now \in Nat, RingOK(transit, pushed, now)
  PROVE  TransitExact
<1> SUFFICES ASSUME NEW c \in Credentials
             PROVE  TransitToday(c) = PushedToday(c)
  BY DEF TransitExact
<1> DEFINE w == WindowOf(transit, c)
           hour == hourOf(now)
           terms == [i \in 1..HoursPerDay |-> PushedAt(c, LatestHour(i - 1))]
<1>0. HoursPerDay \in Nat /\ hour \in Nat
  BY HourBounds, RelayConstants
<1>1. BucketsOK(w, hour)
  BY WindowOK
<1> HIDE DEF w
<1>2. ASSUME NEW i \in 1..HoursPerDay
      PROVE  terms[i] = TotalTerms(w, now)[i]
  <2> DEFINE s == i - 1
             l == LatestHour(s)
  <2>1. s \in Slots
    BY <1>0 DEF Slots
  <2>2. l \in Int /\ hour - HoursPerDay < l /\ l <= hour /\ SlotNo(l) = s
    BY <1>0, <2>1, LatestInSlot DEF LatestHour
  <2> HIDE DEF s, l
  <2>3. l \in LastDay(now)
    BY <2>2 DEF LastDay
  <2>4. PushedAt(c, l) = Held(w, l)
    BY <2>3 DEF RingOK, PushedAt, At, w
  <2>5. w[s].hour \in Nat /\ w[s].bytes \in Nat /\ w[s].hour <= hour
        /\ (w[s].bytes # 0 => SlotNo(w[s].hour) = s)
    BY <1>1, <2>1 DEF BucketsOK, Bucket
  <2>6. TotalTerms(w, now)[i]
          = IF w[s].hour >= hour - (HoursPerDay - 1) THEN w[s].bytes ELSE 0
    BY DEF TotalTerms, s
  <2>7. CASE w[s].hour = l
    <3>1. w[s].hour >= hour - (HoursPerDay - 1)
      BY <1>0, <2>2, <2>7
    <3> QED
      BY <2>2, <2>4, <2>6, <2>7, <3>1 DEF Held, l, s
  <2>8. CASE w[s].hour # l
    <3>1. Held(w, l) = 0
      BY <2>2, <2>8 DEF Held
    <3>2. w[s].hour >= hour - (HoursPerDay - 1) => w[s].bytes = 0
      <4> SUFFICES ASSUME w[s].hour >= hour - (HoursPerDay - 1), w[s].bytes # 0
                   PROVE  FALSE
        BY <2>5
      <4>1. SlotNo(w[s].hour) = SlotNo(l) /\ w[s].hour \in Int
        BY <2>2, <2>5
      <4>2. w[s].hour - l < HoursPerDay /\ l - w[s].hour < HoursPerDay
        BY <1>0, <2>2, <2>5
      <4> QED
        BY <2>2, <2>8, <4>1, <4>2, SlotTwice
    <3>3. TotalTerms(w, now)[i] = 0
      BY <2>6, <3>2
    <3> QED
      BY <2>4, <3>1, <3>3 DEF l, s
  <2> QED
    BY <2>7, <2>8
<1>3. /\ TotalTerms(w, now) \in Seq(Nat) /\ Len(TotalTerms(w, now)) = HoursPerDay
      /\ total(w, now) = Sum(TotalTerms(w, now))
  BY <1>1, TotalType
<1>4. terms = TotalTerms(w, now)
  BY <1>2 DEF TotalTerms
<1>5. PushedToday(c) = total(w, now)
  BY <1>3, <1>4 DEF PushedToday
<1>6. CASE c \in DOMAIN transit
  BY <1>5, <1>6 DEF TransitToday, WindowOf, w
<1>7. CASE c \notin DOMAIN transit
  <2>1. w = NewWindow
    BY <1>7 DEF WindowOf, w
  <2>2. \A i \in 1..HoursPerDay : TotalTerms(w, now)[i] = 0
    <3>1. \A i \in 1..HoursPerDay : i - 1 \in Slots
      BY <1>0 DEF Slots
    <3>2. \A s \in Slots : w[s].bytes = 0
      BY <2>1 DEF NewWindow
    <3> QED
      BY <3>1, <3>2 DEF TotalTerms
  <2>3. total(w, now) = 0
    BY <1>3, <2>2, SumZeros
  <2> QED
    BY <1>5, <1>7, <2>3 DEF TransitToday
<1> QED
  BY <1>6, <1>7

-----------------------------------------------------------------------------
(***************************************************************************)
(* The inductive invariant: sessions that are sound, within the caps, and  *)
(* buckets that hold the last day.                                         *)
(***************************************************************************)
RelayInv ==
  /\ now \in 1..Horizon
  /\ SessionsOK(sessions, now)
  /\ RingOK(transit, pushed, now)

LEMMA InitInv == Init => RelayInv
<1> SUFFICES ASSUME Init
             PROVE  RelayInv
  OBVIOUS
<1>1. now \in 1..Horizon /\ now \in Nat
  BY RelayConstants DEF Init
<1>2. DOMAIN sessions = {} /\ DOMAIN transit = {} /\ DOMAIN pushed = {}
  BY DEF Init, EmptyMap
<1>3. SessionsOK(sessions, now)
  <2>1. IsFiniteSet(DOMAIN sessions) /\ Cardinality(DOMAIN sessions) = 0
    BY <1>2, FS_EmptySet
  <2>2. MaxSessions \in Nat
    BY RelayConstants
  <2>3. ASSUME NEW c \in Callers, TermsOf[c].concurrentTransfers > 0
        PROVE  sessionsFor(sessions, c) <= CircleCap(c)
    <3>1. {k \in DOMAIN sessions : sessions[k].credential = c} = {}
      BY <1>2
    <3>2. sessionsFor(sessions, c) = 0
      BY <3>1, FS_EmptySet DEF sessionsFor
    <3>3. CircleCap(c) \in Nat
      BY CapType, RelayConstants DEF CircleCap
    <3> QED
      BY <3>2, <3>3
  <2> QED
    BY <1>2, <2>1, <2>2, <2>3 DEF SessionsOK
<1>4. RingOK(transit, pushed, now)
  <2>1. \A c, h : At(pushed, c, h) = 0
    BY <1>2 DEF At
  <2>2. ASSUME NEW c, NEW h \in LastDay(now)
        PROVE  Held(WindowOf(transit, c), h) = 0
    <3>1. SlotNo(h) \in Slots
      BY SlotOf DEF LastDay
    <3> QED
      BY <1>2, <3>1 DEF Held, WindowOf, NewWindow
  <2> QED
    BY <1>2, <2>1, <2>2 DEF RingOK
<1> QED
  BY <1>1, <1>3, <1>4 DEF RelayInv

\* A push keeps the invariant, refused or accepted.
LEMMA PushInv ==
  ASSUME RelayInv, NEW chunk \in Chunks, NEW c \in Callers, NEW t \in Readings,
         PushWithGrant(chunk, c, t)
  PROVE  RelayInv'
<1> DEFINE swept == sweepLocked(sessions, t)
           k == chunk.capability
           known == k \in DOMAIN swept
           session == IF known THEN swept[k] ELSE NewSession(chunk, c, t)
           error == pushError(session, chunk, c, t)
           charged == session.credential
           window == IF charged \in DOMAIN transit THEN transit[charged] ELSE NewWindow
<1>0. /\ now \in Nat /\ now \in 1..Horizon /\ t \in 1..now /\ now <= t + MaxLag
      /\ chunk.form = "ok" /\ k \in Capabilities
  BY RelayConstants DEF RelayInv, Readings, PushWithGrant, Capabilities
<1>1. SessionsOK(swept, now)
  BY <1>0, SweptOK DEF RelayInv
<1>2. RingOK(transit, pushed, now)
  BY DEF RelayInv
<1>3. /\ now' = now
      /\ \/ sessions' = swept /\ UNCHANGED <<transit, history>>
         \/ /\ known \/ ~NoRoom(swept, c)
            /\ sessions' = Put(swept, k, session)
            /\ UNCHANGED <<transit, history>>
         \/ /\ known \/ ~NoRoom(swept, c)
            /\ error = "ok"
            /\ sessions' = Put(swept, k, Buffered(session, chunk, t))
            /\ transit' = IF charged = NoCredential THEN transit
                          ELSE Put(transit, charged, add(window, t, chunk.bytes))
            /\ pushed' = Put(pushed, <<charged, hourOf(t)>>,
                             PushedAt(charged, hourOf(t)) + chunk.bytes)
  BY DEF PushWithGrant
<1> HIDE DEF swept
<1>4. /\ SessionOK(session, now)
      /\ ~known => session.credential = c
  <2>1. known => SessionOK(swept[k], now)
    BY <1>1 DEF SessionsOK
  <2>2. /\ SessionOK(NewSession(chunk, c, t), now)
        /\ NewSession(chunk, c, t).credential = c
    BY <1>0, NewSessionOK
  <2> QED
    BY <2>1, <2>2
<1>5. ASSUME NEW s, SessionOK(s, now), s.credential = charged, known \/ ~NoRoom(swept, c)
      PROVE  SessionsOK(Put(swept, k, s), now)
  <2>1. CASE known
    <3>1. /\ DOMAIN Put(swept, k, s) = DOMAIN swept
          /\ \A j \in DOMAIN swept : Put(swept, k, s)[j] = IF j = k THEN s ELSE swept[j]
      BY <2>1 DEF Put
    <3>2. s.credential = swept[k].credential
      BY <1>5, <2>1
    <3>3. \A j \in DOMAIN swept : SessionOK(swept[j], now)
      BY <1>1 DEF SessionsOK
    <3>4. \A j \in DOMAIN Put(swept, k, s) :
            /\ SessionOK(Put(swept, k, s)[j], now)
            /\ Put(swept, k, s)[j].credential = swept[j].credential
      BY <1>5, <3>1, <3>2, <3>3
    <3>5. DOMAIN Put(swept, k, s) \subseteq DOMAIN swept
      BY <3>1
    <3> QED
      BY <1>0, <1>1, <3>4, <3>5, SessionsShrink
  <2>2. CASE ~known
    <3>1. s.credential = c
      BY <1>4, <1>5, <2>2
    <3> QED
      BY <1>0, <1>1, <1>5, <2>2, <3>1, SessionsGrow
  <2> QED
    BY <2>1, <2>2
<1>6. CASE sessions' = swept /\ UNCHANGED <<transit, history>>
  BY <1>0, <1>1, <1>2, <1>3, <1>6 DEF RelayInv, history
<1>7. CASE /\ known \/ ~NoRoom(swept, c)
           /\ sessions' = Put(swept, k, session)
           /\ UNCHANGED <<transit, history>>
  <2>1. SessionsOK(sessions', now')
    BY <1>3, <1>4, <1>5, <1>7
  <2> QED
    BY <1>0, <1>2, <1>3, <1>7, <2>1 DEF RelayInv, history
<1>8. CASE /\ known \/ ~NoRoom(swept, c)
           /\ error = "ok"
           /\ sessions' = Put(swept, k, Buffered(session, chunk, t))
           /\ transit' = IF charged = NoCredential THEN transit
                         ELSE Put(transit, charged, add(window, t, chunk.bytes))
           /\ pushed' = Put(pushed, <<charged, hourOf(t)>>,
                            PushedAt(charged, hourOf(t)) + chunk.bytes)
  <2> HIDE DEF session
  <2>1. /\ session.totalChunks = chunk.totalChunks /\ chunk.index \notin session.seen
        /\ ~(Len(session.window) >= MaxWindow)
        /\ ~(session.pushedBytes + chunk.bytes
               > lowerOf(MaxAttachmentBytes, TermsOf[c].attachmentBytes))
    <3>1. error = "ok"
      BY <1>8
    <3> QED
      BY <3>1 DEF pushError
  <2>2. /\ session.pushedBytes \in Nat /\ chunk.bytes \in Nat /\ Len(session.window) \in Nat
        /\ session.credential \in Callers
    <3>1. session.window \in Seq(Item)
      BY <1>4 DEF SessionOK, Session
    <3> QED
      BY <1>4, <3>1, LenProperties, RelayConstants DEF SessionOK, Session
  <2>3. /\ Len(session.window) < MaxWindow
        /\ session.pushedBytes + chunk.bytes <= MaxAttachmentBytes
    <3>1. /\ lowerOf(MaxAttachmentBytes, TermsOf[c].attachmentBytes) \in Nat
          /\ lowerOf(MaxAttachmentBytes, TermsOf[c].attachmentBytes) <= MaxAttachmentBytes
          /\ MaxWindow \in Nat /\ MaxAttachmentBytes \in Nat
      BY CapType, RelayConstants
    <3> QED
      BY <2>1, <2>2, <3>1
  <2>4. /\ SessionOK(Buffered(session, chunk, t), now)
        /\ Buffered(session, chunk, t).credential = charged
    BY <1>0, <1>4, <2>1, <2>3, BufferedOK
  <2>5. SessionsOK(sessions', now')
    BY <1>3, <1>5, <1>8, <2>4
  <2>6. PushedAt(charged, hourOf(t)) = At(pushed, charged, hourOf(t))
    BY DEF PushedAt, At
  <2>7. RingOK(transit', pushed', now')
    <3>1. CASE charged = NoCredential
      BY <1>0, <1>2, <1>3, <1>8, <3>1, ChargeNobody
    <3>2. CASE charged # NoCredential
      <4>1. charged \in Credentials /\ window = WindowOf(transit, charged)
        BY <2>2, <3>2, RelayConstants DEF WindowOf
      <4> HIDE DEF window, charged
      <4> QED
        BY <1>0, <1>2, <1>3, <1>8, <2>2, <2>6, <3>2, <4>1, ChargeRing
    <3> QED
      BY <3>1, <3>2
  <2> QED
    BY <1>0, <1>3, <2>5, <2>7 DEF RelayInv
<1> QED
  BY <1>3, <1>6, <1>7, <1>8

LEMMA NextInv == RelayInv /\ [Next]_vars => RelayInv'
<1> SUFFICES ASSUME RelayInv, [Next]_vars
             PROVE  RelayInv'
  OBVIOUS
<1>0. /\ now \in Nat \ {0} /\ now \in 1..Horizon
      /\ SessionsOK(sessions, now) /\ RingOK(transit, pushed, now)
  BY RelayConstants DEF RelayInv
<1>1. ASSUME NEW t \in Readings, NEW chunk \in Chunks, NEW c \in Callers,
             PushWithGrant(chunk, c, t)
      PROVE  RelayInv'
  BY <1>1, PushInv
<1>2. ASSUME NEW t \in Readings, Prune(t)
      PROVE  RelayInv'
  <2>1. t \in 1..now /\ now <= t + MaxLag
    BY DEF Readings
  <2>2. SessionsOK(sessions', now')
    BY <1>0, <1>2, SweptOK DEF Prune
  <2>3. RingOK(transit', pushed', now')
    <3>1. /\ DOMAIN transit' = {c \in DOMAIN transit : total(transit[c], t) # 0}
          /\ \A c \in DOMAIN transit' : transit'[c] = transit[c]
      BY <1>2 DEF Prune, RestrictDomain, Restrict
    <3>2. RingOK(transit', pushed, now)
      BY <1>0, <2>1, <3>1, PruneRing
    <3> QED
      BY <1>2, <3>2 DEF Prune, history
  <2> QED
    BY <1>0, <1>2, <2>2, <2>3 DEF Prune, RelayInv
<1>3. ASSUME NEW chunk \in Chunks, Poll(chunk.recipient, chunk.capability)
      PROVE  RelayInv'
  <2> DEFINE swept == sweepLocked(sessions, now)
             k == chunk.capability
             d == Drain(swept, chunk.recipient, k)
  <2>1. SessionsOK(swept, now)
    BY <1>0, SweptOK
  <2> HIDE DEF swept
  <2>2. /\ DOMAIN d = DOMAIN swept
        /\ \A j \in DOMAIN swept : d[j] = swept[j] \/ d[j] = Drained(swept[j], now)
    <3>1. d = swept \/ d = [swept EXCEPT ![k] = Drained(swept[k], now)]
      BY DEF Drain
    <3> HIDE DEF d
    <3> QED
      BY <3>1
  <2> HIDE DEF d
  <2>3. ASSUME NEW j \in DOMAIN d
        PROVE  SessionOK(d[j], now) /\ d[j].credential = swept[j].credential
    <3>1. SessionOK(swept[j], now)
      BY <2>1, <2>2 DEF SessionsOK
    <3>2. /\ SessionOK(Drained(swept[j], now), now)
          /\ Drained(swept[j], now).credential = swept[j].credential
      BY <1>0, <3>1, DrainedOK
    <3> QED
      BY <2>2, <3>1, <3>2
  <2>4. SessionsOK(d, now)
    <3>1. DOMAIN d \subseteq DOMAIN swept
      BY <2>2
    <3> QED
      BY <1>0, <2>1, <2>3, <3>1, SessionsShrink
  <2>5. sessions' = d /\ UNCHANGED <<transit, now, history>>
    BY <1>3 DEF Poll, d, swept
  <2> QED
    BY <1>0, <2>4, <2>5 DEF RelayInv, history
<1>4. ASSUME NEW chunk \in Chunks, Complete(chunk.transferID, chunk.capability)
      PROVE  RelayInv'
  <2>1. /\ DOMAIN sessions' \subseteq DOMAIN sessions
        /\ \A j \in DOMAIN sessions' : sessions'[j] = sessions[j]
    BY <1>4 DEF Complete, Restrict
  <2>2. \A j \in DOMAIN sessions' :
          SessionOK(sessions'[j], now) /\ sessions'[j].credential = sessions[j].credential
    BY <1>0, <2>1 DEF SessionsOK
  <2>3. SessionsOK(sessions', now)
    BY <1>0, <2>1, <2>2, SessionsShrink
  <2> QED
    BY <1>0, <1>4, <2>3 DEF Complete, RelayInv, history
<1>5. CASE Tick
  <2>1. SessionsOK(sessions, now + 1) /\ RingOK(transit, pushed, now + 1)
    BY <1>0, LaterOK, LaterRing
  <2>2. now' \in 1..Horizon
    BY <1>0, <1>5, RelayConstants DEF Tick
  <2> QED
    BY <1>5, <2>1, <2>2 DEF Tick, RelayInv, history
<1>6. CASE UNCHANGED vars
  BY <1>6 DEF vars, history, RelayInv
<1>7. ASSUME NEW chunk \in Chunks, PushRefused(chunk)
      PROVE  RelayInv'
  BY <1>6, <1>7 DEF PushRefused
<1> QED
  BY <1>1, <1>2, <1>3, <1>4, <1>5, <1>6, <1>7 DEF Next

(***************************************************************************)
(* For every mix of circles, chunks and caps: the relay's sessions are     *)
(* sound and its buckets hold the last day, as senders, recipients, sweeps *)
(* and the clock interleave.                                               *)
(***************************************************************************)
THEOREM RelayInvariance == Spec => []RelayInv
<1>1. Init => RelayInv
  BY InitInv
<1>2. RelayInv /\ [Next]_vars => RelayInv'
  BY NextInv
<1> QED
  BY <1>1, <1>2, PTL DEF Spec

(***************************************************************************)
(* A session's index is delivered once: however pushes, replays and drains *)
(* interleave, what was accepted was drained once or waits once.           *)
(***************************************************************************)
THEOREM ChunksDeliveredOnce == Spec => []DeliveredOnce
<1>1. RelayInv => DeliveredOnce
  BY DEF RelayInv, SessionsOK, SessionOK, OnceEach, Accepted, DeliveredOnce
<1> QED
  BY <1>1, RelayInvariance, PTL

(***************************************************************************)
(* The footprint the memory ceiling is computed from is never exceeded,    *)
(* and the byte counter is what is buffered.                               *)
(***************************************************************************)
THEOREM FootprintKept == Spec => []FootprintBounded
<1>1. ASSUME RelayInv
      PROVE  FootprintBounded
  <2>1. \A k \in DOMAIN sessions : SessionOK(sessions[k], now)
    BY <1>1 DEF RelayInv, SessionsOK
  <2>2. TypeOK
    BY <1>1, <2>1 DEF TypeOK, RelayInv, SessionsOK, SessionOK, Session, Capabilities, RingOK
  <2> QED
    BY <1>1, <2>1, <2>2
       DEF FootprintBounded, RelayInv, SessionsOK, SessionOK, CircleCap
<1> QED
  BY <1>1, RelayInvariance, PTL

(***************************************************************************)
(* The daily total a circle is charged is exactly what it pushed in the    *)
(* last HoursPerDay hours, as buckets are reused, pruned and charged by    *)
(* calls that waited for the lock.                                         *)
(***************************************************************************)
THEOREM TransitAddsUp == Spec => []TransitExact
<1>1. ASSUME RelayInv
      PROVE  TransitExact
  <2>1. now \in Nat /\ RingOK(transit, pushed, now)
    BY <1>1 DEF RelayInv
  <2> QED
    BY <2>1, RingExact
<1> QED
  BY <1>1, RelayInvariance, PTL
=============================================================================
