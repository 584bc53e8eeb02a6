------------------------------ MODULE Issuance ------------------------------
(***************************************************************************)
(* Credential issuance: dee-admit mint, renew and revoke (cmd/dee-admit,   *)
(* internal/issue) on the file a running relay re-reads on SIGHUP          *)
(* (cmd/dee-relay/main.go, internal/admission/store.go).                   *)
(*                                                                         *)
(* Several operators may run the tool at once: it takes no lock.  A        *)
(* command reads the whole file, changes its copy, writes a temporary file *)
(* beside it and renames that over the path.  It may fail or be killed     *)
(* between any two steps, and the power may go: then the path names the    *)
(* file of the last rename the file system had written back, or a later    *)
(* one, with its contents only if they were synced.                        *)
(*                                                                         *)
(* Nothing ever removes the file, and nobody but Save changes what it      *)
(* holds.  A temporary file that a killed command leaves behind is not     *)
(* kept: no other process looks for it.  Operators run as root or as the   *)
(* relay's own user, so that adoptOwner can give the owner back.           *)
(*                                                                         *)
(* An operator named op_fault is op with one plausible mistake; no other   *)
(* definition uses it.                                                     *)
(***************************************************************************)
EXTENDS Integers, SequencesExt

CONSTANTS
  Operators,         \* processes of dee-admit
  Alphabet,          \* the symbols of codeAlphabet that occur
  Codes,             \* codes NewCode may draw
  Typings,           \* what an operator may type for --code
  Meant,             \* typing -> the code the customer holds, or NoCode
  Days,              \* values of --days
  Tiers,             \* tier of the presets file -> "sound" or "negative"
  DurationRange,     \* days from which a time.Duration wraps around
  Readings,          \* what a command may read off the wall clock
  FirstCredentials,  \* what a box that serves already has in its file
  RequireAdmission,
  MaxCommands,       \* bound: commands over a behaviour
  MaxFaults          \* bound: power cuts and stops of the relay

NoCode == <<>>

ASSUME IssuanceConstants ==
  /\ Codes \subseteq Seq(Alphabet) \ {NoCode}
  /\ Meant \in [Typings -> Codes \cup {NoCode}]
  /\ Days \subseteq Nat \ {0}
  /\ \A tier \in DOMAIN Tiers : Tiers[tier] \in {"sound", "negative"}
  /\ DurationRange \in Nat \ {0}
  /\ Readings \subseteq Nat
  /\ DOMAIN FirstCredentials \subseteq Codes
  /\ FirstCredentials \in
       [DOMAIN FirstCredentials ->
          [tier : {tier \in DOMAIN Tiers : Tiers[tier] = "sound"}, notAfter : Nat]]
  /\ RequireAdmission \in BOOLEAN
  /\ MaxCommands \in Nat /\ MaxFaults \in Nat

VARIABLES
  file,      \* what the path names
  disk,      \* what it would name if no later rename reached the disk
  commands,  \* operator -> where its command stands
  relay,     \* [up, loaded, step, read]: the process that serves the file
  hangup,    \* the channel of capacity 1 SIGHUP is delivered to
  promised,  \* code -> the window end last printed for it
  unheard,   \* a SIGHUP came and the file was not read since
  undone,    \* a save was overwritten unseen, or its rename lost to a power cut
  provided,  \* the administrator gave the relay access to the file
  begun, faults

vars == <<file, disk, commands, relay, hangup, promised, unheard, undone,
          provided, begun, faults>>

-----------------------------------------------------------------------------
EmptyMap == [x \in {} |-> x]
Put(map, k, v) == [x \in DOMAIN map \cup {k} |-> IF x = k THEN v ELSE map[x]]
Without(map, gone) == Restrict(map, DOMAIN map \ gone)

(***************************************************************************)
(* Codes as they are typed.  Case, grouping and the look-alikes Crockford  *)
(* leaves out fold away; a U stays and fits no code.  KeyFromCode is       *)
(* one-way and without collisions, so a normalized code stands for the     *)
(* credential id.                                                          *)
(***************************************************************************)
ToUpper(r) == CASE r = "o" -> "O" [] r = "i" -> "I" [] r = "l" -> "L" [] r = "u" -> "U"
                [] OTHER -> r

Folded_swapsLookAlikes(r) == CASE r = "O" -> "1" [] r \in {"I", "L"} -> "0" [] OTHER -> r
Folded(r) == CASE r = "O" -> "0" [] r \in {"I", "L"} -> "1" [] OTHER -> r

NormalizeCode(typed) ==
  LET folded == [i \in DOMAIN typed |-> Folded(ToUpper(typed[i]))]
  IN  SelectSeq(folded, LAMBDA r : r \in Alphabet \cup {"U"})

CredentialFromCode(typed) == NormalizeCode(typed)

\* A number of days as a time.Duration of 64 bits.
window(days) == ((days + DurationRange) % (2 * DurationRange)) - DurationRange

(***************************************************************************)
(* The credential file: what it says, whether all of it is there, and who  *)
(* may read it.                                                            *)
(***************************************************************************)
NoFile == [exists |-> FALSE]

validateCredential(credential) == Tiers[credential.tier] # "negative"

\* ParseCredentials: the whole document or an error.
Parses(f) ==
  f.exists /\ f.whole /\ \A id \in DOMAIN f.credentials : validateCredential(f.credentials[id])

RelayMayRead(f) == f.owner = "relay" \/ f.mode = "shared"

\* ReadFile in the relay, and what an enforcing relay will not apply.
Loads(f) ==
  Parses(f) /\ RelayMayRead(f) /\ (RequireAdmission => f.credentials # EmptyMap)

-----------------------------------------------------------------------------
(***************************************************************************)
(* What a command makes of the credentials it read.                        *)
(***************************************************************************)
\* The capacities of a preset are taken as they are; Marshal looks at them.
Presets == DOMAIN Tiers
Terms(tier, notAfter) == [tier |-> tier, notAfter |-> notAfter]

Mint(credentials, id, terms) == Put(credentials, id, terms)

Renew_fromNow(credentials, id, now, extend) ==
  [credentials EXCEPT ![id].notAfter = now + extend]
Renew(credentials, id, now, extend) ==
  LET was == credentials[id].notAfter
      from == IF was < now THEN now ELSE was
  IN  [credentials EXCEPT ![id].notAfter = from + extend]

Revoke(credentials, id) == Without(credentials, {id})

-----------------------------------------------------------------------------
Idle == [step |-> "idle"]
Goes(o, state) == commands' = [commands EXCEPT ![o] = state]

(***************************************************************************)
(* Open and the change, in one step: a file that is not there counts as    *)
(* empty, to be created with a tight mode; one that does not parse is left *)
(* alone.  A circle is named by a typed code; its id, typed as printed,    *)
(* names the same.  `stale` notes that the path changed afterwards.        *)
(***************************************************************************)
Opened == IF file.exists THEN file.credentials ELSE EmptyMap

Begin(o, kind, id, credentials) ==
  /\ begun < MaxCommands
  /\ commands[o] = Idle
  /\ file.exists => Parses(file)
  /\ begun' = begun + 1
  /\ Goes(o, [step |-> "opened", kind |-> kind, id |-> id, credentials |-> credentials,
              mode |-> IF file.exists THEN file.mode ELSE "tight",
              existed |-> file.exists, stale |-> FALSE])
  /\ UNCHANGED <<file, disk, relay, hangup, promised, unheard, undone, provided, faults>>

BeginMint(o, id, now, days, tier) ==
  /\ id \notin DOMAIN Opened
  /\ Begin(o, "mint", id, Mint(Opened, id, Terms(tier, now + window(days))))

BeginRenew(o, typed, now, days) ==
  LET id == CredentialFromCode(typed)
  IN  /\ id \in DOMAIN Opened
      /\ window(days) > 0
      /\ Begin(o, "renew", id, Renew(Opened, id, now, window(days)))

BeginRevoke(o, typed) ==
  LET id == CredentialFromCode(typed)
  IN  /\ id \in DOMAIN Opened
      /\ Begin(o, "revoke", Meant[typed], Revoke(Opened, id))

(***************************************************************************)
(* Save.  Marshal refuses what the relay would not load; then a temporary  *)
(* file gets the mode Open saw and the owner the path has by now, is       *)
(* written, synced and closed, and renamed.                                *)
(***************************************************************************)
\* Marshal: the relay's own parser has to take what was rendered.
Marshals(credentials) == \A id \in DOMAIN credentials : validateCredential(credentials[id])

adoptOwner_never(command) == "operator"
adoptOwner(command) == IF command.existed THEN file.owner ELSE "operator"

Sync_skipped(temp) == temp
Sync(temp) == [temp EXCEPT !.synced = TRUE]

WriteTemp(o) ==
  /\ commands[o].step = "opened"
  /\ Marshals(commands[o].credentials)
  /\ Goes(o, [step |-> "written", kind |-> commands[o].kind, id |-> commands[o].id,
              stale |-> commands[o].stale,
              temp |-> Sync([exists |-> TRUE, credentials |-> commands[o].credentials,
                             whole |-> TRUE, mode |-> commands[o].mode,
                             owner |-> adoptOwner(commands[o]), synced |-> FALSE])])
  /\ UNCHANGED <<file, disk, relay, hangup, promised, unheard, undone, provided, begun, faults>>

\* The path changes: commands under way have seen, or saved, an older file.
Outdated(running) ==
  [o \in Operators |-> IF o \in running /\ commands[o] # Idle
                       THEN [commands[o] EXCEPT !.stale = TRUE] ELSE commands[o]]

Rename(o) ==
  /\ commands[o].step = "written"
  /\ file' = commands[o].temp
  /\ undone' = (undone \/ commands[o].stale)
  /\ promised' = IF commands[o].kind = "revoke" THEN Without(promised, {commands[o].id})
                 ELSE promised
  /\ commands' = [Outdated(Operators \ {o}) EXCEPT ![o] =
       [step |-> "saved", kind |-> @.kind, id |-> @.id, stale |-> FALSE,
        notAfter |-> IF @.kind = "revoke" THEN 0 ELSE @.temp.credentials[@.id].notAfter]]
  /\ UNCHANGED <<disk, relay, hangup, unheard, provided, begun, faults>>

\* The command prints what it did, news unless another one saved meanwhile.
Report(o) ==
  /\ commands[o].step = "saved"
  /\ promised' = IF commands[o].kind = "revoke" \/ commands[o].stale THEN promised
                 ELSE Put(promised, commands[o].id, commands[o].notAfter)
  /\ Goes(o, Idle)
  /\ UNCHANGED <<file, disk, relay, hangup, unheard, undone, provided, begun, faults>>

\* Marshal refuses or a step of Save fails, which removes the temporary file; or
\* the command is killed, at the latest before it prints.
Abort(o) ==
  /\ commands[o] # Idle
  /\ Goes(o, Idle)
  /\ UNCHANGED <<file, disk, relay, hangup, promised, unheard, undone, provided, begun, faults>>

-----------------------------------------------------------------------------
(***************************************************************************)
(* The box: the administrator hands the file to the relay's user or makes  *)
(* it readable; the file system writes renames back when it likes.         *)
(***************************************************************************)
Provide ==
  /\ file.exists /\ ~RelayMayRead(file)
  /\ file' \in {[file EXCEPT !.owner = "relay"], [file EXCEPT !.mode = "shared"]}
  /\ commands' = Outdated(Operators)
  /\ provided' = TRUE
  /\ UNCHANGED <<disk, relay, hangup, promised, unheard, undone, begun, faults>>

WriteBack ==
  /\ disk # file
  /\ file' = [file EXCEPT !.synced = TRUE]
  /\ disk' = file'
  /\ UNCHANGED <<commands, relay, hangup, promised, unheard, undone, provided, begun, faults>>

Off == [up |-> FALSE, loaded |-> EmptyMap, step |-> "idle", read |-> NoFile]

PowerCut ==
  /\ faults < MaxFaults
  /\ \E left \in {disk, IF file.exists THEN [file EXCEPT !.whole = @ /\ file.synced] ELSE file} :
       /\ file' = left
       /\ disk' = left
       /\ undone' = (undone \/ left # file)
  /\ commands' = [o \in Operators |-> Idle]
  /\ relay' = Off /\ hangup' = FALSE /\ unheard' = FALSE
  /\ faults' = faults + 1
  /\ UNCHANGED <<promised, provided, begun>>

-----------------------------------------------------------------------------
(***************************************************************************)
(* The relay.                                                              *)
(***************************************************************************)
\* LoadFile at boot; anything it cannot use ends the process with status 2.
Boot ==
  /\ ~relay.up
  /\ Loads(file)
  /\ relay' = [Off EXCEPT !.up = TRUE, !.loaded = file.credentials]
  /\ UNCHANGED <<file, disk, commands, hangup, promised, unheard, undone, provided, begun,
                 faults>>

Stop ==
  /\ faults < MaxFaults
  /\ relay.up
  /\ relay' = Off /\ hangup' = FALSE /\ unheard' = FALSE
  /\ faults' = faults + 1
  /\ UNCHANGED <<file, disk, commands, promised, undone, provided, begun>>

\* The runtime offers the signal to the channel and does not wait.
Notify_unbuffered(busy) == ~busy
Notify(busy) == TRUE

Hangup ==
  /\ relay.up
  /\ hangup' = (hangup \/ Notify(relay.step # "idle"))
  /\ unheard' = TRUE
  /\ UNCHANGED <<file, disk, commands, relay, promised, undone, provided, begun, faults>>

\* The reloader takes a signal and reads the file,
TakeAndRead ==
  /\ relay.up /\ relay.step = "idle" /\ hangup
  /\ hangup' = FALSE
  /\ unheard' = FALSE
  /\ relay' = [relay EXCEPT !.step = "deciding", !.read = file]
  /\ UNCHANGED <<file, disk, commands, promised, undone, provided, begun, faults>>

\* and replaces the loaded set, or keeps it when the file will not do.
Apply ==
  /\ relay.step = "deciding"
  /\ relay' = [relay EXCEPT !.step = "idle", !.read = NoFile,
                            !.loaded = IF Loads(relay.read) THEN relay.read.credentials ELSE @]
  /\ UNCHANGED <<file, disk, commands, hangup, promised, unheard, undone, provided, begun,
                 faults>>

-----------------------------------------------------------------------------
\* A box without a credential file yet, and one that serves a first circle.
Init ==
  /\ file \in {NoFile, [exists |-> TRUE, credentials |-> FirstCredentials, whole |-> TRUE,
                       mode |-> "tight", owner |-> "relay", synced |-> TRUE]}
  /\ disk = file
  /\ commands = [o \in Operators |-> Idle]
  /\ relay = Off
  /\ hangup = FALSE /\ unheard = FALSE /\ undone = FALSE
  /\ promised = [id \in DOMAIN Opened |-> Opened[id].notAfter]
  /\ provided = file.exists
  /\ begun = 0 /\ faults = 0

Next ==
  \/ \E o \in Operators :
       \/ \E now \in Readings, days \in Days :
            \/ \E id \in Codes, tier \in Presets : BeginMint(o, id, now, days, tier)
            \/ \E typed \in Typings : BeginRenew(o, typed, now, days)
       \/ \E typed \in Typings : BeginRevoke(o, typed)
       \/ WriteTemp(o) \/ Rename(o) \/ Report(o) \/ Abort(o)
  \/ Provide \/ WriteBack \/ PowerCut
  \/ Boot \/ Stop \/ Hangup \/ TakeAndRead \/ Apply

Spec == Init /\ [][Next]_vars

\* The reloader's goroutine runs whenever a signal is waiting for it.
FairSpec == Spec /\ WF_vars(TakeAndRead \/ Apply)

-----------------------------------------------------------------------------
(***************************************************************************)
(* Properties.                                                             *)
(***************************************************************************)
(***************************************************************************)
(* Whatever was killed, failed or lost power, and whoever else was saving, *)
(* the path names no file or a whole one that the relay's parser accepts;  *)
(* and once the relay was given access it keeps it, as long as no command  *)
(* overlapped with another and no power cut took a rename back (undone).   *)
(* A relay that enforces admission still refuses a file without            *)
(* credentials.                                                            *)
(***************************************************************************)
FileLoads ==
  /\ file.exists => Parses(file)
  /\ provided /\ ~undone => RelayMayRead(file)

(***************************************************************************)
(* A circle keeps what it was told: the code that mint printed is in the   *)
(* file, with at least the window last printed for it, until that code is  *)
(* revoked, however it was typed on the way; unless two commands           *)
(* overlapped or the power went before a rename reached the disk.          *)
(***************************************************************************)
PromiseKept ==
  ~undone => \A id \in DOMAIN promised :
               /\ id \in DOMAIN Opened
               /\ Opened[id].notAfter >= promised[id]

(***************************************************************************)
(* Every SIGHUP takes effect, also one that arrives while an earlier one   *)
(* is being worked off: what the file says of a circle at that time is     *)
(* what the relay comes to enforce, unless the file changes again, cannot  *)
(* be loaded, or the relay goes down.                                      *)
(***************************************************************************)
HangupHeard ==
  \A id \in Codes :
    /\ unheard /\ id \in DOMAIN Opened ~>
         (id \in DOMAIN relay.loaded \/ id \notin DOMAIN Opened \/ ~Loads(file) \/ ~relay.up)
    /\ unheard /\ id \notin DOMAIN Opened ~>
         (id \notin DOMAIN relay.loaded \/ id \in DOMAIN Opened \/ ~Loads(file) \/ ~relay.up)
=============================================================================
