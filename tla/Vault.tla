--------------------------------- MODULE Vault ---------------------------------
(***************************************************************************)
(* What the app keeps sealed on the device (app/src-tauri/src/keystore.rs, *)
(* vault.rs, profile.rs; public/vault.js): the keys in the platform's      *)
(* keychain, the chats under one of them, the profile with the phrase      *)
(* under the other, and the move of the chats of older versions out of     *)
(* IndexedDB.  The app may stop between any two steps; keychain and disk   *)
(* may refuse one.                                                         *)
(*                                                                         *)
(* A phrase and a version of a chat are numbers; a thing sealed under key  *)
(* Clear is in the clear.  A rename is one step; a stop between a write to *)
(* a temporary file and its rename leaves what was there.                  *)
(***************************************************************************)
EXTENDS Integers, FiniteSets

CONSTANTS
  Chats,
  Commands,   \* commands of the app that may work on the profile side by side
  Platforms,  \* a subset of {"desktop", "ios", "android", "dev"}
  MaxEdits,   \* bound: what the person writes, deletes or chooses
  MaxFaults,  \* bound: what the keychain or the disk refuses
  MaxStops    \* bound: stops of the app

ASSUME VaultAssumption ==
  /\ Platforms \subseteq {"desktop", "ios", "android", "dev"}
  /\ "page" \notin Commands
  /\ {MaxEdits, MaxFaults, MaxStops} \subseteq Nat

VARIABLES
  platform,
  ring,     \* the key the keychain (on a phone: or the wrapped file) has of each account
  marked,   \* the accounts whose item was made this device's only
  cache,    \* KEY: the vault's key, once it was fetched
  files,    \* <data_dir>/vault: each chat's file
  legacy,   \* IndexedDB: whether it is there, its key, its chats
  profile,  \* profile.json
  aside,    \* the profiles that were moved aside
  page,     \* vault.js: where its init is
  work,     \* the page's first call and each command: where it is, and what it has in hand
  used,     \* counts under the bounds
  history   \* what the person has: chats and phrase; and what was lost on the way

vars == <<platform, ring, marked, cache, files, legacy, profile, aside, page, work, used, history>>
keys == <<ring, marked>>

None == 0
Clear == 0
Envelope(key, text) == [key |-> key, text |-> text]
NoFile == Envelope(Clear, None)
\* What an older version left: its keys.
Older == [ring |-> [vault |-> 1, profile |-> 2], key |-> 2]
Workers == Commands \cup {"page"}
Account(a) == IF a = "page" THEN "vault" ELSE "profile"
Resting == [at |-> "idle", what |-> "nothing", key |-> None, raw |-> NoFile, text |-> None]
Shut == [at |-> "shut", todo |-> {}, moved |-> {}, failed |-> FALSE]
Uses(what, bound) == used[what] < bound /\ used' = [used EXCEPT ![what] = @ + 1]
Fault == Uses("faults", MaxFaults)
Goes(a, at) == work' = [work EXCEPT ![a].at = at]

-----------------------------------------------------------------------------
(* The keys.  `get` reads the item; what follows depends on the platform.  *)

Fresh == used.keys + 1

\* What becomes of a key fetched: the page caches it, a command goes on with it.
Fetched(a, key) ==
  /\ work' = [work EXCEPT ![a].at = "has", ![a].key = key]
  /\ UNCHANGED <<platform, cache, files, legacy, profile, aside, page>>

\* An item of an older version is of a class that backups carry.
ToMakeOver(a) == platform = "ios" /\ Account(a) \notin marked

\* The account's key is lost if what is put in its place, or taken out, is another.
Loses(a, mine) ==
  history' = [history EXCEPT !.lost = @ \cup (IF ring[Account(a)] \in {None, mine} THEN {} ELSE {Account(a)})]

Get(a) ==
  /\ work[a].at = "get" /\ ring[Account(a)] # None /\ ~ToMakeOver(a)
  /\ Fetched(a, ring[Account(a)])
  /\ UNCHANGED <<keys, used, history>>

\* No item yet: a key is made, and put there in a step of its own.
GetNone(a) ==
  /\ work[a].at = "get" /\ ring[Account(a)] = None
  /\ Goes(a, "set")
  /\ UNCHANGED <<platform, keys, cache, files, legacy, profile, aside, page, used, history>>

\* wrapped_key and dev_key take a file that cannot be read for one that is not there.
GetUnread(a) ==
  /\ platform \in {"android", "dev"} /\ work[a].at = "get" /\ ring[Account(a)] # None
  /\ Fault /\ Goes(a, "set")
  /\ UNCHANGED <<platform, keys, cache, files, legacy, profile, aside, page, history>>

\* device_only: an item made now is of the class that stays on this device.
DeviceOnly(a) == marked' = IF platform = "ios" THEN marked \cup {Account(a)} ELSE marked

Set(a) ==
  /\ work[a].at = "set"
  /\ ring' = [ring EXCEPT ![Account(a)] = Fresh]
  /\ DeviceOnly(a)
  /\ used' = [used EXCEPT !.keys = Fresh]
  /\ Loses(a, None)
  /\ Fetched(a, Fresh)

\* device_only_key: the item is read, ...
ReadOld(a) ==
  /\ work[a].at = "get" /\ ring[Account(a)] # None /\ ToMakeOver(a)
  /\ work' = [work EXCEPT ![a].at = "read", ![a].key = ring[Account(a)]]
  /\ UNCHANGED <<platform, keys, cache, files, legacy, profile, aside, page, used, history>>

\* ... taken out of the keychain, whichever it is by now, ...
TakeOut(a) ==
  /\ work[a].at = "read"
  /\ ring' = [ring EXCEPT ![Account(a)] = None]
  /\ Goes(a, "over") /\ Loses(a, work[a].key)
  /\ UNCHANGED <<platform, marked, cache, files, legacy, profile, aside, page, used>>

\* ... and put back as this device's only.
PutBack(a) ==
  /\ work[a].at = "over"
  /\ ring' = [ring EXCEPT ![Account(a)] = work[a].key]
  /\ DeviceOnly(a) /\ Loses(a, work[a].key)
  /\ Fetched(a, work[a].key)
  /\ UNCHANGED used

-----------------------------------------------------------------------------
(* The profile: each command loads all of it and saves all of it.          *)

Phrases == 1..(MaxEdits + 1)
\* What there is to a command: account_new and account_restore, account_delete, a
\* setting, or a look.
Kinds == {"new", "delete", "setting", "look"}

\* load, to the point where it knows whether it needs the key.
Begin(a, what) ==
  /\ page.at # "shut" /\ work[a].at = "idle"
  /\ what # "look" => used.edits < MaxEdits
  /\ used' = [used EXCEPT !.edits = IF what = "look" THEN @ ELSE @ + 1]
  /\ work' = [work EXCEPT ![a] =
       [at |-> IF profile.key = Clear THEN "loaded" ELSE "get", what |-> what, key |-> None,
        raw |-> profile, text |-> profile.text]]
  /\ history' = [history EXCEPT !.stale = @ \ {a}]
  /\ UNCHANGED <<platform, keys, cache, files, legacy, profile, aside, page>>

\* What load does with a file it cannot read.
Unreadable == aside' = aside \cup {profile} /\ profile' = NoFile
Unreadable_Stays == UNCHANGED <<aside, profile>>  \* a bug: it stays, and is written over

MovesAside == Unreadable

\* load with the key in hand.
Load(a) ==
  /\ a \in Commands /\ work[a].at = "has" /\ work[a].raw # NoFile
  /\ IF work[a].raw.key = work[a].key
     THEN Goes(a, "loaded") /\ UNCHANGED <<profile, aside>>
     ELSE /\ work' = [work EXCEPT ![a].at = "loaded", ![a].text = None]
          /\ MovesAside
  /\ UNCHANGED <<platform, keys, cache, files, legacy, page, used, history>>

\* What the command makes of what it loaded; save asks for the key again.
Change(a) ==
  LET have == work[a].text
      text == CASE work[a].what = "new" -> used.phrases + 1
                [] work[a].what = "delete" -> None
                [] OTHER -> have
  IN /\ work[a].at = "loaded"
     /\ IF work[a].what = "look"
        THEN work' = [work EXCEPT ![a] = Resting] /\ UNCHANGED used
        ELSE /\ work' = [work EXCEPT ![a].at = "get", ![a].raw = NoFile, ![a].text = text, ![a].key = None]
             /\ used' = [used EXCEPT !.phrases = IF work[a].what = "new" THEN @ + 1 ELSE @]
     /\ UNCHANGED <<platform, keys, cache, files, legacy, profile, aside, page, history>>

\* write_atomic: a temporary file, of one name for all of the app's commands, ...
Written(a) == Envelope(work[a].key, work[a].text)
WriteProfile(a) ==
  /\ a \in Commands /\ work[a].at = "has" /\ work[a].raw = NoFile
  /\ Goes(a, "write")
  /\ history' = [history EXCEPT !.mixed = @ \/ \E b \in Commands : work[b].at = "write"]
  /\ UNCHANGED <<platform, keys, cache, files, legacy, profile, aside, page, used>>

\* ... and its rename: all of it or nothing.  Once two commands have written the temporary
\* file at once, a rename may find either's, a mixture no key of the profile opens, or none.
Scrambled == Envelope(Older.ring.vault, None)
Replaces(a) ==
  IF history.mixed
  THEN profile' \in {profile, Scrambled} \cup {Written(b) : b \in {c \in Commands : work[c].at = "write"}}
  ELSE profile' = Written(a)

\* save.  Commands that have loaded what is replaced here work on a stale profile from now
\* on; what a stale one replaces is another command's.
SaveProfile(a) ==
  /\ a \in Commands /\ work[a].at = "write"
  /\ Replaces(a)
  /\ history' = [history EXCEPT
       !.phrase = IF work[a].what = "setting" THEN @ ELSE work[a].text,
       !.stale = Commands \ {a},
       !.replaced = IF a \in history.stale THEN @ \cup {profile.text} ELSE @]
  /\ work' = [work EXCEPT ![a] = Resting]
  /\ UNCHANGED <<platform, keys, cache, files, legacy, aside, page, used>>

\* The keychain or the disk refuses: load takes the file for unreadable, save is an error.
Fails(a) ==
  /\ a \in Commands
  /\ IF work[a].raw # NoFile
     THEN /\ work' = [work EXCEPT ![a].at = "loaded", ![a].text = None]
          /\ MovesAside
     ELSE work' = [work EXCEPT ![a] = Resting] /\ UNCHANGED <<profile, aside>>
  /\ UNCHANGED <<platform, cache, files, legacy, page>>

-----------------------------------------------------------------------------
(* The chats.                                                              *)

Opens(c) == files[c].text # None /\ files[c].key \in {Clear, cache}
Listed == {c \in Chats : Opens(c)}
Sealed(text) == Envelope(cache, text)

\* NativeVault.init: the first list, which fetches the key.
FirstList ==
  /\ work["page"].at = "has"
  /\ cache' = work["page"].key
  /\ work' = [work EXCEPT !["page"] = Resting]
  /\ page' = [page EXCEPT !.at = "listed"]
  /\ UNCHANGED <<platform, keys, files, legacy, profile, aside, used, history>>

Unavailable ==
  /\ work' = [work EXCEPT !["page"] = Resting]
  /\ page' = [page EXCEPT !.at = "unavailable"]
  /\ UNCHANGED <<platform, cache, files, legacy, profile, aside>>

\* A bug: a chat of which the vault has a file is moved all the same.
ToMove_All == {c \in Chats : legacy.chats[c] # None}
ToMove == {c \in Chats : legacy.chats[c] # None /\ c \notin Listed}

\* migrateLegacy: what to move; a store with no key is dropped, as is an empty one.
Migrate ==
  /\ page.at = "listed"
  /\ page' = IF ~legacy.there THEN [page EXCEPT !.at = "ready"]
             ELSE IF ~legacy.key THEN [page EXCEPT !.at = "drop"]
             ELSE [page EXCEPT !.at = "move", !.todo = ToMove]
  /\ UNCHANGED <<platform, keys, cache, files, legacy, profile, aside, work, used, history>>

MoveOne(c) ==
  /\ page.at = "move" /\ c \in page.todo
  /\ page' = [page EXCEPT !.todo = @ \ {c}, !.moved = @ \cup {c}]
  /\ files' = [files EXCEPT ![c] = Sealed(legacy.chats[c])]
  /\ UNCHANGED <<platform, keys, cache, legacy, profile, aside, work, used, history>>

MoveFails(c) ==
  /\ page.at = "move" /\ c \in page.todo /\ Fault
  /\ page' = [page EXCEPT !.todo = @ \ {c}, !.failed = TRUE]
  /\ UNCHANGED <<platform, keys, cache, files, legacy, profile, aside, work, history>>

\* The second list: all that was moved must be in it.
Verify ==
  /\ page.at = "move" /\ page.todo = {}
  /\ page' = [Shut EXCEPT !.at = IF page.failed \/ ~(page.moved \subseteq Listed) THEN "ready" ELSE "tombstone"]
  /\ UNCHANGED <<platform, keys, cache, files, legacy, profile, aside, work, used, history>>

\* The old store's key goes before the store; that it could not be deleted stops nothing.
Tombstone ==
  /\ page.at = "tombstone"
  /\ \/ legacy' = [legacy EXCEPT !.key = FALSE] /\ UNCHANGED used
     \/ Fault /\ UNCHANGED legacy
  /\ page' = [page EXCEPT !.at = "drop"]
  /\ UNCHANGED <<platform, keys, cache, files, profile, aside, work, history>>

\* deleteDatabase, and the purge of the webview's data; a blocked one leaves it there.
Drop ==
  /\ page.at = "drop"
  /\ \/ legacy' = [legacy EXCEPT !.there = FALSE] /\ UNCHANGED used
     \/ Fault /\ UNCHANGED legacy
  /\ page' = [page EXCEPT !.at = "ready"]
  /\ UNCHANGED <<platform, keys, cache, files, profile, aside, work, history>>

\* save: what the person wrote is in the vault's file, or there is an error.
Save(c) ==
  /\ page.at = "ready" /\ Uses("edits", MaxEdits)
  /\ files[c].text # None => Opens(c)
  /\ files' = [files EXCEPT ![c] = Sealed(used.edits + 2)]
  /\ history' = [history EXCEPT !.chats[c] = used.edits + 2]
  /\ UNCHANGED <<platform, keys, cache, legacy, profile, aside, page, work>>

Remove(c) ==
  /\ page.at = "ready" /\ c \in Listed /\ Uses("edits", MaxEdits)
  /\ files' = [files EXCEPT ![c] = NoFile]
  /\ history' = [history EXCEPT !.chats[c] = None]
  /\ UNCHANGED <<platform, keys, cache, legacy, profile, aside, page, work>>

-----------------------------------------------------------------------------
(* Starts, stops and faults.                                               *)

Start ==
  /\ page.at = "shut"
  /\ page' = [page EXCEPT !.at = "list"]
  /\ work' = [work EXCEPT !["page"].at = "get"]
  /\ UNCHANGED <<platform, keys, cache, files, legacy, profile, aside, used, history>>

\* A key taken out of the keychain and not put back is gone with the process.
Stop ==
  /\ page.at # "shut" /\ Uses("stops", MaxStops)
  /\ page' = Shut /\ cache' = None
  /\ work' = [a \in Workers |-> Resting]
  /\ history' = [history EXCEPT !.lost = @ \cup {Account(a) : a \in {b \in Workers : work[b].at = "over"}}]
  /\ UNCHANGED <<platform, keys, files, legacy, profile, aside>>

\* The keychain refuses to be read or written, or the profile cannot be written.
Refused(a) ==
  /\ work[a].at \in {"get", "set", "write"}
  /\ Fault /\ UNCHANGED <<keys, history>>
  /\ Fails(a) \/ (a = "page" /\ Unavailable)

\* The new item is refused: the key goes back under the old class, if the keychain takes that.
OverRefused(a) ==
  /\ work[a].at = "over" /\ Fault /\ UNCHANGED marked
  /\ ring' = [ring EXCEPT ![Account(a)] = work[a].key] /\ Loses(a, work[a].key)
  /\ Fails(a) \/ (a = "page" /\ Unavailable)

\* What an installation may be at the first start of this version: new, or with what
\* an older version left.
Init ==
  /\ platform \in Platforms
  /\ \E old \in BOOLEAN :
       /\ ring = IF old /\ platform # "android" THEN Older.ring ELSE [vault |-> None, profile |-> None]
       /\ profile = IF ~old THEN NoFile
                    ELSE Envelope(IF platform = "android" THEN Clear ELSE Older.key, 1)
       /\ history = [chats |-> IF old THEN [c \in Chats |-> 1] ELSE [c \in Chats |-> None],
                     phrase |-> profile.text, lost |-> {},
                     stale |-> {}, replaced |-> {}, mixed |-> FALSE]
       /\ \E there \in BOOLEAN :
            /\ legacy = [there |-> old /\ there, key |-> old /\ there, chats |-> history.chats]
            /\ files = [c \in Chats |-> IF old /\ ~there
                          THEN Envelope(ring["vault"], history.chats[c]) ELSE NoFile]
  /\ marked = {} /\ cache = None /\ aside = {} /\ page = Shut
  /\ work = [a \in Workers |-> Resting]
  /\ used = [edits |-> 0, faults |-> 0, stops |-> 0, keys |-> 2, phrases |-> 1]

Keys(a) ==
  \/ Get(a) \/ GetNone(a) \/ GetUnread(a) \/ Set(a)
  \/ ReadOld(a) \/ TakeOut(a) \/ PutBack(a) \/ Refused(a) \/ OverRefused(a)
Next ==
  \/ \E a \in Workers : Keys(a)
  \/ \E a \in Commands : Load(a) \/ Change(a) \/ WriteProfile(a) \/ SaveProfile(a) \/ \E what \in Kinds : Begin(a, what)
  \/ FirstList \/ Migrate \/ Verify \/ Tombstone \/ Drop
  \/ \E c \in Chats : MoveOne(c) \/ MoveFails(c) \/ Save(c) \/ Remove(c)
  \/ Start \/ Stop

Spec == Init /\ [][Next]_vars

-----------------------------------------------------------------------------
(* Properties.                                                             *)

\* The keys a later start can come by: the keychain's, and one that is in hand to be put back.
Held(acct) ==
  {Clear, ring[acct]} \cup {work[a].key : a \in {b \in Workers : Account(b) = acct /\ work[b].at = "over"}}

\* A chat the person has is never gone: its last version is in the vault under the
\* keychain's key, or still in IndexedDB with the key to it - through every stop of the
\* move, failed writes and a keychain that refuses - unless the key itself was lost
\* (vault.js, `migrateLegacy`: "Idempotent and safe to interrupt").
ChatKept ==
  "vault" \notin history.lost =>
    \A c \in Chats : history.chats[c] # None =>
      \/ files[c].text = history.chats[c] /\ files[c].key \in Held("vault")
      \/ legacy.there /\ legacy.key /\ legacy.chats[c] = history.chats[c]

PhraseFound ==
  "profile" \notin history.lost /\ history.phrase # None =>
    \E p \in {profile} \cup aside : p.text = history.phrase /\ p.key \in Held("profile")

\* The phrase is never gone: it is in the profile, or in one moved aside, under the
\* keychain's key, whatever was refused, wherever the app stopped and however many commands
\* are at the profile at once - unless the key itself was lost, a command saved over it what
\* it had made of an older profile, or two wrote their file at once (profile.rs, `load`:
\* "moved aside, never overwritten: it holds the phrase").
PhraseKept == ~history.mixed /\ history.phrase \notin history.replaced => PhraseFound

\* No key is lost: not by a stop, not by a file that could not be read, not by two
\* commands that make one each (keystore.rs, `device_only_key`: "a failure in between
\* puts them back under the old class rather than losing them").
KeysKept == history.lost = {}

\* A profile whose key the keychain has is not moved aside.
AsideOnlyUnreadable ==
  [][aside' # aside => \A p \in aside' \ aside : p.key \notin Held("profile")]_vars

\* A chat the person deleted does not come back.
DeletedStays ==
  \A c \in Chats : history.chats[c] = None => files[c].text = None

=============================================================================
