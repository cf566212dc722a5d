----------------------------- MODULE Vault_proofs -----------------------------
(***************************************************************************)
(* What the app keeps sealed is not lost but with its key: the chats over  *)
(* any stop of their move; the phrase over any number of commands at the   *)
(* profile at once, until one saves what it made of an older profile.      *)
(*                                                                         *)
(* A worker's step with the keychain comes down to two values (`Handles`): *)
(* what the worker has then, and what the keychain has.                    *)
(***************************************************************************)
EXTENDS Vault, TLAPS

Envelopes == [key : Nat, text : Nat]
Accounts == {"vault", "profile"}
Ats == {"idle", "get", "set", "read", "over", "has", "loaded", "write"}
Works == [at : Ats, what : Kinds \cup {"nothing"}, key : Nat, raw : Envelopes, text : Nat]
After == {"listed", "move", "tombstone", "drop", "ready"}
PageAts == {"shut", "list", "unavailable"} \cup After
Pages == [at : PageAts, todo : SUBSET Chats, moved : SUBSET Chats, failed : BOOLEAN]
Rings == [vault : Nat, profile : Nat]
Useds == [edits : Nat, faults : Nat, stops : Nat, keys : Nat, phrases : Nat]
Histories == [chats : [Chats -> Nat], phrase : Nat, lost : SUBSET Accounts,
              stale : SUBSET Commands, replaced : SUBSET Nat, mixed : BOOLEAN]
Types ==
  /\ ring \in Rings /\ cache \in Nat
  /\ files \in [Chats -> Envelopes]
  /\ legacy \in [there : BOOLEAN, key : BOOLEAN, chats : [Chats -> Nat]]
  /\ profile \in Envelopes /\ aside \subseteq Envelopes
  /\ page \in Pages
  /\ work \in [Workers -> Works]
  /\ used \in Useds
  /\ history \in Histories

\* The keys a later start comes by, as far as one worker has to do with them: the
\* keychain's, and one it has taken out.
HeldOf(w, k) == {Clear, k} \cup (IF w.at = "over" THEN {w.key} ELSE {})
\* What the worker has just fetched is the keychain's.
KeyFits(w, k) == w.at = "has" => w.key = k

LEMMA Grounds == NoFile \in Envelopes /\ Resting \in Works /\ Shut \in Pages /\ "page" \notin Commands
  /\ Resting.at = "idle" /\ Shut.at = "shut" /\ NoFile.key = Clear /\ NoFile.text = None /\ Clear = 0 /\ None = 0
BY VaultAssumption DEF NoFile, Envelope, Envelopes, Resting, Works, Ats, Shut, Pages, PageAts, Clear, None

LEMMA Accounting == /\ Account("page") = "vault"
                    /\ \A a \in Commands : Account(a) = "profile" /\ a # "page"
                    /\ \A a \in Workers : a \in Commands \/ a = "page"
BY Grounds DEF Account, Workers

\* The page alone has to do with the vault's key.
LEMMA VaultHeld == Held("vault") = HeldOf(work["page"], ring["vault"])
BY Accounting DEF Held, HeldOf, Workers

\* A command that loses no key of its own loses none of the profile's.
LEMMA ProfileHeld ==
  ASSUME NEW a \in Commands, NEW w, NEW k, work' = [work EXCEPT ![a] = w], work \in [Workers -> Works],
         ring'["profile"] = k, HeldOf(work[a], ring["profile"]) \subseteq HeldOf(w, k)
  PROVE  Held("profile") \subseteq Held("profile")'
<1>1. \A b \in Workers : Account(b) = "profile" <=> b \in Commands
  BY Accounting
<1>2. work'[a] = w /\ \A b \in Workers : b # a => work'[b] = work[b]
  BY DEF Workers
<1>3. HeldOf(w, k) \subseteq Held("profile")'
  BY <1>1, <1>2 DEF Held, HeldOf, Workers
<1>4. ASSUME NEW key \in Held("profile")
      PROVE  key \in Held("profile")'
  <2>1. CASE key \in {Clear, ring["profile"]}
    BY <1>3, <2>1 DEF HeldOf
  <2>2. ASSUME NEW b \in Workers, Account(b) = "profile", work[b].at = "over", key = work[b].key
        PROVE  key \in Held("profile")'
    <3>1. CASE b = a
      BY <1>3, <2>2, <3>1 DEF HeldOf
    <3>2. CASE b # a
      BY <1>2, <2>2, <3>2 DEF Held
    <3> QED BY <3>1, <3>2
  <2> QED BY <1>4, <2>1, <2>2 DEF Held
<1> QED BY <1>4

-----------------------------------------------------------------------------
(* A worker and the keychain.                                              *)

\* History is of a key lost at most.
OnlyLoses ==
  /\ history' \in Histories /\ history.lost \subseteq history'.lost
  /\ history'.chats = history.chats /\ history'.phrase = history.phrase
  /\ history'.stale = history.stale /\ history'.replaced = history.replaced /\ history'.mixed = history.mixed

Handles(a, w, k) ==
  /\ w \in Works /\ k \in Nat
  /\ work' = [work EXCEPT ![a] = w]
  /\ ring' = [ring EXCEPT ![Account(a)] = k]
  /\ UNCHANGED <<cache, files, legacy>> /\ used' \in Useds
  /\ OnlyLoses
  /\ work[a].at \in {"get", "set", "read", "over", "write"} /\ w.at # "write"
  /\ \/ page' = page
     \/ a = "page" /\ page' = [page EXCEPT !.at = "unavailable"] /\ w = Resting
  /\ \/ profile' = profile /\ aside' = aside /\ w = Resting
     \/ /\ profile' = profile /\ aside' = aside
        /\ w.at # "loaded" /\ w.what = work[a].what /\ w.raw = work[a].raw /\ w.text = work[a].text
     \/ /\ a \in Commands /\ aside' = aside \cup {profile} /\ profile' = NoFile
        /\ w.at = "loaded" /\ w.text = None

Secure(a, w, k) ==
  Account(a) \notin history'.lost =>
    KeyFits(w, k) /\ HeldOf(work[a], ring[Account(a)]) \subseteq HeldOf(w, k)

\* The keychain is not written: what it has is what it had.
LEMMA SameRing ==
  ASSUME Types, NEW a \in Workers
  PROVE  /\ ring = [ring EXCEPT ![Account(a)] = ring[Account(a)]] /\ ring[Account(a)] \in Nat
         /\ \A k \in Nat : [ring EXCEPT ![Account(a)] = k] \in Rings /\ [ring EXCEPT ![Account(a)] = k][Account(a)] = k
         /\ Account(a) \in Accounts /\ work[a] \in Works
<1>1. CASE a = "page"
  BY <1>1, Accounting DEF Types, Rings, Accounts
<1>2. CASE a \in Commands
  BY <1>2, Accounting DEF Types, Rings, Accounts
<1> QED BY <1>1, <1>2, Accounting

LEMMA Using ==
  ASSUME Types, NEW what \in {"edits", "faults", "stops"}, NEW bound, Uses(what, bound)
  PROVE  used' \in Useds
<1>1. used' = [used EXCEPT ![what] = @ + 1] /\ used \in Useds
  BY DEF Uses, Types
<1>2. CASE what = "edits"
  BY <1>1, <1>2 DEF Useds
<1>3. CASE what = "faults"
  BY <1>1, <1>3 DEF Useds
<1>4. CASE what = "stops"
  BY <1>1, <1>4 DEF Useds
<1> QED BY <1>2, <1>3, <1>4

\* The keychain or the disk refuses a command, or the page: nothing comes to be in hand.
LEMMA Refusing ==
  ASSUME Types, NEW a \in Workers, Fails(a) \/ (a = "page" /\ Unavailable), Fault
  PROVE  \E w \in Works :
           /\ work' = [work EXCEPT ![a] = w] /\ w.at \in {"idle", "loaded"}
           /\ UNCHANGED <<cache, files, legacy>> /\ used' \in Useds
           /\ page' = page \/ (a = "page" /\ page' = [page EXCEPT !.at = "unavailable"] /\ w = Resting)
           /\ \/ profile' = profile /\ aside' = aside /\ w = Resting
              \/ /\ a \in Commands /\ aside' = aside \cup {profile} /\ profile' = NoFile
                 /\ w.at = "loaded" /\ w.text = None
<1>1. work[a] \in Works /\ work \in [Workers -> Works] /\ used' \in Useds
  BY Using DEF Types, Fault
<1>2. CASE a = "page" /\ Unavailable
  BY <1>1, <1>2, Grounds DEF Unavailable
<1>3. CASE Fails(a) /\ work[a].raw = NoFile
  BY <1>1, <1>3, Grounds DEF Fails
<1>4. CASE Fails(a) /\ work[a].raw # NoFile
  <2> DEFINE w == [work[a] EXCEPT !.at = "loaded", !.text = None]
  <2>1. w \in Works /\ w.at = "loaded" /\ w.text = None
    <3>1. None \in Nat /\ "loaded" \in Ats
      BY Grounds DEF Ats
    <3> QED BY <1>1, <3>1 DEF Works
  <2>2. work' = [work EXCEPT ![a] = w]
    BY <1>1, <1>4 DEF Fails, Works
  <2> HIDE DEF w
  <2> QED BY <1>1, <1>4, <2>1, <2>2 DEF Fails, MovesAside, Unreadable
<1> QED BY <1>2, <1>3, <1>4

\* A step with the keychain that leaves the rest alone.
Touches(a, at, key, k) ==
  /\ key \in Nat /\ k \in Nat
  /\ work[a].at \in {"get", "set", "read", "over"}
  /\ work' = [work EXCEPT ![a].at = at, ![a].key = key] /\ ring' = [ring EXCEPT ![Account(a)] = k]
  /\ UNCHANGED <<cache, files, legacy, page, profile, aside>> /\ used' \in Useds
  /\ OnlyLoses

LEMMA Handled ==
  ASSUME Types, NEW a \in Workers, NEW at \in {"set", "read", "over", "has"}, NEW key, NEW k, Touches(a, at, key, k)
  PROVE  \E w : Handles(a, w, k) /\ w.at = at /\ w.key = key
<1> DEFINE w == [work[a] EXCEPT !.at = at, !.key = key]
<1>1. work[a] \in Works /\ work \in [Workers -> Works]
  BY DEF Types
<1>2. w \in Works /\ w.at = at /\ w.key = key /\ w.what = work[a].what /\ w.raw = work[a].raw /\ w.text = work[a].text
  BY <1>1 DEF Works, Ats, Touches
<1>3. work' = [work EXCEPT ![a] = w]
  BY <1>1 DEF Works, Touches
<1> HIDE DEF w
<1>4. Handles(a, w, k)
  BY <1>2, <1>3 DEF Handles, Touches
<1> QED BY <1>2, <1>4

LEMMA Keying ==
  ASSUME Types, NEW a \in Workers, Keys(a)
  PROVE  \E w, k : Handles(a, w, k) /\ Secure(a, w, k)
<1> DEFINE r == ring[Account(a)]
<1>1. /\ r \in Nat /\ ring = [ring EXCEPT ![Account(a)] = r] /\ Account(a) \in Accounts
      /\ work[a] \in Works /\ work \in [Workers -> Works] /\ history \in Histories /\ used \in Useds
  BY SameRing DEF Types
<1>2. work[a].key \in Nat
  BY <1>1 DEF Works
<1>0. history' = history => OnlyLoses
  BY <1>1 DEF OnlyLoses
<1>12. ASSUME NEW mine, Loses(a, mine)
       PROVE  OnlyLoses /\ (r \notin {None, mine} => Account(a) \in history'.lost)
  BY <1>1, <1>12 DEF Loses, OnlyLoses, Histories, r
<1> HIDE DEF r
<1>3. CASE Get(a)
  <2>1. /\ work' = [work EXCEPT ![a].at = "has", ![a].key = r] /\ work[a].at = "get" /\ ring' = ring
        /\ UNCHANGED <<cache, files, legacy, page, profile, aside, used, history>>
    BY <1>3 DEF Get, Fetched, keys, r
  <2>2. PICK w : Handles(a, w, r) /\ w.at = "has" /\ w.key = r
    <3>1. Touches(a, "has", r, r)
      BY <1>0, <1>1, <2>1 DEF Touches
    <3> QED BY <3>1, Handled
  <2>3. Secure(a, w, r)
    BY <2>1, <2>2 DEF Secure, KeyFits, HeldOf, r
  <2> QED BY <2>2, <2>3
<1>4. CASE GetNone(a) \/ GetUnread(a)
  <2>1. /\ work' = [work EXCEPT ![a].at = "set"] /\ work[a].at = "get" /\ ring' = ring
        /\ UNCHANGED <<cache, files, legacy, page, profile, aside, history>>
    BY <1>4 DEF GetNone, GetUnread, keys, Goes
  <2>2. used' \in Useds
    BY <1>1, <1>4, Using DEF GetNone, GetUnread, Fault
  <2>3. work' = [work EXCEPT ![a].at = "set", ![a].key = work[a].key]
    BY <1>1, <2>1 DEF Works
  <2>4. PICK w : Handles(a, w, r) /\ w.at = "set" /\ w.key = work[a].key
    <3>1. Touches(a, "set", work[a].key, r)
      BY <1>0, <1>1, <1>2, <2>1, <2>2, <2>3 DEF Touches
    <3> QED BY <3>1, Handled
  <2>5. Secure(a, w, r)
    BY <2>1, <2>4 DEF Secure, KeyFits, HeldOf, r
  <2> QED BY <2>4, <2>5
<1>5. CASE Set(a)
  <2>1. /\ work' = [work EXCEPT ![a].at = "has", ![a].key = Fresh] /\ work[a].at = "set"
        /\ ring' = [ring EXCEPT ![Account(a)] = Fresh]
        /\ used' = [used EXCEPT !.keys = Fresh] /\ Loses(a, None)
        /\ UNCHANGED <<cache, files, legacy, page, profile, aside>>
    BY <1>5 DEF Set, Fetched
  <2>2. Fresh \in Nat
    BY <1>1 DEF Fresh, Useds
  <2>3. used' \in Useds
    BY <1>1, <2>1, <2>2 DEF Useds
  <2>4. OnlyLoses /\ (r # None => Account(a) \in history'.lost)
    BY <1>12, <2>1
  <2>5. PICK w : Handles(a, w, Fresh) /\ w.at = "has" /\ w.key = Fresh
    <3>1. Touches(a, "has", Fresh, Fresh)
      BY <2>1, <2>2, <2>3, <2>4 DEF Touches
    <3> QED BY <3>1, Handled
  <2>6. Secure(a, w, Fresh)
    BY <2>1, <2>4, <2>5, Grounds DEF Secure, KeyFits, HeldOf, r
  <2> QED BY <2>5, <2>6
<1>6. CASE ReadOld(a)
  <2>1. /\ work' = [work EXCEPT ![a].at = "read", ![a].key = r] /\ work[a].at = "get" /\ ring' = ring
        /\ UNCHANGED <<cache, files, legacy, page, profile, aside, used, history>>
    BY <1>6 DEF ReadOld, keys, r
  <2>2. PICK w : Handles(a, w, r) /\ w.at = "read" /\ w.key = r
    <3>1. Touches(a, "read", r, r)
      BY <1>0, <1>1, <2>1 DEF Touches
    <3> QED BY <3>1, Handled
  <2>3. Secure(a, w, r)
    BY <2>1, <2>2 DEF Secure, KeyFits, HeldOf, r
  <2> QED BY <2>2, <2>3
<1>7. CASE TakeOut(a)
  <2> DEFINE key == work[a].key
  <2>1. /\ work' = [work EXCEPT ![a].at = "over"] /\ work[a].at = "read" /\ Loses(a, key)
        /\ ring' = [ring EXCEPT ![Account(a)] = None]
        /\ UNCHANGED <<cache, files, legacy, page, profile, aside, used>>
    BY <1>7 DEF TakeOut, Goes
  <2>2. work' = [work EXCEPT ![a].at = "over", ![a].key = key]
    BY <1>1, <2>1 DEF Works
  <2>3. OnlyLoses /\ (r \notin {None, key} => Account(a) \in history'.lost)
    BY <1>12, <2>1
  <2>4. PICK w : Handles(a, w, None) /\ w.at = "over" /\ w.key = key
    <3>1. work' = [work EXCEPT ![a].at = "over", ![a].key = work[a].key]
      BY <2>2
    <3>2. None \in Nat /\ work[a].key \in Nat
      BY <1>2 DEF None
    <3>3. ring' = [ring EXCEPT ![Account(a)] = None] /\ work[a].at = "read"
      BY <2>1
    <3>4. UNCHANGED <<cache, files, legacy, page, profile, aside>> /\ used' \in Useds
      BY <1>1, <2>1
    <3>5. OnlyLoses
      BY <2>3
    <3>6. Touches(a, "over", work[a].key, None)
      BY <3>1, <3>2, <3>3, <3>4, <3>5 DEF Touches
    <3> QED BY <3>6, Handled
  <2>5. Secure(a, w, None)
    BY <2>1, <2>3, <2>4, Grounds DEF Secure, KeyFits, HeldOf, r
  <2> QED BY <2>4, <2>5
<1>8. CASE PutBack(a)
  <2> DEFINE key == work[a].key
  <2>1. /\ work' = [work EXCEPT ![a].at = "has", ![a].key = key] /\ work[a].at = "over" /\ Loses(a, key)
        /\ ring' = [ring EXCEPT ![Account(a)] = key]
        /\ UNCHANGED <<cache, files, legacy, page, profile, aside, used>>
    BY <1>8 DEF PutBack, Fetched
  <2>2. OnlyLoses /\ (r \notin {None, key} => Account(a) \in history'.lost)
    BY <1>12, <2>1
  <2>3. PICK w : Handles(a, w, key) /\ w.at = "has" /\ w.key = key
    <3>1. Touches(a, "has", key, key)
      BY <1>1, <1>2, <2>1, <2>2 DEF Touches
    <3> QED BY <3>1, Handled
  <2>4. Secure(a, w, key)
    BY <2>1, <2>2, <2>3, Grounds DEF Secure, KeyFits, HeldOf, r
  <2> QED BY <2>3, <2>4
<1>9. ASSUME Refused(a) \/ OverRefused(a)
      PROVE  \E w, k : Handles(a, w, k) /\ Secure(a, w, k)
  <2>1. Fault /\ (Fails(a) \/ (a = "page" /\ Unavailable)) /\ work[a].at \in {"get", "set", "over", "write"}
    BY <1>9 DEF Refused, OverRefused
  <2>2. PICK w \in Works :
           /\ work' = [work EXCEPT ![a] = w] /\ w.at \in {"idle", "loaded"}
           /\ UNCHANGED <<cache, files, legacy>> /\ used' \in Useds
           /\ page' = page \/ (a = "page" /\ page' = [page EXCEPT !.at = "unavailable"] /\ w = Resting)
           /\ \/ profile' = profile /\ aside' = aside /\ w = Resting
              \/ /\ a \in Commands /\ aside' = aside \cup {profile} /\ profile' = NoFile
                 /\ w.at = "loaded" /\ w.text = None
    BY <2>1, Refusing
  <2>3. CASE Refused(a)
    <3>1. ring' = ring /\ OnlyLoses /\ work[a].at # "over"
      BY <1>0, <2>3 DEF Refused, keys
    <3>2. Handles(a, w, r)
      BY <1>1, <2>1, <2>2, <3>1 DEF Handles
    <3>3. Secure(a, w, r)
      BY <2>2, <3>1 DEF Secure, KeyFits, HeldOf, r
    <3> QED BY <3>2, <3>3
  <2>4. CASE OverRefused(a)
    <3> DEFINE key == work[a].key
    <3>1. ring' = [ring EXCEPT ![Account(a)] = key] /\ Loses(a, key)
      BY <2>4 DEF OverRefused
    <3>2. OnlyLoses /\ (r \notin {None, key} => Account(a) \in history'.lost)
      BY <1>12, <3>1
    <3>3. Handles(a, w, key)
      BY <1>1, <1>2, <2>1, <2>2, <3>1, <3>2 DEF Handles
    <3>4. Secure(a, w, key)
      BY <2>2, <3>2, Grounds DEF Secure, KeyFits, HeldOf, r
    <3> QED BY <3>3, <3>4
  <2> QED BY <1>9, <2>3, <2>4
<1> QED BY <1>3, <1>4, <1>5, <1>6, <1>7, <1>8, <1>9 DEF Keys

-----------------------------------------------------------------------------
(* A command and the profile.                                              *)

\* What a command with the profile leaves alone.
Beside(a) ==
  /\ UNCHANGED <<ring, cache, files, legacy, page>>
  /\ history'.chats = history.chats /\ history'.lost = history.lost
  /\ \E w \in Works : work' = [work EXCEPT ![a] = w] /\ w.at \notin {"over", "has"}
  /\ work[a].at # "over"

LEMMA Beginning ==
  ASSUME Types, NEW a \in Commands, NEW what \in Kinds, Begin(a, what)
  PROVE  /\ Beside(a) /\ profile' = profile /\ aside' = aside /\ used' \in Useds /\ history' \in Histories
         /\ history'.phrase = history.phrase /\ history'.stale = history.stale \ {a}
         /\ history'.replaced = history.replaced /\ history'.mixed = history.mixed
         /\ work'[a].text = profile.text /\ work'[a].at # "write"
<1> DEFINE w == [at |-> IF profile.key = Clear THEN "loaded" ELSE "get", what |-> what, key |-> None,
                 raw |-> profile, text |-> profile.text]
<1>1. work' = [work EXCEPT ![a] = w] /\ work[a].at = "idle"
      /\ UNCHANGED <<ring, cache, files, legacy, page, profile, aside>>
      /\ used' = [used EXCEPT !.edits = IF what = "look" THEN @ ELSE @ + 1]
      /\ history' = [history EXCEPT !.stale = @ \ {a}]
  BY DEF Begin, keys
<1>2. None \in Nat /\ {"loaded", "get"} \subseteq Ats /\ profile \in Envelopes /\ profile.text \in Nat
  BY Grounds DEF Types, Envelopes, Ats
<1>3. w \in Works /\ w.at \in {"loaded", "get"} /\ w.text = profile.text
  BY <1>2 DEF Works
<1> HIDE DEF w
<1>4. used' \in Useds
  BY <1>1 DEF Types, Useds
<1>5. work'[a] = w
  BY <1>1 DEF Types, Workers
<1>6. /\ history' \in Histories /\ history'.stale = history.stale \ {a}
      /\ history'.phrase = history.phrase /\ history'.chats = history.chats /\ history'.lost = history.lost
      /\ history'.replaced = history.replaced /\ history'.mixed = history.mixed
  BY <1>1 DEF Types, Histories
<1> QED BY <1>1, <1>3, <1>4, <1>5, <1>6 DEF Beside

LEMMA Loading ==
  ASSUME Types, NEW a \in Commands, Load(a)
  PROVE  /\ Beside(a) /\ used' \in Useds /\ history' = history
         /\ \/ profile' = profile /\ aside' = aside /\ work'[a].text = work[a].text /\ work[a].raw # NoFile
            \/ profile' = NoFile /\ aside' = aside \cup {profile} /\ work'[a].text = None
         /\ work[a].at = "has"
<1>1. work[a] \in Works /\ work \in [Workers -> Works] /\ UNCHANGED <<ring, cache, files, legacy, page, used, history>>
      /\ work[a].at = "has"
  BY DEF Types, Workers, Load, keys
<1>2. CASE work[a].raw.key = work[a].key
  <2> DEFINE w == [work[a] EXCEPT !.at = "loaded"]
  <2>1. w \in Works /\ w.at = "loaded" /\ w.text = work[a].text
    BY <1>1 DEF Works, Ats
  <2>2. work' = [work EXCEPT ![a] = w] /\ profile' = profile /\ aside' = aside /\ work[a].raw # NoFile
    BY <1>1, <1>2 DEF Load, Goes
  <2> HIDE DEF w
  <2>3. work'[a] = w
    BY <1>1, <2>2 DEF Workers
  <2> QED BY <1>1, <2>1, <2>2, <2>3 DEF Beside, Types
<1>3. CASE work[a].raw.key # work[a].key
  <2> DEFINE w == [work[a] EXCEPT !.at = "loaded", !.text = None]
  <2>1. w \in Works /\ w.at = "loaded" /\ w.text = None
    <3>1. None \in Nat /\ "loaded" \in Ats
      BY Grounds DEF Ats
    <3> QED BY <1>1, <3>1 DEF Works
  <2>2. work' = [work EXCEPT ![a] = w] /\ profile' = NoFile /\ aside' = aside \cup {profile}
    BY <1>1, <1>3 DEF Load, MovesAside, Unreadable, Works
  <2> HIDE DEF w
  <2>3. work'[a] = w
    BY <1>1, <2>2 DEF Workers
  <2> QED BY <1>1, <2>1, <2>2, <2>3, Grounds DEF Beside, Types
<1> QED BY <1>2, <1>3

LEMMA Changing ==
  ASSUME Types, NEW a \in Commands, Change(a)
  PROVE  /\ Beside(a) /\ profile' = profile /\ aside' = aside /\ used' \in Useds /\ history' = history
         /\ \/ work'[a] = Resting
            \/ /\ work'[a].at = "get" /\ work'[a].raw = NoFile /\ work'[a].what = work[a].what
               /\ work[a].what = "setting" => work'[a].text = work[a].text
<1>1. work[a] \in Works /\ work \in [Workers -> Works] /\ UNCHANGED <<ring, cache, files, legacy, page, profile, aside, history>>
      /\ work[a].at = "loaded" /\ used \in Useds
  BY DEF Types, Workers, Change, keys
<1>2. CASE work[a].what = "look"
  <2>1. work' = [work EXCEPT ![a] = Resting] /\ used' = used
    BY <1>2 DEF Change
  <2>2. work'[a] = Resting
    BY <1>1, <2>1 DEF Workers
  <2> QED BY <1>1, <2>1, <2>2, Grounds DEF Beside
<1>3. CASE work[a].what # "look"
  <2> DEFINE text == CASE work[a].what = "new" -> used.phrases + 1
                       [] work[a].what = "delete" -> None
                       [] OTHER -> work[a].text
             w == [work[a] EXCEPT !.at = "get", !.raw = NoFile, !.text = text, !.key = None]
  <2>1. text \in Nat /\ (work[a].what = "setting" => text = work[a].text)
    BY <1>1, Grounds DEF Works, Useds
  <2>2. work' = [work EXCEPT ![a].at = "get", ![a].raw = NoFile, ![a].text = text, ![a].key = None]
        /\ used' = [used EXCEPT !.phrases = IF work[a].what = "new" THEN @ + 1 ELSE @]
    BY <1>3 DEF Change
  <2> HIDE DEF text
  <2>3. None \in Nat /\ NoFile \in Envelopes /\ "get" \in Ats
    BY Grounds DEF Ats
  <2>4. w \in Works /\ w.at = "get" /\ w.raw = NoFile /\ w.what = work[a].what /\ w.text = text
    BY <1>1, <2>1, <2>3 DEF Works
  <2>5. work' = [work EXCEPT ![a] = w]
    BY <1>1, <2>2 DEF Works
  <2>6. used' \in Useds
    BY <1>1, <2>2 DEF Useds
  <2> HIDE DEF w
  <2>7. work'[a] = w
    BY <1>1, <2>5 DEF Workers
  <2>8. Beside(a)
    BY <1>1, <2>4, <2>5 DEF Beside
  <2>9. /\ work'[a].at = "get" /\ work'[a].raw = NoFile /\ work'[a].what = work[a].what
        /\ work[a].what = "setting" => work'[a].text = work[a].text
    BY <2>1, <2>4, <2>7
  <2> QED BY <1>1, <2>6, <2>8, <2>9
<1> QED BY <1>2, <1>3

LEMMA WritingProfile ==
  ASSUME Types, NEW a \in Commands, WriteProfile(a)
  PROVE  /\ Beside(a) /\ profile' = profile /\ aside' = aside /\ used' = used /\ history' \in Histories
         /\ history'.phrase = history.phrase /\ history'.stale = history.stale
         /\ history'.replaced = history.replaced /\ (history.mixed => history'.mixed)
         /\ work[a].at = "has"
         /\ work'[a].what = work[a].what /\ work'[a].key = work[a].key /\ work'[a].raw = work[a].raw
         /\ work'[a].text = work[a].text /\ work'[a].at = "write"
<1> DEFINE w == [work[a] EXCEPT !.at = "write"]
<1>1. work[a] \in Works /\ work \in [Workers -> Works] /\ history \in Histories
  BY DEF Types, Workers
<1>2. /\ work' = [work EXCEPT ![a].at = "write"] /\ work[a].at = "has"
      /\ UNCHANGED <<ring, cache, files, legacy, page, profile, aside, used>>
      /\ history' = [history EXCEPT !.mixed = @ \/ \E b \in Commands : work[b].at = "write"]
  BY DEF WriteProfile, Goes, keys
<1>3. /\ w \in Works /\ w.at = "write" /\ w.what = work[a].what /\ w.key = work[a].key
      /\ w.raw = work[a].raw /\ w.text = work[a].text
  BY <1>1 DEF Works, Ats
<1>4. work' = [work EXCEPT ![a] = w]
  BY <1>1, <1>2 DEF Works
<1> HIDE DEF w
<1>5. work'[a] = w
  BY <1>1, <1>4 DEF Workers
<1>6. /\ history' \in Histories /\ history'.chats = history.chats /\ history'.lost = history.lost
      /\ history'.phrase = history.phrase /\ history'.stale = history.stale
      /\ history'.replaced = history.replaced /\ (history.mixed => history'.mixed)
  BY <1>1, <1>2 DEF Histories
<1> QED BY <1>2, <1>3, <1>4, <1>5, <1>6 DEF Beside

LEMMA SavingProfile ==
  ASSUME Types, NEW a \in Commands, SaveProfile(a)
  PROVE  /\ Beside(a) /\ aside' = aside /\ used' = used /\ history' \in Histories
         /\ profile' \in Envelopes
         /\ ~history.mixed => profile'.key = work[a].key /\ profile'.text = work[a].text
         /\ history'.phrase = IF work[a].what = "setting" THEN history.phrase ELSE work[a].text
         /\ history'.stale = Commands \ {a} /\ history'.mixed = history.mixed
         /\ history.replaced \subseteq history'.replaced /\ (a \in history.stale => profile.text \in history'.replaced)
         /\ work[a].at = "write" /\ work'[a] = Resting
<1>1. work[a] \in Works /\ work \in [Workers -> Works] /\ UNCHANGED <<ring, cache, files, legacy, page, aside, used>>
      /\ work[a].at = "write" /\ history \in Histories /\ profile \in Envelopes
  BY DEF Types, Workers, SaveProfile, keys
<1>2. /\ Replaces(a) /\ work' = [work EXCEPT ![a] = Resting]
      /\ history' = [history EXCEPT
           !.phrase = IF work[a].what = "setting" THEN @ ELSE work[a].text,
           !.stale = Commands \ {a},
           !.replaced = IF a \in history.stale THEN @ \cup {profile.text} ELSE @]
  BY DEF SaveProfile
<1>3. ASSUME NEW b \in Commands
      PROVE  Written(b) \in Envelopes /\ Written(b).key = work[b].key /\ Written(b).text = work[b].text
  BY <1>1 DEF Written, Envelope, Envelopes, Works, Workers
<1>4. Scrambled \in Envelopes
  BY Grounds DEF Scrambled, Envelope, Envelopes, Older
<1>5. profile' \in Envelopes /\ (~history.mixed => profile' = Written(a))
  BY <1>1, <1>2, <1>3, <1>4 DEF Replaces
<1>6. work[a].text \in Nat /\ profile.text \in Nat
  BY <1>1 DEF Works, Envelopes
<1>7. /\ history' \in Histories /\ history'.chats = history.chats /\ history'.lost = history.lost
      /\ history'.phrase = IF work[a].what = "setting" THEN history.phrase ELSE work[a].text
      /\ history'.stale = Commands \ {a} /\ history'.mixed = history.mixed
      /\ history.replaced \subseteq history'.replaced /\ (a \in history.stale => profile.text \in history'.replaced)
  BY <1>1, <1>2, <1>6 DEF Histories
<1>8. work'[a] = Resting
  BY <1>1, <1>2 DEF Workers
<1> QED BY <1>1, <1>2, <1>3, <1>5, <1>7, <1>8, Grounds DEF Beside

-----------------------------------------------------------------------------
(* The page and its chats.                                                 *)

PageStep ==
  \/ FirstList \/ Migrate \/ Verify \/ Tombstone \/ Drop
  \/ \E c \in Chats : MoveOne(c) \/ MoveFails(c) \/ Save(c) \/ Remove(c)
  \/ Start

LEMMA PageTypes ==
  ASSUME Types, PageStep
  PROVE  Types'
<1>1. /\ ring \in Rings /\ cache \in Nat /\ files \in [Chats -> Envelopes]
      /\ legacy \in [there : BOOLEAN, key : BOOLEAN, chats : [Chats -> Nat]]
      /\ profile \in Envelopes /\ aside \subseteq Envelopes /\ page \in Pages
      /\ work \in [Workers -> Works] /\ used \in Useds /\ history \in Histories
      /\ "page" \in Workers /\ \A c \in Chats : legacy.chats[c] \in Nat
  BY DEF Types, Workers
<1>2. CASE FirstList
  <2>1. work["page"].key \in Nat
    BY <1>1 DEF Works
  <2>2. [page EXCEPT !.at = "listed"] \in Pages
    BY <1>1 DEF Pages, PageAts, After
  <2> QED BY <1>1, <1>2, <2>1, <2>2, Grounds DEF FirstList, Types, keys
<1>3. CASE Migrate
  <2>1. ToMove \subseteq Chats
    BY DEF ToMove
  <2>2. page' \in Pages
    BY <1>1, <1>3, <2>1 DEF Migrate, Pages, PageAts, After
  <2> QED BY <1>1, <1>3, <2>2 DEF Migrate, Types, keys
<1>4. CASE Verify
  <2>1. page' \in Pages
    BY <1>4, Grounds DEF Verify, Pages, PageAts, After
  <2> QED BY <1>1, <1>4, <2>1 DEF Verify, Types, keys
<1>5. CASE Tombstone
  <2>1. page' \in Pages /\ legacy' \in [there : BOOLEAN, key : BOOLEAN, chats : [Chats -> Nat]]
    BY <1>1, <1>5 DEF Tombstone, Pages, PageAts, After
  <2>2. used' \in Useds
    BY <1>1, <1>5, Using DEF Tombstone, Fault
  <2> QED BY <1>1, <1>5, <2>1, <2>2 DEF Tombstone, Types, keys
<1>6. CASE Drop
  <2>1. page' \in Pages /\ legacy' \in [there : BOOLEAN, key : BOOLEAN, chats : [Chats -> Nat]]
    BY <1>1, <1>6 DEF Drop, Pages, PageAts, After
  <2>2. used' \in Useds
    BY <1>1, <1>6, Using DEF Drop, Fault
  <2> QED BY <1>1, <1>6, <2>1, <2>2 DEF Drop, Types, keys
<1>7. ASSUME NEW c \in Chats, MoveOne(c)
      PROVE  Types'
  <2>1. page' \in Pages
    BY <1>1, <1>7 DEF MoveOne, Pages, PageAts, After
  <2>2. Sealed(legacy.chats[c]) \in Envelopes
    BY <1>1 DEF Sealed, Envelope, Envelopes
  <2> QED BY <1>1, <1>7, <2>1, <2>2 DEF MoveOne, Types, keys
<1>8. ASSUME NEW c \in Chats, MoveFails(c)
      PROVE  Types'
  <2>1. page' \in Pages
    BY <1>1, <1>8 DEF MoveFails, Pages, PageAts, After
  <2>2. used' \in Useds
    BY <1>8, Using DEF MoveFails, Fault
  <2> QED BY <1>1, <1>8, <2>1, <2>2 DEF MoveFails, Types, keys
<1>9. ASSUME NEW c \in Chats, Save(c)
      PROVE  Types'
  <2>1. used.edits + 2 \in Nat
    BY <1>1 DEF Useds
  <2>2. Sealed(used.edits + 2) \in Envelopes
    BY <1>1, <2>1 DEF Sealed, Envelope, Envelopes
  <2>3. history' \in Histories
    BY <1>1, <1>9, <2>1 DEF Save, Histories
  <2>4. used' \in Useds
    BY <1>9, Using DEF Save
  <2> QED BY <1>1, <1>9, <2>2, <2>3, <2>4 DEF Save, Types, keys
<1>10. ASSUME NEW c \in Chats, Remove(c)
       PROVE  Types'
  <2>1. history' \in Histories
    BY <1>1, <1>10, Grounds DEF Remove, Histories
  <2>2. used' \in Useds
    BY <1>10, Using DEF Remove
  <2> QED BY <1>1, <1>10, <2>1, <2>2, Grounds DEF Remove, Types, keys
<1>11. CASE Start
  <2>1. page' \in Pages
    BY <1>1, <1>11 DEF Start, Pages, PageAts
  <2>2. [work["page"] EXCEPT !.at = "get"] \in Works
    BY <1>1 DEF Works, Ats
  <2>3. work' = [work EXCEPT !["page"] = [work["page"] EXCEPT !.at = "get"]]
    BY <1>1, <1>11 DEF Start
  <2> QED BY <1>1, <1>11, <2>1, <2>2, <2>3 DEF Start, Types, keys
<1> QED BY <1>2, <1>3, <1>4, <1>5, <1>6, <1>7, <1>8, <1>9, <1>10, <1>11 DEF PageStep

\* When the app stops, a key that was out of the keychain is lost.
LEMMA Stopping ==
  ASSUME Types, Stop
  PROVE  /\ Types' /\ UNCHANGED <<ring, files, legacy, profile, aside>>
         /\ OnlyLoses
         /\ \A a \in Workers : work'[a] = Resting /\ (work[a].at = "over" => Account(a) \in history'.lost)
         /\ page' = Shut
<1>1. /\ work' = [a \in Workers |-> Resting] /\ page' = Shut /\ cache' = None
      /\ history' = [history EXCEPT !.lost = @ \cup {Account(a) : a \in {b \in Workers : work[b].at = "over"}}]
      /\ UNCHANGED <<ring, files, legacy, profile, aside>> /\ history \in Histories
  BY DEF Stop, keys, Types
<1>2. \A a \in Workers : Account(a) \in Accounts
  BY SameRing
<1>3. {Account(a) : a \in {b \in Workers : work[b].at = "over"}} \subseteq Accounts
  BY <1>2
<1>4. OnlyLoses /\ history'.lost = history.lost \cup {Account(a) : a \in {b \in Workers : work[b].at = "over"}}
  BY <1>1, <1>3 DEF Histories, OnlyLoses
<1>5. used' \in Useds
  BY Using DEF Stop
<1>6. work' \in [Workers -> Works] /\ page' \in Pages /\ cache' \in Nat
  BY <1>1, Grounds
<1>7. Types'
  BY <1>1, <1>4, <1>5, <1>6 DEF Types, OnlyLoses
<1> QED BY <1>1, <1>4, <1>7

LEMMA TypesStep ==
  ASSUME Types, [Next]_vars
  PROVE  Types'
<1>1. ASSUME NEW a \in Workers, Keys(a)
      PROVE  Types'
  <2>1. PICK w, k : Handles(a, w, k) /\ Secure(a, w, k)
    BY <1>1, Keying
  <2>2. ring' \in Rings /\ work' \in [Workers -> Works]
    BY <2>1, SameRing DEF Handles, Types
  <2>3. page' \in Pages
    BY <2>1 DEF Handles, Types, Pages, PageAts
  <2>4. profile' \in Envelopes /\ aside' \subseteq Envelopes
    BY <2>1, Grounds DEF Handles, Types
  <2> QED BY <2>1, <2>2, <2>3, <2>4 DEF Handles, Types, OnlyLoses
<1>2. ASSUME NEW a \in Commands, Load(a) \/ Change(a) \/ WriteProfile(a) \/ SaveProfile(a) \/ \E what \in Kinds : Begin(a, what)
      PROVE  Types'
  <2>1. Beside(a) /\ profile' \in Envelopes /\ aside' \subseteq Envelopes /\ used' \in Useds /\ history' \in Histories
    BY <1>2, Beginning, Loading, Changing, WritingProfile, SavingProfile, Grounds DEF Types
  <2>2. work' \in [Workers -> Works]
    BY <2>1 DEF Beside, Types
  <2> QED BY <2>1, <2>2 DEF Beside, Types
<1>3. CASE UNCHANGED vars
  BY <1>3 DEF vars, keys, Types
<1> QED BY <1>1, <1>2, <1>3, PageTypes, Stopping DEF Next, PageStep

-----------------------------------------------------------------------------
(* The chats.                                                              *)

HasFile(c) == files[c].text = history.chats[c] /\ files[c].key \in HeldOf(work["page"], ring["vault"])
InLegacy(c) == legacy.there /\ legacy.key /\ legacy.chats[c] = history.chats[c]
\* A chat the person has: nothing but its last version is in its file, and by the time the
\* old store loses its key the version is there.
ChatFits(c) ==
  history.chats[c] # None =>
    /\ HasFile(c) \/ InLegacy(c)
    /\ files[c].text # None => files[c].text = history.chats[c]
    /\ page.at \in {"tombstone", "drop"} => HasFile(c)
\* The page has done with the keychain once it has its list, and has its key.
PageFits ==
  /\ page.at # "list" => work["page"].at = "idle"
  /\ page.at \in After => cache = ring["vault"]
\* What is to be moved does not open, and nothing is left out of the move.
MoveFits ==
  page.at = "move" => \A c \in Chats :
    /\ c \in page.todo => ~Opens(c)
    /\ legacy.chats[c] # None => c \in page.todo \cup page.moved \/ Opens(c) \/ page.failed
VaultFits == KeyFits(work["page"], ring["vault"]) /\ PageFits /\ MoveFits /\ \A c \in Chats : ChatFits(c)
VaultInv == "vault" \in history.lost \/ VaultFits

\* What has nothing to do with the vault changes nothing of it.
LEMMA VaultSame ==
  ASSUME VaultInv, work'["page"] = work["page"], ring'["vault"] = ring["vault"],
         UNCHANGED <<cache, files, legacy, page>>, history'.chats = history.chats, history.lost \subseteq history'.lost
  PROVE  VaultInv'
<1> SUFFICES ASSUME "vault" \notin history'.lost
             PROVE  VaultFits'
  BY DEF VaultInv
<1>1. VaultFits
  BY DEF VaultInv
<1>2. PageFits' /\ MoveFits' /\ KeyFits(work'["page"], ring'["vault"])
  BY <1>1 DEF VaultFits, PageFits, MoveFits, Opens
<1>3. \A c \in Chats : ChatFits(c)'
  BY <1>1 DEF VaultFits, ChatFits, HasFile, InLegacy
<1> QED BY <1>2, <1>3 DEF VaultFits

LEMMA VaultKeying ==
  ASSUME Types, VaultInv, NEW a \in Workers, NEW w, NEW k, Handles(a, w, k), Secure(a, w, k)
  PROVE  VaultInv'
<1>1. CASE a \in Commands
  <2>1. ring'["vault"] = ring["vault"] /\ work'["page"] = work["page"] /\ page' = page
    BY <1>1, Accounting DEF Handles, Types, Rings, Workers
  <2> QED BY <2>1, VaultSame DEF Handles, OnlyLoses
<1>2. CASE a = "page"
  <2> SUFFICES ASSUME "vault" \notin history'.lost
               PROVE  VaultFits'
    BY DEF VaultInv
  <2>1. VaultFits
    BY DEF VaultInv, Handles, OnlyLoses
  <2>2. work'["page"] = w /\ ring'["vault"] = k
    BY <1>2, Accounting, SameRing DEF Handles, Types
  <2>3. KeyFits(w, k) /\ HeldOf(work["page"], ring["vault"]) \subseteq HeldOf(w, k)
    BY <1>2, <2>1, Accounting DEF Secure, VaultFits
  <2>4. page.at = "list"
    BY <1>2, <2>1 DEF VaultFits, PageFits, Handles
  <2>5. page'.at = "list" \/ (page'.at = "unavailable" /\ w.at = "idle")
    BY <2>4, Grounds DEF Handles, Types, Pages
  <2>6. PageFits' /\ MoveFits'
    BY <2>2, <2>5 DEF PageFits, MoveFits, After
  <2>7. ASSUME NEW c \in Chats
        PROVE  ChatFits(c)'
    <3>1. ChatFits(c)
      BY <2>1 DEF VaultFits
    <3>2. HasFile(c) => HasFile(c)'
      BY <2>2, <2>3 DEF HasFile, Handles, OnlyLoses
    <3>3. InLegacy(c) <=> InLegacy(c)'
      BY DEF InLegacy, Handles, OnlyLoses
    <3>4. files' = files /\ history'.chats = history.chats /\ page'.at \notin {"tombstone", "drop"}
      BY <2>5 DEF Handles, OnlyLoses
    <3> QED BY <3>1, <3>2, <3>3, <3>4 DEF ChatFits
  <2> QED BY <2>2, <2>3, <2>6, <2>7 DEF VaultFits
<1> QED BY <1>1, <1>2, Accounting

\* Outside the keychain the keys are the same, if none is out of it.
LEMMA SameHeld ==
  ASSUME NEW w, NEW v, NEW k, w.at # "over", v.at # "over"
  PROVE  HeldOf(w, k) = {Clear, k} /\ HeldOf(v, k) = HeldOf(w, k)
BY DEF HeldOf

LEMMA VaultPage ==
  ASSUME Types, VaultInv, PageStep
  PROVE  VaultInv'
<1> SUFFICES ASSUME "vault" \notin history'.lost
             PROVE  VaultFits'
  BY DEF VaultInv
<1>1. /\ "page" \in Workers /\ work \in [Workers -> Works] /\ page \in Pages
      /\ files \in [Chats -> Envelopes] /\ history \in Histories
      /\ legacy \in [there : BOOLEAN, key : BOOLEAN, chats : [Chats -> Nat]]
  BY DEF Types, Workers
<1>2. ring' = ring /\ history'.lost = history.lost
  BY <1>1 DEF PageStep, FirstList, Migrate, Verify, Tombstone, Drop, MoveOne, MoveFails, Save, Remove, Start, keys, Histories
<1>3. VaultFits
  BY <1>2 DEF VaultInv
<1> DEFINE held == HeldOf(work["page"], ring["vault"])
<1>4. CASE FirstList
  <2>1. /\ work["page"].at = "has" /\ cache' = work["page"].key /\ work' = [work EXCEPT !["page"] = Resting]
        /\ page' = [page EXCEPT !.at = "listed"] /\ UNCHANGED <<files, legacy, history>>
    BY <1>4 DEF FirstList
  <2>2. cache' = ring["vault"] /\ page'.at = "listed" /\ work'["page"] = Resting
    BY <1>1, <1>3, <2>1 DEF VaultFits, KeyFits, Pages
  <2>3. HeldOf(Resting, ring["vault"]) = held
    BY <2>1, Grounds, SameHeld
  <2>4. PageFits' /\ MoveFits' /\ KeyFits(work'["page"], ring'["vault"])
    BY <1>2, <2>2, Grounds DEF PageFits, MoveFits, KeyFits
  <2>5. \A c \in Chats : ChatFits(c)'
    BY <1>2, <1>3, <2>1, <2>2, <2>3 DEF VaultFits, ChatFits, HasFile, InLegacy
  <2> QED BY <2>4, <2>5 DEF VaultFits
<1>5. CASE Migrate
  <2>1. /\ page.at = "listed" /\ UNCHANGED <<cache, files, legacy, work, history>>
        /\ page' = IF ~legacy.there THEN [page EXCEPT !.at = "ready"]
                   ELSE IF ~legacy.key THEN [page EXCEPT !.at = "drop"]
                   ELSE [page EXCEPT !.at = "move", !.todo = ToMove]
    BY <1>5 DEF Migrate
  <2>2. page'.at \in {"ready", "drop", "move"} /\ (page'.at = "drop" => ~legacy.key)
        /\ (page'.at = "move" => page'.todo = ToMove)
    BY <1>1, <2>1 DEF Pages
  <2>3. PageFits' /\ KeyFits(work'["page"], ring'["vault"])
    BY <1>2, <1>3, <2>1, <2>2 DEF PageFits, VaultFits, After
  <2>4. MoveFits'
    BY <2>1, <2>2 DEF MoveFits, ToMove, Listed, Opens
  <2>5. \A c \in Chats : ChatFits(c)'
    BY <1>2, <1>3, <2>1, <2>2 DEF VaultFits, ChatFits, HasFile, InLegacy
  <2> QED BY <2>3, <2>4, <2>5 DEF VaultFits
<1>6. CASE Verify
  <2>1. /\ page.at = "move" /\ page.todo = {} /\ UNCHANGED <<cache, files, legacy, work, history>>
        /\ page' = [Shut EXCEPT !.at = IF page.failed \/ ~(page.moved \subseteq Listed) THEN "ready" ELSE "tombstone"]
    BY <1>6 DEF Verify
  <2>2. page'.at \in {"ready", "tombstone"}
        /\ (page'.at = "tombstone" => ~page.failed /\ page.moved \subseteq Listed)
    BY <2>1 DEF Shut
  <2>3. PageFits' /\ MoveFits' /\ KeyFits(work'["page"], ring'["vault"])
    BY <1>2, <1>3, <2>1, <2>2 DEF PageFits, VaultFits, After, MoveFits
  <2>4. ASSUME NEW c \in Chats, page'.at = "tombstone", history.chats[c] # None
        PROVE  HasFile(c)
    <3>1. ChatFits(c) /\ work["page"].at = "idle" /\ cache = ring["vault"]
      BY <1>3, <2>1 DEF VaultFits, PageFits, After
    <3>2. CASE InLegacy(c)
      <4>1. legacy.chats[c] # None
        BY <2>4, <3>2 DEF InLegacy
      <4>2. c \in page.moved \/ Opens(c)
        BY <1>3, <2>1, <2>2, <2>4, <4>1 DEF VaultFits, MoveFits
      <4>3. Opens(c)
        BY <2>2, <2>4, <4>2 DEF Listed
      <4>4. files[c].text = history.chats[c] /\ files[c].key \in {Clear, ring["vault"]}
        BY <2>4, <3>1, <4>3 DEF Opens, ChatFits
      <4> QED BY <3>1, <4>4 DEF HasFile, HeldOf
    <3> QED BY <2>4, <3>1, <3>2 DEF ChatFits
  <2>5. \A c \in Chats : ChatFits(c)'
    BY <1>2, <1>3, <2>1, <2>2, <2>4 DEF VaultFits, ChatFits, HasFile, InLegacy
  <2> QED BY <2>3, <2>5 DEF VaultFits
<1>7. CASE Tombstone
  <2>1. page.at = "tombstone" /\ page'.at = "drop" /\ UNCHANGED <<cache, files, work, history>>
    BY <1>1, <1>7 DEF Tombstone, Pages
  <2>2. PageFits' /\ MoveFits' /\ KeyFits(work'["page"], ring'["vault"])
    BY <1>2, <1>3, <2>1 DEF PageFits, VaultFits, After, MoveFits
  <2>3. \A c \in Chats : ChatFits(c)'
    BY <1>2, <1>3, <2>1 DEF VaultFits, ChatFits, HasFile, InLegacy
  <2> QED BY <2>2, <2>3 DEF VaultFits
<1>8. CASE Drop
  <2>1. page.at = "drop" /\ page'.at = "ready" /\ UNCHANGED <<cache, files, work, history>>
    BY <1>1, <1>8 DEF Drop, Pages
  <2>2. PageFits' /\ MoveFits' /\ KeyFits(work'["page"], ring'["vault"])
    BY <1>2, <1>3, <2>1 DEF PageFits, VaultFits, After, MoveFits
  <2>3. \A c \in Chats : ChatFits(c)'
    BY <1>2, <1>3, <2>1 DEF VaultFits, ChatFits, HasFile, InLegacy
  <2> QED BY <2>2, <2>3 DEF VaultFits
<1>9. ASSUME NEW c \in Chats, MoveOne(c)
      PROVE  VaultFits'
  <2>1. /\ page.at = "move" /\ c \in page.todo /\ UNCHANGED <<cache, legacy, work, history>>
        /\ page' = [page EXCEPT !.todo = @ \ {c}, !.moved = @ \cup {c}]
        /\ files' = [files EXCEPT ![c] = Sealed(legacy.chats[c])]
    BY <1>9 DEF MoveOne
  <2>2. page'.at = "move" /\ page'.todo = page.todo \ {c} /\ page'.moved = page.moved \cup {c} /\ page'.failed = page.failed
    BY <1>1, <2>1 DEF Pages
  <2>3. /\ \A d \in Chats : d # c => files'[d] = files[d]
        /\ files'[c].text = legacy.chats[c] /\ files'[c].key = cache
    BY <1>1, <2>1 DEF Sealed, Envelope
  <2>4. work["page"].at = "idle" /\ cache = ring["vault"] /\ ~Opens(c) /\ ChatFits(c)
    BY <1>3, <2>1 DEF VaultFits, PageFits, MoveFits, After
  <2>5. held = {Clear, cache}
    BY <2>4 DEF HeldOf
  <2>6. PageFits' /\ KeyFits(work'["page"], ring'["vault"])
    BY <1>2, <1>3, <2>1, <2>2 DEF PageFits, VaultFits, After
  <2>7. \A d \in Chats : d # c => (Opens(d) <=> Opens(d)')
    BY <2>1, <2>3 DEF Opens
  <2>8. MoveFits'
    BY <1>3, <2>1, <2>2, <2>7 DEF VaultFits, MoveFits
  <2>9. ASSUME history.chats[c] # None
        PROVE  InLegacy(c) /\ legacy.chats[c] = history.chats[c]
    <3>1. ~HasFile(c)
      BY <2>4, <2>5, <2>9 DEF HasFile, Opens
    <3> QED BY <2>4, <2>9, <3>1 DEF ChatFits, InLegacy
  <2>10. ChatFits(c)'
    BY <1>2, <2>1, <2>2, <2>3, <2>5, <2>9 DEF ChatFits, HasFile
  <2>11. \A d \in Chats : d # c => ChatFits(d)'
    BY <1>2, <1>3, <2>1, <2>2, <2>3 DEF VaultFits, ChatFits, HasFile, InLegacy
  <2> QED BY <2>6, <2>8, <2>10, <2>11 DEF VaultFits
<1>10. ASSUME NEW c \in Chats, MoveFails(c)
       PROVE  VaultFits'
  <2>1. page.at = "move" /\ page'.at = "move" /\ page'.todo \subseteq page.todo /\ page'.failed /\ UNCHANGED <<cache, files, legacy, work, history>>
    BY <1>1, <1>10 DEF MoveFails, Pages
  <2>2. PageFits' /\ MoveFits' /\ KeyFits(work'["page"], ring'["vault"])
    BY <1>2, <1>3, <2>1 DEF PageFits, VaultFits, After, MoveFits, Opens
  <2>3. \A d \in Chats : ChatFits(d)'
    BY <1>2, <1>3, <2>1 DEF VaultFits, ChatFits, HasFile, InLegacy
  <2> QED BY <2>2, <2>3 DEF VaultFits
<1>11. ASSUME NEW c \in Chats, Save(c)
       PROVE  VaultFits'
  <2>1. /\ page.at = "ready" /\ UNCHANGED <<cache, legacy, page, work>>
        /\ files' = [files EXCEPT ![c] = Sealed(used.edits + 2)]
        /\ history' = [history EXCEPT !.chats[c] = used.edits + 2]
    BY <1>11 DEF Save
  <2>2. /\ \A d \in Chats : d # c => files'[d] = files[d] /\ history'.chats[d] = history.chats[d]
        /\ files'[c].text = used.edits + 2 /\ files'[c].key = cache /\ history'.chats[c] = used.edits + 2
    BY <1>1, <2>1 DEF Sealed, Envelope, Histories
  <2>3. PageFits' /\ MoveFits' /\ KeyFits(work'["page"], ring'["vault"])
    BY <1>2, <1>3, <2>1 DEF PageFits, VaultFits, MoveFits
  <2>4. cache \in held
    BY <1>3, <2>1 DEF VaultFits, PageFits, HeldOf, After
  <2>5. ChatFits(c)'
    BY <1>2, <2>1, <2>2, <2>4 DEF ChatFits, HasFile
  <2>6. \A d \in Chats : d # c => ChatFits(d)'
    BY <1>2, <1>3, <2>1, <2>2 DEF VaultFits, ChatFits, HasFile, InLegacy
  <2> QED BY <2>3, <2>5, <2>6 DEF VaultFits
<1>12. ASSUME NEW c \in Chats, Remove(c)
       PROVE  VaultFits'
  <2>1. /\ page.at = "ready" /\ UNCHANGED <<cache, legacy, page, work>>
        /\ files' = [files EXCEPT ![c] = NoFile]
        /\ history' = [history EXCEPT !.chats[c] = None]
    BY <1>12 DEF Remove
  <2>2. /\ \A d \in Chats : d # c => files'[d] = files[d] /\ history'.chats[d] = history.chats[d]
        /\ history'.chats[c] = None
    BY <1>1, <2>1 DEF Histories
  <2>3. PageFits' /\ MoveFits' /\ KeyFits(work'["page"], ring'["vault"])
    BY <1>2, <1>3, <2>1 DEF PageFits, VaultFits, MoveFits
  <2>4. ChatFits(c)'
    BY <2>2 DEF ChatFits
  <2>5. \A d \in Chats : d # c => ChatFits(d)'
    BY <1>2, <1>3, <2>1, <2>2 DEF VaultFits, ChatFits, HasFile, InLegacy
  <2> QED BY <2>3, <2>4, <2>5 DEF VaultFits
<1>13. CASE Start
  <2>1. page.at = "shut" /\ page'.at = "list" /\ work'["page"].at = "get" /\ UNCHANGED <<cache, files, legacy, history>>
    BY <1>1, <1>13 DEF Start, Pages, Works
  <2>2. work["page"].at = "idle"
    BY <1>3, <2>1 DEF VaultFits, PageFits
  <2>3. HeldOf(work'["page"], ring["vault"]) = held
    BY <2>1, <2>2, SameHeld
  <2>4. PageFits' /\ MoveFits' /\ KeyFits(work'["page"], ring'["vault"])
    BY <2>1 DEF PageFits, MoveFits, KeyFits, After
  <2>5. \A c \in Chats : ChatFits(c)'
    BY <1>2, <1>3, <2>1, <2>3 DEF VaultFits, ChatFits, HasFile, InLegacy
  <2> QED BY <2>4, <2>5 DEF VaultFits
<1> QED BY <1>4, <1>5, <1>6, <1>7, <1>8, <1>9, <1>10, <1>11, <1>12, <1>13 DEF PageStep

LEMMA VaultStep ==
  ASSUME Types, VaultInv, [Next]_vars
  PROVE  VaultInv'
<1>1. ASSUME NEW a \in Workers, Keys(a)
      PROVE  VaultInv'
  BY <1>1, Keying, VaultKeying
<1>2. ASSUME NEW a \in Commands, Beside(a)
      PROVE  VaultInv'
  <2>1. work'["page"] = work["page"]
    BY <1>2, Accounting DEF Beside, Types, Workers
  <2> QED BY <1>2, <2>1, VaultSame DEF Beside
<1>3. ASSUME NEW a \in Commands, Load(a) \/ Change(a) \/ WriteProfile(a) \/ SaveProfile(a) \/ \E what \in Kinds : Begin(a, what)
      PROVE  VaultInv'
  BY <1>2, <1>3, Beginning, Loading, Changing, WritingProfile, SavingProfile
<1>4. CASE Stop
  <2> SUFFICES ASSUME "vault" \notin history'.lost
               PROVE  VaultFits'
    BY DEF VaultInv
  <2>1. /\ UNCHANGED <<ring, files, legacy>> /\ history'.chats = history.chats /\ history.lost \subseteq history'.lost
        /\ work'["page"] = Resting /\ work["page"].at # "over" /\ page' = Shut
    BY <1>4, Stopping, Accounting DEF Workers, OnlyLoses
  <2>2. VaultFits
    BY <2>1 DEF VaultInv
  <2>3. HeldOf(work'["page"], ring["vault"]) = HeldOf(work["page"], ring["vault"])
    BY <2>1, Grounds, SameHeld
  <2>4. PageFits' /\ MoveFits' /\ KeyFits(work'["page"], ring'["vault"])
    BY <2>1, Grounds DEF PageFits, MoveFits, KeyFits, After
  <2>5. \A c \in Chats : ChatFits(c)'
    BY <2>1, <2>2, <2>3, Grounds DEF VaultFits, ChatFits, HasFile, InLegacy
  <2> QED BY <2>4, <2>5 DEF VaultFits
<1>5. CASE UNCHANGED vars
  BY <1>5, VaultSame DEF vars
<1> QED BY <1>1, <1>3, <1>4, <1>5, VaultPage DEF Next, PageStep

-----------------------------------------------------------------------------
(* The phrase.                                                             *)

\* What a command that is not stale goes on with, unless it loaded an unreadable file, is the
\* profile's, until it makes something else of it or another moves the profile aside.
Carries(a) ==
  /\ work[a].at # "idle" /\ a \notin history.stale
  /\ work[a].at = "loaded" \/ work[a].raw # NoFile \/ work[a].what = "setting"
  => work[a].text = profile.text \/ profile = NoFile
CommandFits(a) == (work[a].at \in {"has", "write"} => work[a].key \in Held("profile")) /\ Carries(a)
PhraseFits ==
  history.phrase # None /\ history.phrase \notin history.replaced =>
    \E p \in {profile} \cup aside : p.text = history.phrase /\ p.key \in Held("profile")
PhraseInv ==
  "profile" \in history.lost \/ history.mixed \/ ((\A a \in Commands : CommandFits(a)) /\ PhraseFits)

\* What leaves the profile and who works on it alone, and loses none of its keys.
LEMMA PhraseSame ==
  ASSUME PhraseInv, \A a \in Commands : work'[a] = work[a], UNCHANGED <<profile, aside>>,
         Held("profile") \subseteq Held("profile")', history.lost \subseteq history'.lost,
         history'.phrase = history.phrase, history'.stale = history.stale,
         history'.replaced = history.replaced, history'.mixed = history.mixed
  PROVE  PhraseInv'
<1> SUFFICES ASSUME "profile" \notin history'.lost, ~history'.mixed
             PROVE  (\A a \in Commands : CommandFits(a)') /\ PhraseFits'
  BY DEF PhraseInv
<1>1. (\A a \in Commands : CommandFits(a)) /\ PhraseFits
  BY DEF PhraseInv
<1>2. PhraseFits'
  BY <1>1 DEF PhraseFits
<1>3. ASSUME NEW a \in Commands PROVE CommandFits(a)'
  <2>1. CommandFits(a) /\ work'[a] = work[a]
    BY <1>1
  <2> QED BY <2>1 DEF CommandFits, Carries
<1> QED BY <1>2, <1>3

\* What leaves who works on the profile and the keychain's profile key alone.
LEMMA SameProfileKeys ==
  ASSUME \A a \in Commands : work'[a] = work[a], ring'["profile"] = ring["profile"]
  PROVE  Held("profile")' = Held("profile")
<1>1. \A a \in Workers : Account(a) = "profile" <=> a \in Commands
  BY Accounting
<1>2. {b \in Workers : Account(b) = "profile" /\ work'[b].at = "over"}
        = {b \in Workers : Account(b) = "profile" /\ work[b].at = "over"}
  BY <1>1
<1> QED BY <1>1, <1>2 DEF Held

\* A phrase that was in reach is so still: its file is there or aside, its key held.
LEMMA InReach ==
  ASSUME PhraseFits, history'.phrase = history.phrase, history.replaced \subseteq history'.replaced,
         Held("profile") \subseteq Held("profile")', {profile} \cup aside \subseteq {profile'} \cup aside'
  PROVE  PhraseFits'
BY DEF PhraseFits

\* The commands other than the one that takes a step.
LEMMA OthersFit ==
  ASSUME Types, NEW a \in Commands, NEW b \in Commands, b # a, CommandFits(b), NEW w, work' = [work EXCEPT ![a] = w],
         Held("profile") \subseteq Held("profile")',
         b \in history'.stale \/ (b \notin history.stale /\ (profile' = profile \/ profile' = NoFile))
           \/ (b \in history.stale /\ b \in history'.stale)
  PROVE  CommandFits(b)'
<1>1. work'[b] = work[b]
  BY DEF Types, Workers
<1> QED BY <1>1 DEF CommandFits, Carries

LEMMA PhraseKeying ==
  ASSUME Types, PhraseInv, NEW a \in Workers, NEW w, NEW k, Handles(a, w, k), Secure(a, w, k)
  PROVE  PhraseInv'
<1>1. CASE a = "page"
  <2>1. ring'["profile"] = ring["profile"] /\ \A b \in Commands : work'[b] = work[b]
    BY <1>1, Accounting DEF Handles, Types, Rings, Workers
  <2>2. profile' = profile /\ aside' = aside
    BY <1>1, Grounds DEF Handles
  <2>3. Held("profile")' = Held("profile")
    BY <2>1, SameProfileKeys
  <2> QED BY <2>1, <2>2, <2>3, PhraseSame DEF Handles, OnlyLoses
<1>2. CASE a \in Commands
  <2> SUFFICES ASSUME "profile" \notin history'.lost, ~history'.mixed
               PROVE  (\A b \in Commands : CommandFits(b)') /\ PhraseFits'
    BY DEF PhraseInv
  <2>1. (\A b \in Commands : CommandFits(b)) /\ PhraseFits
    BY DEF PhraseInv, Handles, OnlyLoses
  <2>2. /\ work'[a] = w /\ ring'["profile"] = k /\ w \in Works
        /\ work' = [work EXCEPT ![a] = w] /\ work \in [Workers -> Works]
    BY <1>2, Accounting, SameRing DEF Handles, Types
  <2>3. KeyFits(w, k) /\ HeldOf(work[a], ring["profile"]) \subseteq HeldOf(w, k)
    BY <1>2, Accounting DEF Secure
  <2>4. Held("profile") \subseteq Held("profile")'
    BY <1>2, <2>2, <2>3, ProfileHeld
  <2>5. /\ {profile} \cup aside \subseteq {profile'} \cup aside' /\ history'.phrase = history.phrase
        /\ history'.replaced = history.replaced /\ history'.stale = history.stale
        /\ profile' = profile \/ profile' = NoFile
    BY DEF Handles, OnlyLoses
  <2>6. Carries(a)'
    <3>1. Carries(a)
      BY <1>2, <2>1 DEF CommandFits
    <3>2. \/ w = Resting
          \/ /\ profile' = profile /\ w.at # "loaded"
             /\ w.what = work[a].what /\ w.raw = work[a].raw /\ w.text = work[a].text
          \/ profile' = NoFile
      BY DEF Handles
    <3>3. work[a].at # "idle"
      BY DEF Handles
    <3> QED BY <2>2, <2>5, <3>1, <3>2, <3>3, Grounds DEF Carries
  <2>7. CommandFits(a)'
    <3>1. k \in Held("profile")' /\ w.at # "write"
      BY <2>2 DEF Held, Handles
    <3> QED BY <2>2, <2>3, <2>6, <3>1 DEF CommandFits, KeyFits
  <2>8. \A b \in Commands : b # a => CommandFits(b)'
    BY <1>2, <2>1, <2>2, <2>4, <2>5, OthersFit
  <2>9. PhraseFits'
    BY <2>1, <2>4, <2>5, InReach
  <2> QED BY <2>7, <2>8, <2>9
<1> QED BY <1>1, <1>2, Accounting

\* A command's own step with the profile.
LEMMA PhraseProfile ==
  ASSUME Types, PhraseInv, NEW a \in Commands,
         Load(a) \/ Change(a) \/ WriteProfile(a) \/ SaveProfile(a) \/ \E what \in Kinds : Begin(a, what)
  PROVE  PhraseInv'
<1>1. Beside(a)
  BY Beginning, Loading, Changing, WritingProfile, SavingProfile
<1>2. history.mixed => history'.mixed
  BY Beginning, Loading, Changing, WritingProfile, SavingProfile
<1> SUFFICES ASSUME "profile" \notin history'.lost, ~history'.mixed
             PROVE  (\A b \in Commands : CommandFits(b)') /\ PhraseFits'
  BY DEF PhraseInv
<1>3. (\A b \in Commands : CommandFits(b)) /\ PhraseFits /\ CommandFits(a)
  BY <1>1, <1>2 DEF PhraseInv, Beside
<1>4. PICK w \in Works : work' = [work EXCEPT ![a] = w] /\ w.at \notin {"over", "has"}
  BY <1>1 DEF Beside
<1>5. work'[a] = w /\ ring' = ring /\ work[a].at # "over" /\ work \in [Workers -> Works]
  BY <1>1, <1>4 DEF Types, Workers, Beside
<1>6. Held("profile") \subseteq Held("profile")'
  <2>1. HeldOf(work[a], ring["profile"]) \subseteq HeldOf(w, ring["profile"])
    BY <1>4, <1>5 DEF HeldOf
  <2>2. ring'["profile"] = ring["profile"]
    BY <1>5
  <2> QED BY <1>4, <1>5, <2>1, <2>2, ProfileHeld
<1>7. ASSUME profile' = profile \/ profile' = NoFile, history'.stale = history.stale \/ history'.stale = history.stale \ {a}
      PROVE  \A b \in Commands : b # a => CommandFits(b)'
  BY <1>3, <1>4, <1>6, <1>7, OthersFit
<1>8. CASE Load(a)
  <2>1. /\ history' = history /\ work[a].at = "has"
        /\ \/ profile' = profile /\ aside' = aside /\ work'[a].text = work[a].text /\ work[a].raw # NoFile
           \/ profile' = NoFile /\ aside' = aside \cup {profile} /\ work'[a].text = None
    BY <1>8, Loading
  <2>2. Carries(a)'
    BY <1>3, <2>1, Grounds DEF CommandFits, Carries
  <2>3. work'[a].at = "loaded"
    BY <1>5, <1>8 DEF Load, Goes, Works, Workers
  <2>4. CommandFits(a)'
    BY <2>2, <2>3 DEF CommandFits
  <2> QED BY <1>3, <1>6, <1>7, <2>1, <2>4, InReach
<1>9. CASE Change(a)
  <2>1. /\ profile' = profile /\ aside' = aside /\ history' = history
        /\ \/ work'[a] = Resting
           \/ /\ work'[a].at = "get" /\ work'[a].raw = NoFile /\ work'[a].what = work[a].what
              /\ work[a].what = "setting" => work'[a].text = work[a].text
    BY <1>9, Changing
  <2>2. work[a].at = "loaded"
    BY <1>9 DEF Change
  <2>3. CommandFits(a)'
    BY <1>3, <2>1, <2>2, Grounds DEF CommandFits, Carries
  <2> QED BY <1>3, <1>6, <1>7, <2>1, <2>3, InReach
<1>10. CASE WriteProfile(a)
  <2>1. /\ profile' = profile /\ aside' = aside /\ history'.phrase = history.phrase
        /\ history'.stale = history.stale /\ history'.replaced = history.replaced
        /\ work[a].at = "has" /\ work'[a].what = work[a].what /\ work'[a].key = work[a].key
        /\ work'[a].raw = work[a].raw /\ work'[a].text = work[a].text /\ work'[a].at = "write"
    BY <1>10, WritingProfile
  <2>2. CommandFits(a)'
    BY <1>3, <1>6, <2>1 DEF CommandFits, Carries
  <2> QED BY <1>3, <1>6, <1>7, <2>1, <2>2, InReach
<1>11. CASE SaveProfile(a)
  <2>1. /\ aside' = aside /\ profile'.key = work[a].key /\ profile'.text = work[a].text
        /\ history'.phrase = IF work[a].what = "setting" THEN history.phrase ELSE work[a].text
        /\ history'.stale = Commands \ {a}
        /\ history.replaced \subseteq history'.replaced /\ (a \in history.stale => profile.text \in history'.replaced)
        /\ work[a].at = "write" /\ work'[a] = Resting
    BY <1>2, <1>11, SavingProfile
  <2>2. profile'.key \in Held("profile")'
    BY <1>3, <1>6, <2>1 DEF CommandFits
  <2>3. CommandFits(a)'
    BY <2>1, Grounds DEF CommandFits, Carries
  <2>4. \A b \in Commands : b # a => CommandFits(b)'
    BY <1>3, <1>4, <1>6, <2>1, OthersFit
  <2>5. CASE work[a].what # "setting"
    BY <2>1, <2>2, <2>3, <2>4, <2>5 DEF PhraseFits
  <2>6. CASE work[a].what = "setting"
    <3> SUFFICES ASSUME history.phrase # None, history.phrase \notin history'.replaced
                 PROVE  \E p \in {profile'} \cup aside' : p.text = history.phrase /\ p.key \in Held("profile")'
      BY <2>1, <2>3, <2>4, <2>6 DEF PhraseFits
    <3>1. PICK p \in {profile} \cup aside : p.text = history.phrase /\ p.key \in Held("profile")
      BY <1>3, <2>1 DEF PhraseFits
    <3>2. CASE p \in aside
      BY <1>6, <2>1, <3>1, <3>2
    <3>3. CASE p = profile
      <4>1. a \notin history.stale /\ profile # NoFile
        BY <2>1, <3>1, <3>3, Grounds
      <4>2. work[a].text = profile.text
        BY <1>3, <2>1, <2>6, <4>1 DEF CommandFits, Carries
      <4> QED BY <2>1, <2>2, <3>1, <3>3, <4>2
    <3> QED BY <3>1, <3>2, <3>3
  <2> QED BY <2>5, <2>6
<1>12. ASSUME NEW what \in Kinds, Begin(a, what)
       PROVE  (\A b \in Commands : CommandFits(b)') /\ PhraseFits'
  <2>1. /\ profile' = profile /\ aside' = aside /\ work'[a].text = profile.text /\ work'[a].at # "write"
        /\ history'.phrase = history.phrase /\ history'.stale = history.stale \ {a}
        /\ history'.replaced = history.replaced
    BY <1>12, Beginning
  <2>2. CommandFits(a)'
    BY <1>4, <1>5, <2>1 DEF CommandFits, Carries
  <2> QED BY <1>3, <1>6, <1>7, <2>1, <2>2, InReach
<1> QED BY <1>8, <1>9, <1>10, <1>11, <1>12

LEMMA PhraseStep ==
  ASSUME Types, PhraseInv, [Next]_vars
  PROVE  PhraseInv'
<1>1. ASSUME NEW a \in Workers, Keys(a)
      PROVE  PhraseInv'
  BY <1>1, Keying, PhraseKeying
<1>2. CASE PageStep
  <2>1. UNCHANGED <<ring, profile, aside>>
    BY <1>2 DEF PageStep, FirstList, Migrate, Verify, Tombstone, Drop, MoveOne, MoveFails, Save, Remove, Start, keys
  <2>2. \A a \in Commands : work'[a] = work[a]
    BY <1>2, Accounting
    DEF PageStep, FirstList, Migrate, Verify, Tombstone, Drop, MoveOne, MoveFails, Save, Remove, Start, Types, Workers
  <2>3. /\ history'.phrase = history.phrase /\ history'.lost = history.lost /\ history'.stale = history.stale
        /\ history'.replaced = history.replaced /\ history'.mixed = history.mixed
    BY <1>2 DEF PageStep, FirstList, Migrate, Verify, Tombstone, Drop, MoveOne, MoveFails, Save, Remove, Start, Types, Histories
  <2>4. Held("profile")' = Held("profile")
    BY <2>1, <2>2, SameProfileKeys
  <2> QED BY <2>1, <2>2, <2>3, <2>4, PhraseSame
<1>3. CASE Stop
  <2> SUFFICES ASSUME "profile" \notin history'.lost, ~history'.mixed
               PROVE  (\A a \in Commands : CommandFits(a)') /\ PhraseFits'
    BY DEF PhraseInv
  <2>1. /\ UNCHANGED <<ring, profile, aside>> /\ OnlyLoses
        /\ \A a \in Workers : work'[a] = Resting /\ (work[a].at = "over" => Account(a) \in history'.lost)
    BY <1>3, Stopping
  <2>2. PhraseFits
    BY <2>1 DEF PhraseInv, OnlyLoses
  <2>3. \A a \in Workers : ~(Account(a) = "profile" /\ work[a].at = "over") /\ work'[a].at # "over"
    BY <2>1, Grounds
  <2>4. Held("profile")' = Held("profile")
    BY <2>1, <2>3 DEF Held
  <2>5. \A a \in Commands : CommandFits(a)'
    BY <2>1, Accounting, Grounds DEF CommandFits, Carries, Workers
  <2> QED BY <2>1, <2>2, <2>4, <2>5, InReach DEF OnlyLoses
<1>4. CASE UNCHANGED vars
  <2>1. Held("profile")' = Held("profile")
    BY <1>4 DEF vars, keys, Held
  <2> QED BY <1>4, <2>1, PhraseSame DEF vars, keys
<1> QED BY <1>1, <1>2, <1>3, <1>4, PhraseProfile DEF Next, PageStep

-----------------------------------------------------------------------------
(* The specification.                                                      *)

LEMMA Beginnings ==
  ASSUME Init
  PROVE  Types /\ VaultInv /\ PhraseInv
<1>1. PICK old \in BOOLEAN :
       /\ ring = IF old /\ platform # "android" THEN Older.ring ELSE [vault |-> None, profile |-> None]
       /\ profile = IF ~old THEN NoFile
                    ELSE Envelope(IF platform = "android" THEN Clear ELSE Older.key, 1)
       /\ history = [chats |-> IF old THEN [c \in Chats |-> 1] ELSE [c \in Chats |-> None],
                     phrase |-> profile.text, lost |-> {},
                     stale |-> {}, replaced |-> {}, mixed |-> FALSE]
       /\ \E there \in BOOLEAN :
            /\ legacy = [there |-> old /\ there, key |-> old /\ there, chats |-> history.chats]
            /\ files = [c \in Chats |-> IF old /\ ~there
                          THEN Envelope(ring["vault"], history.chats[c]) ELSE NoFile]
  BY DEF Init
<1>2. PICK there \in BOOLEAN :
            /\ legacy = [there |-> old /\ there, key |-> old /\ there, chats |-> history.chats]
            /\ files = [c \in Chats |-> IF old /\ ~there
                          THEN Envelope(ring["vault"], history.chats[c]) ELSE NoFile]
  BY <1>1
<1>3. /\ cache = None /\ aside = {} /\ page = Shut /\ work = [a \in Workers |-> Resting]
      /\ used = [edits |-> 0, faults |-> 0, stops |-> 0, keys |-> 2, phrases |-> 1]
  BY DEF Init
<1>4. ring \in Rings /\ (old /\ platform # "android" => ring["profile"] = Older.key)
  BY <1>1, Grounds DEF Older, Rings
<1>5. ring["vault"] \in Nat
  BY <1>4 DEF Rings
<1>6. profile \in Envelopes /\ profile.text \in Nat /\ profile.key \in {Clear, ring["profile"]}
  BY <1>1, <1>4, Grounds DEF Envelope, Envelopes, Older
<1>7. /\ history \in Histories /\ history.phrase = profile.text /\ history.lost = {}
      /\ history.chats \in [Chats -> Nat] /\ \A c \in Chats : ~old => history.chats[c] = None
  BY <1>1, <1>6, Grounds DEF Histories
<1>8. \A c \in Chats : files[c] = IF old /\ ~there THEN Envelope(ring["vault"], history.chats[c]) ELSE NoFile
  BY <1>2
<1>9. files \in [Chats -> Envelopes]
  BY <1>2, <1>5, <1>7, Grounds DEF Envelope, Envelopes
<1>10. legacy \in [there : BOOLEAN, key : BOOLEAN, chats : [Chats -> Nat]]
  BY <1>2, <1>7
<1>11. used \in Useds
  BY <1>3 DEF Useds
<1>12. Types
  BY <1>3, <1>4, <1>6, <1>7, <1>9, <1>10, <1>11, Grounds DEF Types
<1>13. \A a \in Workers : work[a] = Resting
  BY <1>3
<1>14. VaultInv
  <2>1. ASSUME NEW c \in Chats
        PROVE  ChatFits(c)
    <3>1. CASE old /\ there
      BY <1>2, <1>3, <1>8, <3>1, Grounds DEF ChatFits, InLegacy
    <3>2. CASE old /\ ~there
      <4>1. files[c] = Envelope(ring["vault"], history.chats[c])
        BY <1>8, <3>2
      <4>2. files[c].text = history.chats[c] /\ files[c].key = ring["vault"]
        BY <4>1 DEF Envelope
      <4> QED BY <1>3, <4>2, Grounds DEF ChatFits, HasFile, HeldOf
    <3>3. CASE ~old
      BY <1>7, <3>3 DEF ChatFits
    <3> QED BY <3>1, <3>2, <3>3
  <2>2. work["page"] = Resting
    BY <1>13 DEF Workers
  <2> QED BY <1>3, <2>1, <2>2, Grounds DEF VaultInv, VaultFits, PageFits, MoveFits, KeyFits, After
<1>15. PhraseInv
  <2>1. profile.key \in Held("profile")
    BY <1>6 DEF Held
  <2>2. \A a \in Commands : CommandFits(a)
    BY <1>13, Grounds DEF CommandFits, Carries, Workers
  <2> QED BY <1>7, <2>1, <2>2 DEF PhraseInv, PhraseFits
<1> QED BY <1>12, <1>14, <1>15

\* A chat the person has is never gone but with the vault's key, for any number of chats and
\* of commands beside the page (vault.js, `migrateLegacy`): wherever the app stops in the
\* move, and whatever keychain and disk refuse, its last version is in its file under a key
\* the keychain has or is given back, or in the old store with the old store's key.
THEOREM ChatsAreKept == Spec => []ChatKept
<1>1. Init => Types /\ VaultInv
  BY Beginnings
<1>2. Types /\ VaultInv /\ [Next]_vars => (Types /\ VaultInv)'
  BY TypesStep, VaultStep
<1>3. VaultInv => ChatKept
  BY VaultHeld DEF VaultInv, VaultFits, ChatFits, HasFile, InLegacy, ChatKept
<1> QED BY <1>1, <1>2, <1>3, PTL DEF Spec

\* The phrase is never gone but with the profile's key (profile.rs, `load` and `save`;
\* keystore.rs), for any number of commands at the profile at once: what is saved is what was
\* loaded or what was chosen, and what could not be read is moved aside first - until a
\* command saves what it made of an older profile, or two write their file at once.
THEOREM PhraseIsKept == Spec => []PhraseKept
<1>1. Init => Types /\ PhraseInv
  BY Beginnings
<1>2. Types /\ PhraseInv /\ [Next]_vars => (Types /\ PhraseInv)'
  BY TypesStep, PhraseStep
<1>3. PhraseInv => PhraseKept
  BY DEF PhraseInv, PhraseFits, PhraseKept, PhraseFound
<1> QED BY <1>1, <1>2, <1>3, PTL DEF Spec
=============================================================================
