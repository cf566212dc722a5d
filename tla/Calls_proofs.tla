------------------------------ MODULE Calls_proofs ------------------------------
(***************************************************************************)
(* What holds of a call for any number of devices, with any clocks, for    *)
(* any number of requests, stops and ticks.                                *)
(***************************************************************************)
EXTENDS Calls, FiniteSetTheorems, SequenceTheorems, TLAPS

-----------------------------------------------------------------------------
(* The types of the variables.                                             *)

Outs == {"done", "refused", "try again", "clock", "already made", "attest again"}
Ask == {"question", "purchase"}
Exchanges == [req : Requests, try : Nat]
Connections ==
  [pc : {"idle", "ready", "waits"}, kind : Ask, attempt : {1, 2}, m : [req : [app : Apps, n : Nat], try : Nat],
   session : Nat]
Signatures == [kind : Ask, life : Nat, ts : Int, first : BOOLEAN]
Said == [req : Requests, out : Outs]
Settled == {"done", "refused", "try again"}
KeptReplies == [req : Requests, out : Settled, at : Nat]
Sights == [req : Requests, at : Nat]
Works == [m : Exchanges, stage : {"asked", "waits"}, mark : Nat]

Enclaves ==
  [up : BOOLEAN, life : Nat \ {0}, sighted : SUBSET Sights, replies : Seq(KeptReplies), strikes : Nat]
EnclaveType == enclave \in Enclaves
DeviceType ==
  /\ now \in Nat
  /\ app \in [Apps -> Connections]
  /\ signed \in [Apps -> Seq(Signatures)]
  /\ sent \subseteq Exchanges
WorkType ==
  /\ work \subseteq Works /\ IsFiniteSet(work)
  /\ pending \in Seq(Requests) /\ disk \subseteq Requests
  /\ times \in [Requests -> Nat] /\ most \in Nat
SaidType ==
  /\ answers \subseteq [m : Exchanges, out : Outs]
  /\ sealed \subseteq Said /\ told \subseteq Said
Types == DeviceType /\ EnclaveType /\ WorkType /\ SaidType

(* What is on its way was signed, and sealed to a start there was.          *)
Made(r) == r.n \in 1..Len(signed[r.app])
Links ==
  /\ \A m \in sent : Made(m.req)
  /\ \A x \in answers : x.m \in sent
  /\ \A w \in work : w.m \in sent
  /\ \A a \in Apps : app[a].pc = "waits" => app[a].m \in sent /\ app[a].m.req = [app |-> a, n |-> Len(signed[a])]
Lives ==
  /\ \A a \in Apps : app[a].session <= enclave.life
  /\ \A a \in Apps, n \in Nat : n \in 1..Len(signed[a]) => signed[a][n].life <= enclave.life
LinkInv == Types /\ Links /\ Lives

-----------------------------------------------------------------------------
(* A request that was let in is not let in again.                           *)
LetIn(r) ==
  \/ times[r] > 0
  \/ \E w \in work : w.m.req = r
  \/ \E x \in sealed : x.req = r /\ x.out # "clock"
\* It is known, or so old that it is stale.
Shut(r) == (\E s \in enclave.sighted : s.req = r) \/ Signed(r).ts + ClockSkew < now
SightInv ==
  /\ \A s \in enclave.sighted : s.at <= now /\ Made(s.req) /\ Signed(s.req).ts <= s.at + ClockSkew
  /\ \A r \in Requests : LetIn(r) => Made(r)
  /\ \A r \in Requests : LetIn(r) /\ enclave.up /\ Signed(r).life = enclave.life => Shut(r)

(* A request is worked on by one, answered once and carried out once.       *)
OnceInv ==
  /\ \A r \in Requests : times[r] <= 1
  /\ \A v, w \in work : v.m.req = w.m.req => v = w
  /\ \A w \in work : \A x \in sealed : x.req = w.m.req => x.out = "clock"
  /\ \A w \in work : times[w.m.req] = IF w.stage = "asked" THEN 0 ELSE 1
  /\ \A x \in sealed : (x.out = "done" => times[x.req] = 1) /\ (x.out = "refused" => times[x.req] = 0)

(* What is said was sealed, but for what is said in the clear.              *)
IsSealed(r, out) == out \in {"done", "refused"} => [req |-> r, out |-> out] \in sealed
SaidInv ==
  /\ \A x \in answers : IsSealed(x.m.req, x.out)
  /\ \A i \in 1..Len(enclave.replies) : IsSealed(enclave.replies[i].req, enclave.replies[i].out)
  /\ \A t \in told : IsSealed(t.req, t.out)
TruthInv == LinkInv /\ SightInv /\ OnceInv /\ SaidInv

-----------------------------------------------------------------------------
IsPurchase(r) == Signed(r).kind # "question"
\* What waits has its place among what is pending, or is on the disk.
KeptInv ==
  /\ \A w \in work : w.stage = "asked" => w.mark = 0 
  /\ \A w \in work : w.stage = "waits" =>
       IF w.mark = 0 THEN w.m.req \in disk ELSE w.mark <= Len(pending) /\ pending[w.mark] = w.m.req
  /\ \A w \in work : w.stage = "asked" <=> ~IsPurchase(w.m.req)
  /\ \A x \in sealed : x.out = "done" /\ IsPurchase(x.req) => x.req \in disk

DeclineInv == enclave.strikes + Cardinality(Asked) < StrikesPerDay + most

\* A request that is signed again is signed for a later start, and only once.
SignInv ==
  /\ \A x \in answers : x.out = "attest again" => Signed(x.m.req).life < enclave.life
  /\ \A a \in Apps, n \in Nat : n \in 1..Len(signed[a]) /\ ~signed[a][n].first =>
       n > 1 /\ signed[a][n - 1].first /\ signed[a][n - 1].life < signed[a][n].life
  /\ \A a \in Apps : app[a].pc = "waits" =>
       signed[a][Len(signed[a])].first = (app[a].attempt = 1)
  /\ \A a \in Apps : app[a].pc = "ready" /\ app[a].attempt = 2 =>
       /\ Len(signed[a]) > 0 /\ signed[a][Len(signed[a])].first
       /\ signed[a][Len(signed[a])].life < enclave.life
       /\ app[a].session = 0 \/ signed[a][Len(signed[a])].life < app[a].session

-----------------------------------------------------------------------------
(* What the steps do.                                                       *)

LEMMA KnownConstants ==
  /\ ClockSkew \in Nat /\ ReplyKeep \in Nat /\ MaxStops \in Nat /\ MaxTime \in Nat
  /\ ReplyMax \in Nat \ {0} /\ StrikesPerDay \in Nat \ {0} /\ MaxSigned \in Nat \ {0}
  /\ NonceKeep \in Nat /\ NonceKeep >= 2 * ClockSkew
  /\ Kinds \subseteq Ask /\ Ahead \in [Apps -> Int]
  BY CallsAssumption DEF Ask

\* What is kept for a resend was kept before, or is the new answer.
LEMMA Remembering ==
  ASSUME NEW rs \in Seq(KeptReplies), NEW r \in Requests, NEW out \in Settled, now \in Nat
  PROVE  /\ Remember(rs, r, out) \in Seq(KeptReplies)
         /\ \A i \in 1..Len(Remember(rs, r, out)) :
              \/ Remember(rs, r, out)[i] = [req |-> r, out |-> out, at |-> now]
              \/ \E j \in 1..Len(rs) : Remember(rs, r, out)[i] = rs[j]
<1> DEFINE new == [req |-> r, out |-> out, at |-> now]
           late == {i \in DOMAIN rs : now - rs[i].at >= ReplyKeep}
           old == Cardinality(late)
           fresh == SubSeq(rs, old + 1, Len(rs))
           room == IF Len(fresh) < ReplyMax THEN fresh ELSE Tail(fresh)
<1>1. DOMAIN rs = 1..Len(rs) /\ Len(rs) \in Nat
  BY LenProperties
<1>2. old \in Nat
  <2>1. IsFiniteSet(1..Len(rs))
    BY <1>1, FS_Interval
  <2>2. IsFiniteSet(late)
    BY <1>1, <2>1, FS_Subset
  <2> QED
    BY <2>2, FS_CardinalityType
<1>3. new \in KeptReplies
  BY DEF KeptReplies
<1>4. Remember(rs, r, out) = Append(room, new)
  BY DEF Remember
<1> HIDE DEF new, late, old
<1>5. fresh \in Seq(KeptReplies) /\ \A i \in 1..Len(fresh) : \E j \in 1..Len(rs) : fresh[i] = rs[j]
  <2>1. \A i \in (old + 1)..Len(rs) : rs[i] \in KeptReplies
    BY <1>1, <1>2, ElementOfSeq
  <2>2. CASE old + 1 <= Len(rs)
    <3>1. /\ fresh \in Seq(KeptReplies) /\ Len(fresh) = Len(rs) - old
          /\ \A i \in 1..(Len(rs) - old) : fresh[i] = rs[old + i]
      BY <1>1, <1>2, <2>1, <2>2
    <3>2. \A i \in 1..(Len(rs) - old) : old + i \in 1..Len(rs)
      BY <1>1, <1>2
    <3> HIDE DEF fresh
    <3> QED
      BY <3>1, <3>2
  <2>3. CASE ~(old + 1 <= Len(rs))
    <3>1. fresh = << >>
      BY <1>1, <1>2, <2>3, SubSeqEmpty
    <3>2. Len(fresh) = 0 /\ fresh \in Seq(KeptReplies)
      BY <3>1, EmptySeq
    <3> HIDE DEF fresh
    <3> QED
      BY <3>2
  <2> QED
    BY <2>2, <2>3
<1> HIDE DEF fresh
<1>6. room \in Seq(KeptReplies) /\ \A i \in 1..Len(room) : \E j \in 1..Len(rs) : room[i] = rs[j]
  <2>1. CASE Len(fresh) < ReplyMax
    BY <1>5, <2>1
  <2>2. CASE ~(Len(fresh) < ReplyMax)
    <3>1. Len(fresh) \in Nat /\ Len(fresh) > 0
      BY <1>5, <2>2, KnownConstants
    <3>2. /\ Tail(fresh) \in Seq(KeptReplies) /\ Len(Tail(fresh)) = Len(fresh) - 1
          /\ \A i \in 1..(Len(fresh) - 1) : Tail(fresh)[i] = fresh[i + 1]
      BY <1>5, <3>1, HeadTailProperties
    <3>3. \A i \in 1..(Len(fresh) - 1) : i + 1 \in 1..Len(fresh)
      BY <3>1
    <3> QED
      BY <1>5, <2>2, <3>2, <3>3
  <2> QED
    BY <2>1, <2>2
<1> HIDE DEF room
<1>7. /\ Append(room, new) \in Seq(KeptReplies) /\ Len(Append(room, new)) = Len(room) + 1
      /\ \A i \in 1..Len(room) : Append(room, new)[i] = room[i]
      /\ Append(room, new)[Len(room) + 1] = new
  BY <1>3, <1>6, AppendProperties
<1>8. ASSUME NEW i \in 1..(Len(room) + 1)
      PROVE  Append(room, new)[i] = new \/ \E j \in 1..Len(rs) : Append(room, new)[i] = rs[j]
  <2>1. Len(room) \in Nat
    BY <1>6
  <2>2. CASE i = Len(room) + 1
    BY <1>7, <2>2
  <2>3. CASE i \in 1..Len(room)
    BY <1>6, <1>7, <2>3
  <2> QED
    BY <2>1, <2>2, <2>3
<1> QED
  BY <1>4, <1>7, <1>8 DEF new

LEMMA Answering == \A m, out : Answer(m, out) => answers' \subseteq answers \cup {[m |-> m, out |-> out]}
  BY DEF Answer

\* The enclave is up as before and in the same life.
SameLife == enclave' \in Enclaves /\ enclave'.up = enclave.up /\ enclave'.life = enclave.life
SameDevices == now' = now /\ app' = app /\ signed' = signed /\ sent' = sent
SaysTo(m, out) == answers' \subseteq answers \cup {[m |-> m, out |-> out]}

LEMMA Fields ==
  ASSUME EnclaveType, now \in Nat
  PROVE  /\ enclave.life \in Nat \ {0} /\ enclave.sighted \subseteq Sights /\ enclave.up \in BOOLEAN
         /\ enclave.replies \in Seq(KeptReplies) /\ Len(enclave.replies) \in Nat /\ enclave.strikes \in Nat
         /\ Remembered \subseteq enclave.sighted
  BY DEF EnclaveType, Enclaves, Remembered

\* A request that is not let in changes nothing but what is said of it.
LEMMA TurnedAway ==
  ASSUME LinkInv, SaidInv, NEW m \in sent,
         ReplyAgain(m) \/ AttestAgain(m) \/ ClockTooFar(m) \/ AlreadyMade(m)
  PROVE  /\ SameDevices /\ SameLife /\ UNCHANGED <<work, pending, disk, times, told, most>>
         /\ enclave'.replies = enclave.replies /\ enclave'.strikes = enclave.strikes
         /\ enclave'.sighted \in {enclave.sighted, Remembered}
         /\ \E out \in Outs :
              /\ SaysTo(m, out) /\ IsSealed(m.req, out)
              /\ out = "attest again" => Signed(m.req).life # enclave.life
              /\ sealed' = sealed \/ sealed' = sealed \cup {[req |-> m.req, out |-> "clock"]}
<1> DEFINE said(out) ==
              /\ SaysTo(m, out) /\ IsSealed(m.req, out)
              /\ out = "attest again" => Signed(m.req).life # enclave.life
              /\ sealed' = sealed \/ sealed' = sealed \cup {[req |-> m.req, out |-> "clock"]}
<1>1. enclave \in Enclaves /\ now \in Nat
  BY DEF LinkInv, Types, EnclaveType, DeviceType
<1>2. CASE ReplyAgain(m)
  <2>1. PICK i \in Cached(m.req) : Answer(m, enclave.replies[i].out)
    BY <1>2 DEF ReplyAgain
  <2>2. /\ enclave.replies \in Seq(KeptReplies)
        /\ i \in 1..Len(enclave.replies) /\ enclave.replies[i].req = m.req
    BY <1>1, <2>1 DEF Cached, Enclaves
  <2>3. enclave.replies[i] \in KeptReplies
    BY <2>2, ElementOfSeq
  <2>4. enclave.replies[i].out \in Settled
    BY <2>3 DEF KeptReplies
  <2>5. IsSealed(m.req, enclave.replies[i].out)
    BY <2>2 DEF SaidInv
  <2>6. sealed' = sealed
    BY <1>2 DEF ReplyAgain, history
  <2>7. said(enclave.replies[i].out) /\ enclave.replies[i].out \in Outs
    BY <2>1, <2>4, <2>5, <2>6, Answering DEF SaysTo, Settled, Outs
  <2>8. UNCHANGED <<now, app, signed, sent, enclave, work, pending, disk, times, told, most>>
    BY <1>2 DEF ReplyAgain, history, book
  <2> QED
    BY <1>1, <2>7, <2>8 DEF SameDevices, SameLife
<1>3. CASE AttestAgain(m)
  <2>1. said("attest again")
    BY <1>3, Answering DEF AttestAgain, SaysTo, IsSealed, history
  <2>2. UNCHANGED <<now, app, signed, sent, enclave, work, pending, disk, times, told, most>>
    BY <1>3 DEF AttestAgain, history, book
  <2> QED
    BY <1>1, <2>1, <2>2 DEF SameDevices, SameLife, Outs
<1>4. CASE ClockTooFar(m)
  <2>1. said("clock")
    BY <1>4, Answering DEF ClockTooFar, SaysTo, IsSealed, Seal
  <2>2. UNCHANGED <<now, app, signed, sent, enclave, work, pending, disk, times, told, most>>
    BY <1>4 DEF ClockTooFar, book
  <2> QED
    BY <1>1, <2>1, <2>2 DEF SameDevices, SameLife, Outs
<1>5. CASE AlreadyMade(m)
  <2>1. said("already made")
    BY <1>5, Answering DEF AlreadyMade, SaysTo, IsSealed, history
  <2>2. UNCHANGED <<now, app, signed, sent, work, pending, disk, times, told, most>>
    BY <1>5 DEF AlreadyMade, history, book
  <2>3. enclave' = [enclave EXCEPT !.sighted = Remembered]
    BY <1>5 DEF AlreadyMade
  <2>4. Remembered \subseteq Sights
    BY <1>1, Fields DEF EnclaveType
  <2>5. /\ enclave' \in Enclaves /\ enclave'.up = enclave.up /\ enclave'.life = enclave.life
        /\ enclave'.sighted = Remembered /\ enclave'.replies = enclave.replies
        /\ enclave'.strikes = enclave.strikes
    BY <1>1, <2>3, <2>4 DEF Enclaves
  <2> QED
    BY <2>1, <2>2, <2>5 DEF SameDevices, SameLife, Outs
<1> QED
  BY <1>2, <1>3, <1>4, <1>5

\* An answer: sealed, said and, unless it is too big, kept.
AddsReply(r, out) ==
  \A i \in 1..Len(enclave'.replies) :
    \/ enclave'.replies[i].req = r /\ enclave'.replies[i].out = out
    \/ \E j \in 1..Len(enclave.replies) : enclave'.replies[i] = enclave.replies[j]

LEMMA Replying ==
  ASSUME EnclaveType, now \in Nat, NEW m \in Exchanges, NEW out \in Settled, NEW big \in BOOLEAN,
         NEW e \in Enclaves, e.replies = enclave.replies, Reply(m, out, big, e)
  PROVE  /\ enclave' \in Enclaves /\ enclave'.up = e.up /\ enclave'.life = e.life
         /\ enclave'.sighted = e.sighted /\ enclave'.strikes = e.strikes
         /\ AddsReply(m.req, out)
         /\ SaysTo(m, out) /\ sealed' = sealed \cup {[req |-> m.req, out |-> out]}
<1>1. SaysTo(m, out) /\ sealed' = sealed \cup {[req |-> m.req, out |-> out]}
  BY Answering DEF Reply, Seal, SaysTo
<1> DEFINE rs == Remember(e.replies, m.req, out)
<1>2. /\ rs \in Seq(KeptReplies)
      /\ \A i \in 1..Len(rs) :
           \/ rs[i] = [req |-> m.req, out |-> out, at |-> now]
           \/ \E j \in 1..Len(e.replies) : rs[i] = e.replies[j]
  BY Remembering DEF Enclaves, Exchanges
<1> HIDE DEF rs
<1>3. enclave' = e \/ enclave' = [e EXCEPT !.replies = rs]
  BY DEF Reply, rs
<1>4. CASE enclave' = e
  BY <1>1, <1>4 DEF AddsReply
<1>5. CASE enclave' = [e EXCEPT !.replies = rs]
  <2>1. /\ enclave' \in Enclaves /\ enclave'.up = e.up /\ enclave'.life = e.life
        /\ enclave'.sighted = e.sighted /\ enclave'.strikes = e.strikes /\ enclave'.replies = rs
    BY <1>2, <1>5 DEF Enclaves
  <2>2. AddsReply(m.req, out)
    BY <1>2, <2>1 DEF AddsReply
  <2> QED
    BY <1>1, <2>1, <2>2
<1> QED
  BY <1>3, <1>4, <1>5

\* What work on a request ends with.
EndsAs(w, out) ==
  \/ w.stage = "asked" /\ out = "done" /\ CarryOut(w.m.req)
  \/ w.stage = "asked" /\ out = "refused" /\ times' = times
  \/ w.stage = "waits" /\ out = "done" /\ w.mark = 0 /\ times' = times
  \/ w.stage = "waits" /\ out = "try again" /\ times' = times

LEMMA WorkEnds ==
  ASSUME LinkInv, NEW w \in work,
         \/ \E yes \in BOOLEAN : Answered(w, yes) \/ Declined(w, yes)
         \/ NotAnswered(w) \/ HostConfirmed(w) \/ HostTooSlow(w)
  PROVE  /\ SameDevices /\ SameLife /\ UNCHANGED <<pending, disk, told, most>>
         /\ enclave'.sighted = enclave.sighted
         /\ \/ enclave'.strikes = enclave.strikes
            \/ w.stage = "asked" /\ enclave'.strikes = enclave.strikes + 1
         /\ work' = work \ {w}
         /\ \E out \in Settled :
              /\ SaysTo(w.m, out) /\ AddsReply(w.m.req, out)
              /\ sealed' = sealed \cup {[req |-> w.m.req, out |-> out]}
              /\ EndsAs(w, out)
<1>1. /\ EnclaveType /\ now \in Nat /\ enclave \in Enclaves
      /\ w.m \in Exchanges /\ Strike \in Enclaves /\ Strike.replies = enclave.replies
      /\ Strike.up = enclave.up /\ Strike.life = enclave.life
      /\ Strike.sighted = enclave.sighted /\ Strike.strikes = enclave.strikes + 1
  <2>1. EnclaveType /\ now \in Nat /\ work \subseteq Works
    BY DEF LinkInv, Types, DeviceType, WorkType
  <2>2. w.m \in Exchanges
    BY <2>1 DEF Works
  <2>3. enclave \in Enclaves
    BY <2>1 DEF EnclaveType
  <2> QED
    BY <2>1, <2>2, <2>3 DEF Strike, Enclaves
<1>2. work' = work \ {w} /\ SameDevices /\ UNCHANGED <<pending, disk, told, most>>
  BY DEF Answered, Declined, NotAnswered, HostConfirmed, HostTooSlow, SameDevices, book
<1>3. ASSUME NEW yes \in BOOLEAN, Answered(w, yes)
      PROVE  /\ w.stage = "asked" /\ CarryOut(w.m.req) /\ Reply(w.m, "done", yes, enclave)
  BY <1>3 DEF Answered
<1>4. ASSUME NEW yes \in BOOLEAN, Declined(w, yes)
      PROVE  \E out \in Settled : w.stage = "asked" /\ EndsAs(w, out) /\ Reply(w.m, out, FALSE, Strike)
  BY <1>4 DEF Declined, EndsAs, Settled
<1>5. ASSUME NotAnswered(w)
      PROVE  w.stage = "asked" /\ times' = times /\ Reply(w.m, "refused", FALSE, enclave)
  BY <1>5 DEF NotAnswered
<1>6. ASSUME HostConfirmed(w)
      PROVE  w.stage = "waits" /\ w.mark = 0 /\ times' = times /\ Reply(w.m, "done", FALSE, enclave)
  BY <1>6 DEF HostConfirmed, Confirmed
<1>7. ASSUME HostTooSlow(w)
      PROVE  w.stage = "waits" /\ times' = times /\ Reply(w.m, "try again", FALSE, enclave)
  BY <1>7 DEF HostTooSlow
<1>8. \E out \in Settled, big \in BOOLEAN, e \in {enclave, Strike} :
        EndsAs(w, out) /\ Reply(w.m, out, big, e) /\ (e = enclave \/ w.stage = "asked")
  <2>1. CASE \E yes \in BOOLEAN : Answered(w, yes)
    BY <1>3, <2>1 DEF EndsAs, Settled
  <2>2. CASE \E yes \in BOOLEAN : Declined(w, yes)
    BY <1>4, <2>2
  <2>3. CASE NotAnswered(w)
    BY <1>5, <2>3 DEF EndsAs, Settled
  <2>4. CASE HostConfirmed(w)
    BY <1>6, <2>4 DEF EndsAs, Settled
  <2>5. CASE HostTooSlow(w)
    BY <1>7, <2>5 DEF EndsAs, Settled
  <2> QED
    BY <2>1, <2>2, <2>3, <2>4, <2>5
<1>9. PICK out \in Settled, big \in BOOLEAN, e \in {enclave, Strike} :
        EndsAs(w, out) /\ Reply(w.m, out, big, e) /\ (e = enclave \/ w.stage = "asked")
  BY <1>8
<1>10. e \in Enclaves /\ e.replies = enclave.replies
  BY <1>1
<1>11. /\ enclave' \in Enclaves /\ enclave'.up = e.up /\ enclave'.life = e.life
       /\ enclave'.sighted = e.sighted /\ enclave'.strikes = e.strikes
       /\ AddsReply(w.m.req, out)
       /\ SaysTo(w.m, out) /\ sealed' = sealed \cup {[req |-> w.m.req, out |-> out]}
  BY <1>1, <1>9, <1>10, Replying
<1>12. SameLife /\ enclave'.sighted = enclave.sighted
       /\ (enclave'.strikes = enclave.strikes
           \/ (w.stage = "asked" /\ enclave'.strikes = enclave.strikes + 1))
  BY <1>1, <1>9, <1>11 DEF SameLife
<1> QED
  BY <1>2, <1>9, <1>11, <1>12

\* A request that is seen for the first time.
LetsIn(m) ==
  /\ FirstSight(m) /\ SameDevices /\ SameLife /\ UNCHANGED <<disk, told>>
  /\ enclave'.sighted = Remembered \cup {[req |-> m.req, at |-> now]}
  /\ enclave'.strikes = enclave.strikes

LEMMA SightedFields ==
  ASSUME LinkInv, NEW m \in sent
  PROVE  /\ Sighted(m.req) \in Enclaves
         /\ Sighted(m.req).up = enclave.up /\ Sighted(m.req).life = enclave.life
         /\ Sighted(m.req).sighted = Remembered \cup {[req |-> m.req, at |-> now]}
         /\ Sighted(m.req).strikes = enclave.strikes /\ Sighted(m.req).replies = enclave.replies
<1>1. EnclaveType /\ now \in Nat /\ m \in Exchanges
  BY DEF LinkInv, Types, DeviceType
<1>2. enclave \in Enclaves /\ [req |-> m.req, at |-> now] \in Sights
  BY <1>1 DEF EnclaveType, Exchanges, Sights
<1>3. Remembered \cup {[req |-> m.req, at |-> now]} \in SUBSET Sights
  BY <1>1, <1>2, Fields
<1> QED
  BY <1>2, <1>3 DEF Sighted, Enclaves

LEMMA QuestionDoes ==
  ASSUME LinkInv, NEW m \in sent, Question(m)
  PROVE  /\ LetsIn(m) /\ UNCHANGED <<answers, pending, times, sealed>>
         /\ enclave'.replies = enclave.replies
         /\ work' = work \cup {[m |-> m, stage |-> "asked", mark |-> 0]}
<1>1. /\ FirstSight(m) /\ enclave' = Sighted(m.req)
      /\ work' = work \cup {[m |-> m, stage |-> "asked", mark |-> 0]}
      /\ SameDevices /\ UNCHANGED <<answers, pending, disk, times, sealed, told>>
  BY DEF Question, SameDevices, book
<1> QED
  BY <1>1, SightedFields DEF LetsIn, SameLife

LEMMA PurchaseDoes ==
  ASSUME LinkInv, NEW m \in sent, Purchase(m)
  PROVE  /\ LetsIn(m) /\ UNCHANGED <<answers, sealed, most>> /\ CarryOut(m.req)
         /\ enclave'.replies = enclave.replies
         /\ pending' = Append(pending, m.req)
         /\ work' = work \cup {[m |-> m, stage |-> "waits", mark |-> Len(pending) + 1]}
<1>1. /\ FirstSight(m) /\ enclave' = Sighted(m.req) /\ CarryOut(m.req)
      /\ pending' = Append(pending, m.req)
      /\ work' = work \cup {[m |-> m, stage |-> "waits", mark |-> Len(pending) + 1]}
      /\ SameDevices /\ UNCHANGED <<answers, disk, sealed, told, most>>
  BY DEF Purchase, SameDevices
<1> QED
  BY <1>1, SightedFields DEF LetsIn, SameLife

LEMMA NotAskedDoes ==
  ASSUME LinkInv, NEW m \in sent, NotAsked(m)
  PROVE  /\ LetsIn(m) /\ UNCHANGED <<work, pending, times, most>>
         /\ SaysTo(m, "refused") /\ AddsReply(m.req, "refused")
         /\ sealed' = sealed \cup {[req |-> m.req, out |-> "refused"]}
<1>1. /\ FirstSight(m) /\ Reply(m, "refused", FALSE, Sighted(m.req))
      /\ SameDevices /\ UNCHANGED <<work, pending, disk, times, told, most>>
  BY DEF NotAsked, SameDevices, book
<1>2. m \in Exchanges /\ EnclaveType /\ now \in Nat /\ "refused" \in Settled
  BY DEF LinkInv, Types, DeviceType, Settled
<1>3. /\ enclave' \in Enclaves /\ enclave'.up = Sighted(m.req).up /\ enclave'.life = Sighted(m.req).life
      /\ enclave'.sighted = Sighted(m.req).sighted /\ enclave'.strikes = Sighted(m.req).strikes
      /\ SaysTo(m, "refused") /\ AddsReply(m.req, "refused")
      /\ sealed' = sealed \cup {[req |-> m.req, out |-> "refused"]}
  BY <1>1, <1>2, SightedFields, Replying
<1> QED
  BY <1>1, <1>3, SightedFields DEF LetsIn, SameLife

-----------------------------------------------------------------------------
(* The types, and what is on its way.                                       *)

\* What was signed stays signed.
Grows ==
  /\ signed' \in [Apps -> Seq(Signatures)]
  /\ \A a \in Apps : Len(signed[a]) <= Len(signed'[a])
                     /\ \A n \in 1..Len(signed[a]) : signed'[a][n] = signed[a][n]

LEMMA MadeStays ==
  ASSUME DeviceType, Grows, NEW r \in Requests, Made(r)
  PROVE  Made(r)' /\ Signed(r)' = Signed(r)
<1>1. r.app \in Apps /\ r.n \in Nat
  BY KnownConstants DEF Requests
<1>2. Len(signed[r.app]) \in Nat /\ Len(signed'[r.app]) \in Nat
  BY <1>1 DEF DeviceType, Grows
<1> QED
  BY <1>1, <1>2 DEF Grows, Made, Signed

LEMMA LinkInit == Init => LinkInv
<1> SUFFICES ASSUME Init PROVE LinkInv
  OBVIOUS
<1>1. /\ now = 0 /\ sent = {} /\ answers = {} /\ work = {} /\ pending = <<>> /\ disk = {}
      /\ times = [r \in Requests |-> 0] /\ sealed = {} /\ told = {} /\ most = 0
      /\ signed = [a \in Apps |-> <<>>]
      /\ enclave = [up |-> TRUE, life |-> 1, sighted |-> {}, replies |-> <<>>, strikes |-> 0]
      /\ app = [a \in Apps |-> [pc |-> "idle", kind |-> "question", attempt |-> 1, m |-> NoRequest, session |-> 0]]
  BY DEF Init
<1>2. \A a \in Apps : NoRequest \in [req : [app : Apps, n : Nat], try : Nat]
  <2> TAKE b \in Apps
  <2>1. (CHOOSE a \in Apps : TRUE) \in Apps
    OBVIOUS
  <2> QED
    BY <2>1 DEF NoRequest
<1>3. app \in [Apps -> Connections]
  BY <1>1, <1>2 DEF Connections, Ask
<1>4. DeviceType
  BY <1>1, <1>3 DEF DeviceType
<1>5. EnclaveType
  BY <1>1 DEF EnclaveType, Enclaves
<1>6. WorkType
  BY <1>1, FS_EmptySet DEF WorkType
<1>7. SaidType
  BY <1>1 DEF SaidType
<1>8. Links
  BY <1>1 DEF Links
<1>9. Lives
  BY <1>1 DEF Lives
<1> QED
  BY <1>4, <1>5, <1>6, <1>7, <1>8, <1>9 DEF LinkInv, Types

\* A step of the enclave that leaves what the devices hold.
LEMMA LinkEnclave ==
  ASSUME LinkInv, now' \in Nat, app' = app, signed' = signed, sent' = sent,
         EnclaveType', enclave.life <= enclave'.life, WorkType', SaidType',
         \A x \in answers' : x.m \in sent, \A w \in work' : w.m \in sent
  PROVE  LinkInv'
<1>1. DeviceType'
  BY DEF LinkInv, Types, DeviceType
<1>2. Links'
  BY DEF LinkInv, Links, Made
<1>3. enclave.life \in Nat /\ enclave'.life \in Nat
  BY DEF LinkInv, Types, EnclaveType, Enclaves
<1>4. \A a \in Apps, n \in Nat : n \in 1..Len(signed[a]) => signed[a][n].life \in Nat
  <2> SUFFICES ASSUME NEW a \in Apps, NEW n \in Nat, n \in 1..Len(signed[a])
               PROVE  signed[a][n].life \in Nat
    OBVIOUS
  <2>1. signed[a] \in Seq(Signatures)
    BY DEF LinkInv, Types, DeviceType
  <2>2. signed[a][n] \in Signatures
    BY <2>1, ElementOfSeq
  <2> QED
    BY <2>2 DEF Signatures
<1>5. \A a \in Apps : app[a].session \in Nat
  BY DEF LinkInv, Types, DeviceType, Connections
<1>6. Lives'
  BY <1>3, <1>4, <1>5 DEF LinkInv, Lives
<1> QED
  BY <1>1, <1>2, <1>6 DEF LinkInv, Types

LEMMA LinkTurnedAway ==
  ASSUME LinkInv, SaidInv, NEW m \in sent,
         ReplyAgain(m) \/ AttestAgain(m) \/ ClockTooFar(m) \/ AlreadyMade(m)
  PROVE  LinkInv'
<1>1. /\ SameDevices /\ SameLife /\ UNCHANGED <<work, pending, disk, times, told, most>>
  BY TurnedAway
<1>2. PICK out \in Outs :
         /\ SaysTo(m, out)
         /\ sealed' = sealed \/ sealed' = sealed \cup {[req |-> m.req, out |-> "clock"]}
  BY TurnedAway
<1>3. m \in Exchanges
  BY DEF LinkInv, Types, DeviceType
<1>4. [m |-> m, out |-> out] \in [m : Exchanges, out : Outs] /\ [req |-> m.req, out |-> "clock"] \in Said
  BY <1>3 DEF Exchanges, Said, Outs
<1>5. SaidType'
  BY <1>1, <1>2, <1>4 DEF LinkInv, Types, SaidType, SaysTo
<1>6. WorkType'
  BY <1>1 DEF LinkInv, Types, WorkType
<1>7. EnclaveType' /\ enclave.life <= enclave'.life /\ now' \in Nat
  BY <1>1 DEF LinkInv, Types, SameLife, EnclaveType, Enclaves, SameDevices, DeviceType
<1>8. (\A x \in answers' : x.m \in sent) /\ (\A w \in work' : w.m \in sent)
  BY <1>1, <1>2 DEF SaysTo, LinkInv, Links
<1> QED
  BY <1>1, <1>5, <1>6, <1>7, <1>8, LinkEnclave DEF SameDevices

LEMMA LinkWorkEnds ==
  ASSUME LinkInv, NEW w \in work,
         \/ \E yes \in BOOLEAN : Answered(w, yes) \/ Declined(w, yes)
         \/ NotAnswered(w) \/ HostConfirmed(w) \/ HostTooSlow(w)
  PROVE  LinkInv'
<1>1. /\ SameDevices /\ SameLife /\ UNCHANGED <<pending, disk, told, most>> /\ work' = work \ {w}
  BY WorkEnds
<1>2. PICK out \in Settled :
         /\ SaysTo(w.m, out) /\ sealed' = sealed \cup {[req |-> w.m.req, out |-> out]}
         /\ EndsAs(w, out)
  BY WorkEnds
<1>3. w.m \in Exchanges /\ w.m \in sent
  BY DEF LinkInv, Types, DeviceType, Links
<1>4. [m |-> w.m, out |-> out] \in [m : Exchanges, out : Outs] /\ [req |-> w.m.req, out |-> out] \in Said
  BY <1>3 DEF Exchanges, Said, Outs, Settled
<1>5. SaidType'
  BY <1>1, <1>2, <1>4 DEF LinkInv, Types, SaidType, SaysTo
<1>6. times' \in [Requests -> Nat]
  <2>1. times \in [Requests -> Nat] /\ w.m.req \in Requests
    BY <1>3 DEF Exchanges, LinkInv, Types, WorkType
  <2>2. times' = times \/ CarryOut(w.m.req)
    BY <1>2 DEF EndsAs
  <2> QED
    BY <2>1, <2>2 DEF CarryOut
<1>7. WorkType'
  BY <1>1, <1>6, FS_RemoveElement DEF LinkInv, Types, WorkType
<1>8. EnclaveType' /\ enclave.life <= enclave'.life /\ now' \in Nat
  BY <1>1 DEF LinkInv, Types, SameLife, EnclaveType, Enclaves, SameDevices, DeviceType
<1>9. (\A x \in answers' : x.m \in sent) /\ (\A v \in work' : v.m \in sent)
  BY <1>1, <1>2, <1>3 DEF SaysTo, LinkInv, Links
<1> QED
  BY <1>1, <1>5, <1>7, <1>8, <1>9, LinkEnclave DEF SameDevices

LEMMA LinkLetsIn ==
  ASSUME LinkInv, NEW m \in sent, Question(m) \/ NotAsked(m) \/ Purchase(m)
  PROVE  LinkInv'
<1>1. LetsIn(m)
  BY QuestionDoes, NotAskedDoes, PurchaseDoes
<1>2. m \in Exchanges /\ m.req \in Requests
  BY DEF LinkInv, Types, DeviceType, Exchanges
<1>3. [m |-> m, out |-> "refused"] \in [m : Exchanges, out : Outs] /\ [req |-> m.req, out |-> "refused"] \in Said
  BY <1>2 DEF Said, Outs
<1>4. SaysTo(m, "refused") \/ answers' = answers
  BY QuestionDoes, NotAskedDoes, PurchaseDoes
<1>5. sealed' = sealed \/ sealed' = sealed \cup {[req |-> m.req, out |-> "refused"]}
  BY QuestionDoes, NotAskedDoes, PurchaseDoes
<1>6. SaidType'
  BY <1>1, <1>3, <1>4, <1>5 DEF LinkInv, Types, SaidType, SaysTo, LetsIn
<1>7. pending \in Seq(Requests) /\ Len(pending) \in Nat /\ work \subseteq Works /\ times \in [Requests -> Nat]
      /\ most \in Nat /\ IsFiniteSet(work)
  BY DEF LinkInv, Types, WorkType
<1>8. pending' \in Seq(Requests) /\ times' \in [Requests -> Nat]
  <2>1. \/ pending' = pending /\ times' = times
        \/ pending' = Append(pending, m.req) /\ CarryOut(m.req)
    BY QuestionDoes, NotAskedDoes, PurchaseDoes
  <2>2. Append(pending, m.req) \in Seq(Requests)
    BY <1>2, <1>7, AppendProperties
  <2>3. CarryOut(m.req) => times' \in [Requests -> Nat]
    BY <1>2, <1>7 DEF CarryOut
  <2> QED
    BY <1>7, <2>1, <2>2, <2>3
<1>9. work' = work \/ \E w \in Works : w.m = m /\ work' = work \cup {w}
  <2> DEFINE asks == [m |-> m, stage |-> "asked", mark |-> 0]
             buys == [m |-> m, stage |-> "waits", mark |-> Len(pending) + 1]
  <2>1. work' = work \/ work' = work \cup {asks} \/ work' = work \cup {buys}
    BY QuestionDoes, NotAskedDoes, PurchaseDoes
  <2>2. asks \in Works /\ asks.m = m /\ buys \in Works /\ buys.m = m
    BY <1>2, <1>7 DEF Works
  <2> QED
    BY <2>1, <2>2
<1>10. work' \subseteq Works /\ IsFiniteSet(work')
  BY <1>7, <1>9, FS_AddElement
<1>11. most' \in Nat
  <2>1. IsFiniteSet(Asked)
    BY <1>7, FS_Subset DEF Asked
  <2>2. Cardinality(Asked) \in Nat
    BY <2>1, FS_CardinalityType
  <2>3. Question(m) => most' \in {most, Cardinality(Asked) + 1}
    BY DEF Question
  <2> QED
    BY <1>7, <2>2, <2>3, NotAskedDoes, PurchaseDoes
<1>12. WorkType'
  BY <1>1, <1>8, <1>10, <1>11 DEF LinkInv, Types, WorkType, LetsIn
<1>13. EnclaveType' /\ enclave.life <= enclave'.life /\ now' \in Nat
  BY <1>1 DEF LinkInv, Types, SameLife, EnclaveType, Enclaves, SameDevices, DeviceType, LetsIn
<1>14. (\A x \in answers' : x.m \in sent) /\ (\A v \in work' : v.m \in sent)
  BY <1>4, <1>9 DEF SaysTo, LinkInv, Links
<1> QED
  BY <1>1, <1>6, <1>12, <1>13, <1>14, LinkEnclave DEF SameDevices, LetsIn

Nearer(w) == IF w.mark > 0 THEN [w EXCEPT !.mark = @ - 1] ELSE w

LEMMA FlushDoes ==
  ASSUME WorkType, Flush
  PROVE  /\ SameDevices /\ UNCHANGED <<enclave, answers, times, sealed, told, most>>
         /\ pending # <<>> /\ disk' = disk \cup {Head(pending)} /\ pending' = Tail(pending)
         /\ work' = {Nearer(w) : w \in work}
         /\ \A w \in work : /\ Nearer(w) \in Works /\ Nearer(w).m = w.m /\ Nearer(w).stage = w.stage
                            /\ Nearer(w).mark = IF w.mark > 0 THEN w.mark - 1 ELSE 0
<1>1. /\ SameDevices /\ UNCHANGED <<enclave, answers, times, sealed, told, most>>
      /\ pending # <<>> /\ disk' = disk \cup {Head(pending)} /\ pending' = Tail(pending)
      /\ work' = {Nearer(w) : w \in work}
  BY DEF Flush, SameDevices, history, Nearer
<1>2. ASSUME NEW w \in work
      PROVE  /\ Nearer(w) \in Works /\ Nearer(w).m = w.m /\ Nearer(w).stage = w.stage
             /\ Nearer(w).mark = IF w.mark > 0 THEN w.mark - 1 ELSE 0
  <2>1. w \in Works
    BY DEF WorkType
  <2>2. CASE w.mark > 0
    BY <2>1, <2>2 DEF Nearer, Works
  <2>3. CASE ~(w.mark > 0)
    BY <2>1, <2>3 DEF Nearer, Works
  <2> QED
    BY <2>2, <2>3
<1> QED
  BY <1>1, <1>2

LEMMA LinkFlush ==
  ASSUME LinkInv, Flush
  PROVE  LinkInv'
<1>1. WorkType
  BY DEF LinkInv, Types
<1>2. pending \in Seq(Requests) /\ pending # <<>>
  BY <1>1, FlushDoes DEF WorkType
<1>3. Head(pending) \in Requests /\ Tail(pending) \in Seq(Requests)
  BY <1>2
<1>4. IsFiniteSet(work')
  <2> DEFINE f == [w \in work |-> Nearer(w)]
  <2>1. work' = {Nearer(w) : w \in work} /\ IsFiniteSet(work)
    BY <1>1, FlushDoes DEF WorkType
  <2>2. f \in Surjection(work, work')
    BY <2>1 DEF Surjection
  <2> QED
    BY <2>1, <2>2, FS_Surjection
<1>5. WorkType'
  BY <1>1, <1>3, <1>4, FlushDoes DEF WorkType
<1>6. EnclaveType' /\ SaidType' /\ now' \in Nat /\ enclave.life <= enclave'.life
  BY <1>1, FlushDoes DEF LinkInv, Types, EnclaveType, Enclaves, SaidType, SameDevices, DeviceType
<1>7. (\A x \in answers' : x.m \in sent) /\ (\A w \in work' : w.m \in sent)
  BY <1>1, FlushDoes DEF LinkInv, Links
<1> QED
  BY <1>1, <1>5, <1>6, <1>7, FlushDoes, LinkEnclave DEF SameDevices

LEMMA StopDoes ==
  ASSUME EnclaveType, Stop
  PROVE  /\ SameDevices /\ UNCHANGED <<answers, disk, times, sealed, told>>
         /\ work' = {} /\ pending' = <<>> /\ most' = 0
         /\ enclave' \in Enclaves /\ ~enclave'.up /\ enclave'.life = enclave.life
         /\ enclave'.sighted = {} /\ enclave'.replies = <<>> /\ enclave'.strikes = 0
<1> DEFINE e == [enclave EXCEPT !.up = FALSE, !.sighted = {}, !.replies = <<>>, !.strikes = 0]
<1>1. /\ SameDevices /\ UNCHANGED <<answers, disk, times, sealed, told>>
      /\ work' = {} /\ pending' = <<>> /\ most' = 0 /\ enclave' = e
  BY DEF Stop, SameDevices
<1>2. <<>> \in Seq(KeptReplies)
  BY EmptySeq
<1>3. e \in Enclaves /\ e.life = enclave.life
  BY <1>2 DEF EnclaveType, Enclaves
<1>4. ~e.up /\ e.sighted = {} /\ e.replies = <<>> /\ e.strikes = 0
  BY DEF EnclaveType, Enclaves
<1> QED
  BY <1>1, <1>3, <1>4

LEMMA StartDoes ==
  ASSUME EnclaveType, Start
  PROVE  /\ SameDevices /\ UNCHANGED <<answers, work, pending, disk, times, sealed, told, most>>
         /\ ~enclave.up
         /\ enclave' \in Enclaves /\ enclave'.up /\ enclave'.life = enclave.life + 1
         /\ enclave'.sighted = enclave.sighted /\ enclave'.replies = enclave.replies
         /\ enclave'.strikes = enclave.strikes
<1>1. /\ SameDevices /\ UNCHANGED <<answers, work, pending, disk, times, sealed, told, most>>
      /\ ~enclave.up /\ enclave' = [enclave EXCEPT !.up = TRUE, !.life = @ + 1]
  BY DEF Start, SameDevices, history, book
<1> DEFINE e == [enclave EXCEPT !.up = TRUE, !.life = @ + 1]
<1>2. enclave.life + 1 \in Nat \ {0} /\ enclave \in Enclaves
  BY DEF EnclaveType, Enclaves
<1>3. e \in Enclaves /\ e.life = enclave.life + 1
  BY <1>2 DEF Enclaves
<1>4. e.up /\ e.sighted = enclave.sighted /\ e.replies = enclave.replies /\ e.strikes = enclave.strikes
  BY <1>2 DEF Enclaves
<1> QED
  BY <1>1, <1>3, <1>4

LEMMA LinkStops ==
  ASSUME LinkInv, Stop \/ Start \/ Tick
  PROVE  LinkInv'
<1>1. EnclaveType /\ WorkType /\ SaidType /\ now \in Nat /\ enclave.life \in Nat
  BY DEF LinkInv, Types, DeviceType, EnclaveType, Enclaves
<1>2. CASE Stop
  <2>1. WorkType'
    <3>1. work' = {} /\ pending' = <<>> /\ disk' = disk /\ times' = times /\ most' = 0
      BY <1>1, <1>2, StopDoes
    <3>2. IsFiniteSet({}) /\ <<>> \in Seq(Requests)
      BY FS_EmptySet, EmptySeq
    <3> QED
      BY <1>1, <3>1, <3>2 DEF WorkType
  <2>2. EnclaveType' /\ SaidType' /\ now' \in Nat /\ enclave.life <= enclave'.life
    BY <1>1, <1>2, StopDoes DEF EnclaveType, SaidType, SameDevices
  <2>3. (\A x \in answers' : x.m \in sent) /\ (\A w \in work' : w.m \in sent)
    BY <1>1, <1>2, StopDoes DEF LinkInv, Links
  <2> QED
    BY <1>1, <1>2, <2>1, <2>2, <2>3, StopDoes, LinkEnclave DEF SameDevices
<1>3. CASE Start
  <2>1. WorkType' /\ SaidType'
    BY <1>1, <1>3, StartDoes DEF WorkType, SaidType
  <2>2. EnclaveType' /\ now' \in Nat /\ enclave.life <= enclave'.life
    BY <1>1, <1>3, StartDoes DEF EnclaveType, SameDevices
  <2>3. (\A x \in answers' : x.m \in sent) /\ (\A w \in work' : w.m \in sent)
    BY <1>1, <1>3, StartDoes DEF LinkInv, Links
  <2> QED
    BY <1>1, <1>3, <2>1, <2>2, <2>3, StartDoes, LinkEnclave DEF SameDevices
<1>4. CASE Tick
  <2>1. now' = now + 1 /\ UNCHANGED <<app, signed, sent, answers, enclave, work, pending, disk, times, sealed, told, most>>
    BY <1>4 DEF Tick, book, history
  <2>2. WorkType' /\ SaidType' /\ EnclaveType' /\ now' \in Nat /\ enclave.life <= enclave'.life
    BY <1>1, <2>1 DEF WorkType, SaidType, EnclaveType
  <2>3. (\A x \in answers' : x.m \in sent) /\ (\A w \in work' : w.m \in sent)
    BY <2>1 DEF LinkInv, Links
  <2> QED
    BY <2>1, <2>2, <2>3, LinkEnclave
<1> QED
  BY <1>2, <1>3, <1>4

-----------------------------------------------------------------------------
(* The devices.                                                             *)

DeviceStep(a) == Device(a) \/ Cancel(a) \/ \E kind \in Kinds : Call(a, kind)
\* A step of a device touches nothing of the enclave.
OnlyDevices == UNCHANGED <<now, enclave, work, pending, disk, times, sealed, most>>
\* What a device is told was on its way to it.
ToldOf == \A t \in told' : t \in told \/ \E x \in answers : t = [req |-> x.m.req, out |-> x.out]

\* A device goes on to c, but for signing and sending.
GoesOnTo(a, c) ==
  \/ c.pc = "idle" /\ c.session \in {app[a].session, 0}
  \/ c.pc = "ready" /\ c.attempt = 1 /\ c.session = app[a].session
  \/ /\ c.pc = "ready" /\ app[a].pc = "ready" /\ c.attempt = app[a].attempt
     /\ c.session = enclave.life
  \/ /\ c.pc = "ready" /\ c.attempt = 2 /\ c.session = 0
     /\ app[a].pc = "waits" /\ app[a].attempt = 1
     /\ \E x \in answers : x.m = app[a].m /\ x.out = "attest again"

LEMMA DeviceDoes ==
  ASSUME LinkInv, NEW a \in Apps, DeviceStep(a), ~Sign(a), ~Lost(a)
  PROVE  /\ OnlyDevices /\ UNCHANGED <<signed, sent>>
         /\ answers' \subseteq answers /\ ToldOf
         /\ \E c \in Connections : app' = [app EXCEPT ![a] = c] /\ GoesOnTo(a, c)
<1>1. /\ app \in [Apps -> Connections] /\ app[a] \in Connections /\ enclave.life \in Nat
      /\ Kinds \subseteq Ask
  BY KnownConstants DEF LinkInv, Types, DeviceType, EnclaveType, Enclaves
<1>2. /\ app[a].pc \in {"idle", "ready", "waits"} /\ app[a].attempt \in {1, 2}
      /\ [app[a] EXCEPT !.pc = "idle"] \in Connections
      /\ [app[a] EXCEPT !.session = enclave.life] \in Connections
      /\ [[app[a] EXCEPT !.session = 0] EXCEPT !.pc = "idle"] \in Connections
  BY <1>1 DEF Connections
<1>3. Forget(a) \subseteq answers
  BY DEF Forget
<1>4. CASE \E kind \in Kinds : Call(a, kind)
  <2>1. PICK kind \in Kinds : Call(a, kind)
    BY <1>4
  <2> DEFINE c == [app[a] EXCEPT !.pc = "ready", !.kind = kind, !.attempt = 1]
  <2>2. c \in Connections /\ GoesOnTo(a, c)
    BY <1>1, <2>1 DEF Connections, GoesOnTo
  <2>3. app' = [app EXCEPT ![a] = c]
    BY <1>1, <2>1 DEF Call
  <2>4. OnlyDevices /\ UNCHANGED <<signed, sent, answers, told>>
    BY <2>1 DEF Call, OnlyDevices, book, history
  <2> QED
    BY <2>2, <2>3, <2>4 DEF ToldOf
<1>5. CASE Attest(a)
  <2> DEFINE c == [app[a] EXCEPT !.session = enclave.life]
  <2>1. app' = [app EXCEPT ![a] = c] /\ app[a].pc = "ready"
    BY <1>1, <1>5 DEF Attest, Attestation
  <2>2. c \in Connections /\ GoesOnTo(a, c)
    BY <1>1, <1>2, <2>1 DEF Connections, GoesOnTo
  <2>3. OnlyDevices /\ UNCHANGED <<signed, sent, answers, told>>
    BY <1>5 DEF Attest, OnlyDevices, book, history
  <2> QED
    BY <2>1, <2>2, <2>3 DEF ToldOf
<1>6. CASE NotReady(a) \/ GivesUp(a) \/ Cancel(a)
  <2> DEFINE c == [app[a] EXCEPT !.pc = "idle"]
  <2>1. app' = [app EXCEPT ![a] = c] /\ answers' = Forget(a) /\ told' = told
    BY <1>6 DEF NotReady, GivesUp, Cancel, Fails
  <2>2. c \in Connections /\ GoesOnTo(a, c)
    BY <1>1, <1>2 DEF Connections, GoesOnTo
  <2>3. OnlyDevices /\ UNCHANGED <<signed, sent>>
    BY <1>6 DEF NotReady, GivesUp, Cancel, OnlyDevices, book
  <2> QED
    BY <1>3, <2>1, <2>2, <2>3 DEF ToldOf
<1>7. ASSUME NEW x \in answers, x.m.req.app = a, Hear(x)
      PROVE  /\ OnlyDevices /\ UNCHANGED <<signed, sent>>
             /\ answers' \subseteq answers /\ ToldOf
             /\ \E c \in Connections : app' = [app EXCEPT ![a] = c] /\ GoesOnTo(a, c)
  <2>1. /\ OnlyDevices /\ UNCHANGED <<signed, sent>> /\ app[a].pc = "waits" /\ app[a].m = x.m
    BY <1>7 DEF Hear, OnlyDevices, book, Waiting
  <2>2. CASE SignsAgain(x.out) /\ app[a].attempt < Attempts
    <3> DEFINE c == [app[a] EXCEPT !.pc = "ready", !.attempt = @ + 1, !.session = 0]
    <3>1. app' = [app EXCEPT ![a] = c] /\ answers' = Forget(a) /\ told' = told
      BY <1>1, <1>7, <2>2 DEF Hear
    <3>2. app[a].attempt = 1
      BY <1>2, <2>2 DEF Attempts
    <3>3. c \in Connections /\ c.pc = "ready" /\ c.attempt = 2 /\ c.session = 0
      <4>1. c = [app[a] EXCEPT !.pc = "ready", !.attempt = 2, !.session = 0]
        BY <1>1, <3>2 DEF Connections
      <4> QED
        BY <1>1, <4>1 DEF Connections
    <3>4. GoesOnTo(a, c)
      BY <1>7, <2>1, <2>2, <3>2, <3>3 DEF GoesOnTo, SignsAgain
    <3> HIDE DEF c
    <3> QED
      BY <1>3, <2>1, <3>1, <3>3, <3>4 DEF ToldOf
  <2>3. CASE SignsAgain(x.out) /\ ~(app[a].attempt < Attempts)
    <3>0. PICK session : session = Keeps(a) /\ session \in {app[a].session, 0} /\ session \in Nat
      BY <1>1 DEF Keeps, Connections
    <3> DEFINE c == [[app[a] EXCEPT !.session = session] EXCEPT !.pc = "idle"]
    <3>1. app' = [app EXCEPT ![a] = c] /\ answers' = Forget(a) /\ told' = told
      BY <1>7, <2>1, <2>3, <3>0 DEF Hear, Fails
    <3>2. c \in Connections /\ c.pc = "idle" /\ c.session \in {app[a].session, 0}
      BY <1>1, <3>0 DEF Connections
    <3>3. GoesOnTo(a, c)
      BY <3>2 DEF GoesOnTo
    <3> HIDE DEF c
    <3> QED
      BY <1>3, <2>1, <3>1, <3>2, <3>3 DEF ToldOf
  <2>4. CASE ~SignsAgain(x.out)
    <3> DEFINE c == [app[a] EXCEPT !.pc = "idle"]
    <3>1. /\ app' = [app EXCEPT ![a] = c] /\ answers' = Forget(a)
          /\ told' = told \cup {[req |-> app[a].m.req, out |-> x.out]}
      BY <1>7, <2>4 DEF Hear, Ends
    <3>2. c \in Connections /\ GoesOnTo(a, c)
      BY <1>1, <1>2 DEF Connections, GoesOnTo
    <3> QED
      BY <1>3, <2>1, <3>1, <3>2 DEF ToldOf
  <2> QED
    BY <2>2, <2>3, <2>4
<1> QED
  BY <1>4, <1>5, <1>6, <1>7 DEF DeviceStep, Device

LEMMA LostDoes ==
  ASSUME LinkInv, NEW a \in Apps, Lost(a)
  PROVE  /\ OnlyDevices /\ UNCHANGED <<signed, told>> /\ answers' \subseteq answers
         /\ app[a].pc = "waits" /\ app[a].m \in sent /\ sent' = sent \cup {Again(a)}
         /\ Again(a) \in Exchanges /\ Again(a).req = app[a].m.req
         /\ \E c \in Connections :
              /\ app' = [app EXCEPT ![a] = c]
              /\ c.pc = "waits" /\ c.m = Again(a) /\ c.attempt = app[a].attempt /\ c.session = app[a].session
<1>1. /\ app \in [Apps -> Connections] /\ app[a] \in Connections /\ sent \subseteq Exchanges
  BY DEF LinkInv, Types, DeviceType
<1>2. /\ OnlyDevices /\ UNCHANGED <<signed, told>> /\ app[a].pc = "waits"
      /\ app' = [app EXCEPT ![a].m = Again(a)] /\ sent' = sent \cup {Again(a)}
      /\ answers' \subseteq answers
  BY DEF Lost, OnlyDevices, book, history, Forget
<1>3. app[a].m \in sent /\ app[a].m \in Exchanges
  BY <1>1, <1>2 DEF LinkInv, Links
<1>4. app[a].m.try + 1 \in Nat
  BY <1>3 DEF Exchanges
<1>5. Again(a) = [app[a].m EXCEPT !.try = app[a].m.try + 1]
  BY DEF Again
<1>6. Again(a) \in Exchanges /\ Again(a).req = app[a].m.req
  BY <1>3, <1>4, <1>5 DEF Exchanges
<1>7. Again(a) \in [req : [app : Apps, n : Nat], try : Nat]
  BY <1>6, KnownConstants DEF Exchanges, Requests
<1> DEFINE c == [app[a] EXCEPT !.m = Again(a)]
<1>8. /\ c \in Connections /\ c.pc = app[a].pc /\ c.m = Again(a)
      /\ c.attempt = app[a].attempt /\ c.session = app[a].session
  BY <1>1, <1>7 DEF Connections
<1>9. app' = [app EXCEPT ![a] = c]
  BY <1>1, <1>2
<1> HIDE DEF c
<1> QED
  BY <1>2, <1>3, <1>6, <1>8, <1>9

Signature(a) ==
  [kind |-> app[a].kind, life |-> app[a].session, ts |-> now + Ahead[a], first |-> app[a].attempt = 1]

LEMMA SignDoes ==
  ASSUME LinkInv, NEW a \in Apps, Sign(a)
  PROVE  LET r == [app |-> a, n |-> Len(signed[a]) + 1]
             m == [req |-> r, try |-> 1]
         IN /\ OnlyDevices /\ UNCHANGED <<answers, told>>
            /\ app[a].pc = "ready" /\ app[a].session # 0
            /\ r \in Requests /\ m \in Exchanges /\ sent' = sent \cup {m}
            /\ Signature(a) \in Signatures
            /\ signed' = [signed EXCEPT ![a] = Append(@, Signature(a))]
            /\ Len(signed'[a]) = Len(signed[a]) + 1 /\ signed'[a][Len(signed[a]) + 1] = Signature(a)
            /\ Grows
            /\ \A b \in Apps \ {a} : signed'[b] = signed[b]
            /\ \E c \in Connections :
                 /\ app' = [app EXCEPT ![a] = c]
                 /\ c.pc = "waits" /\ c.m = m /\ c.attempt = app[a].attempt /\ c.session = app[a].session
<1> DEFINE r == [app |-> a, n |-> Len(signed[a]) + 1]
           m == [req |-> r, try |-> 1]
           c == [app[a] EXCEPT !.pc = "waits", !.m = m]
<1>1. /\ app \in [Apps -> Connections] /\ app[a] \in Connections /\ now \in Nat
      /\ signed \in [Apps -> Seq(Signatures)] /\ signed[a] \in Seq(Signatures) /\ Len(signed[a]) \in Nat
      /\ \A b \in Apps : Len(signed[b]) \in Nat
  BY DEF LinkInv, Types, DeviceType
<1>2. /\ OnlyDevices /\ UNCHANGED <<answers, told>>
      /\ app[a].pc = "ready" /\ app[a].session # 0 /\ Len(signed[a]) < MaxSigned
      /\ sent' = sent \cup {m} /\ signed' = [signed EXCEPT ![a] = Append(@, Signature(a))]
      /\ app' = [app EXCEPT ![a].pc = "waits", ![a].m = m]
  BY DEF Sign, OnlyDevices, book, history, Signature
<1>3. r \in Requests
  BY <1>1, <1>2, KnownConstants DEF Requests
<1>4. m \in Exchanges /\ m \in [req : [app : Apps, n : Nat], try : Nat]
  BY <1>3, KnownConstants DEF Exchanges, Requests
<1>5. Signature(a) \in Signatures
  BY <1>1, KnownConstants DEF Signature, Signatures, Connections
<1>6. /\ Append(signed[a], Signature(a)) \in Seq(Signatures)
      /\ Len(Append(signed[a], Signature(a))) = Len(signed[a]) + 1
      /\ \A i \in 1..Len(signed[a]) : Append(signed[a], Signature(a))[i] = signed[a][i]
      /\ Append(signed[a], Signature(a))[Len(signed[a]) + 1] = Signature(a)
  BY <1>1, <1>5, AppendProperties
<1>7. /\ signed' \in [Apps -> Seq(Signatures)] /\ signed'[a] = Append(signed[a], Signature(a))
      /\ \A b \in Apps \ {a} : signed'[b] = signed[b]
  BY <1>1, <1>2, <1>6
<1>8. Grows
  <2> SUFFICES ASSUME NEW b \in Apps
               PROVE  /\ Len(signed[b]) <= Len(signed'[b])
                      /\ \A n \in 1..Len(signed[b]) : signed'[b][n] = signed[b][n]
    BY <1>7 DEF Grows
  <2>1. CASE b = a
    BY <1>1, <1>6, <1>7, <2>1
  <2>2. CASE b # a
    BY <1>1, <1>7, <2>2
  <2> QED
    BY <1>7, <2>1, <2>2
<1>9. /\ c \in Connections /\ c.pc = "waits" /\ c.m = m
      /\ c.attempt = app[a].attempt /\ c.session = app[a].session
  <2> HIDE DEF m
  <2> QED
    BY <1>1, <1>4 DEF Connections
<1>10. app' = [app EXCEPT ![a] = c]
  BY <1>1, <1>2
<1> HIDE DEF c
<1> QED
  BY <1>2, <1>3, <1>4, <1>5, <1>6, <1>7, <1>8, <1>9, <1>10

\* A device goes on to c, and what it sends is signed.
LEMMA LinkConnects ==
  ASSUME LinkInv, NEW a \in Apps, NEW c \in Connections,
         OnlyDevices, app' = [app EXCEPT ![a] = c], c.session <= enclave.life,
         answers' \subseteq answers, ToldOf, Grows, \A b \in Apps \ {a} : signed'[b] = signed[b],
         sent \subseteq sent', sent' \subseteq Exchanges,
         \A m \in sent' : m \in sent \/ Made(m.req)',
         c.pc = "waits" => c.m \in sent' /\ c.m.req = [app |-> a, n |-> Len(signed'[a])],
         \A n \in Nat : n \in 1..Len(signed'[a]) => signed'[a][n].life <= enclave.life
  PROVE  LinkInv'
<1>1. DeviceType /\ EnclaveType /\ WorkType /\ SaidType
  BY DEF LinkInv, Types
<1>2. \A b \in Apps : app'[b] = IF b = a THEN c ELSE app[b]
  BY <1>1 DEF DeviceType
<1>3. DeviceType'
  BY <1>1 DEF DeviceType, Grows, OnlyDevices
<1>4. EnclaveType' /\ WorkType'
  BY <1>1 DEF OnlyDevices, EnclaveType, WorkType
<1>5. SaidType'
  <2>1. \A x \in answers : [req |-> x.m.req, out |-> x.out] \in Said
    BY <1>1 DEF SaidType, Said, Exchanges
  <2>2. told' \subseteq Said
    BY <1>1, <2>1 DEF SaidType, ToldOf
  <2> QED
    BY <1>1, <2>2 DEF SaidType, OnlyDevices
<1>6. Links'
  <2>1. \A m \in sent' : Made(m.req)'
    <3> TAKE m \in sent'
    <3>1. CASE m \in sent
      <4>1. Made(m.req) /\ m.req \in Requests
        BY <1>1, <3>1 DEF LinkInv, Links, DeviceType, Exchanges
      <4> QED
        BY <1>1, <4>1, MadeStays
    <3> QED
      BY <3>1
  <2>2. (\A x \in answers' : x.m \in sent') /\ (\A w \in work' : w.m \in sent')
    BY DEF LinkInv, Links, OnlyDevices
  <2>3. ASSUME NEW b \in Apps, app'[b].pc = "waits"
        PROVE  app'[b].m \in sent' /\ app'[b].m.req = [app |-> b, n |-> Len(signed'[b])]
    <3>1. CASE b = a
      BY <1>2, <2>3, <3>1
    <3>2. CASE b # a
      BY <1>2, <2>3, <3>2 DEF LinkInv, Links
    <3> QED
      BY <3>1, <3>2
  <2> QED
    BY <2>1, <2>2, <2>3 DEF Links
<1>7. Lives'
  <2>1. \A b \in Apps : app'[b].session <= enclave.life
    BY <1>2 DEF LinkInv, Lives
  <2>2. ASSUME NEW b \in Apps, NEW n \in Nat, n \in 1..Len(signed'[b])
        PROVE  signed'[b][n].life <= enclave.life
    <3>1. CASE b = a
      BY <2>2, <3>1
    <3>2. CASE b # a
      BY <2>2, <3>2 DEF LinkInv, Lives
    <3> QED
      BY <3>1, <3>2
  <2> QED
    BY <2>1, <2>2 DEF Lives, OnlyDevices
<1> QED
  BY <1>3, <1>4, <1>5, <1>6, <1>7 DEF LinkInv, Types

\* What the step of a device leaves, and what it adds.
LEMMA LinkDevice ==
  ASSUME LinkInv, NEW a \in Apps, DeviceStep(a)
  PROVE  LinkInv' /\ OnlyDevices /\ Grows /\ answers' \subseteq answers /\ ToldOf /\ sent \subseteq sent'
<1>1. /\ DeviceType /\ enclave.life \in Nat /\ app[a].session <= enclave.life
      /\ \A b \in Apps : Len(signed[b]) \in Nat
      /\ app[a].session \in Nat
  <2>1. DeviceType /\ app[a] \in Connections /\ enclave \in Enclaves
    BY DEF LinkInv, Types, DeviceType, EnclaveType
  <2>2. \A b \in Apps : Len(signed[b]) \in Nat
    BY <2>1 DEF DeviceType
  <2>3. app[a].session <= enclave.life
    BY DEF LinkInv, Lives
  <2> QED
    BY <2>1, <2>2, <2>3 DEF Enclaves, Connections
<1>2. ASSUME signed' = signed PROVE Grows
  BY <1>1, <1>2 DEF Grows, DeviceType
<1>3. \A n \in Nat : n \in 1..Len(signed[a]) => signed[a][n].life <= enclave.life
  BY DEF LinkInv, Lives
<1>4. CASE ~Sign(a) /\ ~Lost(a)
  <2>1. /\ OnlyDevices /\ UNCHANGED <<signed, sent>> /\ answers' \subseteq answers /\ ToldOf
    BY <1>4, DeviceDoes
  <2>2. PICK c \in Connections : app' = [app EXCEPT ![a] = c] /\ GoesOnTo(a, c)
    BY <1>4, DeviceDoes
  <2>3. c.pc # "waits" /\ c.session \in {app[a].session, enclave.life, 0}
    BY <2>2 DEF GoesOnTo
  <2>4. sent' \subseteq Exchanges
    BY <1>1, <2>1 DEF DeviceType
  <2>5. c.session <= enclave.life
    BY <1>1, <2>3
  <2> QED
    BY <1>2, <1>3, <2>1, <2>2, <2>3, <2>4, <2>5, LinkConnects
<1>5. CASE Lost(a)
  <2>1. /\ OnlyDevices /\ UNCHANGED <<signed, told>> /\ answers' \subseteq answers
        /\ app[a].pc = "waits" /\ app[a].m \in sent /\ sent' = sent \cup {Again(a)}
        /\ Again(a) \in Exchanges /\ Again(a).req = app[a].m.req
    BY <1>5, LostDoes
  <2>2. PICK c \in Connections :
          /\ app' = [app EXCEPT ![a] = c]
          /\ c.pc = "waits" /\ c.m = Again(a) /\ c.attempt = app[a].attempt /\ c.session = app[a].session
    BY <1>5, LostDoes
  <2>3. app[a].m.req = [app |-> a, n |-> Len(signed[a])] /\ Made(app[a].m.req)
    BY <2>1 DEF LinkInv, Links
  <2>4. sent' \subseteq Exchanges /\ \A m \in sent' : m \in sent \/ Made(m.req)'
    BY <1>1, <2>1, <2>3 DEF DeviceType, Made
  <2>5. ToldOf
    BY <2>1 DEF ToldOf
  <2> QED
    BY <1>1, <1>2, <1>3, <2>1, <2>2, <2>3, <2>4, <2>5, LinkConnects
<1>6. CASE Sign(a)
  <2> DEFINE r == [app |-> a, n |-> Len(signed[a]) + 1]
             m == [req |-> r, try |-> 1]
  <2>1. /\ OnlyDevices /\ UNCHANGED <<answers, told>>
        /\ m \in Exchanges /\ sent' = sent \cup {m}
        /\ Len(signed'[a]) = Len(signed[a]) + 1 /\ signed'[a][Len(signed[a]) + 1] = Signature(a)
        /\ Grows /\ \A b \in Apps \ {a} : signed'[b] = signed[b]
    BY <1>6, SignDoes
  <2>2. PICK c \in Connections :
          /\ app' = [app EXCEPT ![a] = c]
          /\ c.pc = "waits" /\ c.m = m /\ c.attempt = app[a].attempt /\ c.session = app[a].session
    BY <1>6, SignDoes
  <2>3. m.req = r /\ r.app = a /\ r.n = Len(signed'[a]) /\ r.n \in 1..Len(signed'[a])
    BY <1>1, <2>1
  <2>4. \A x : x = m => Made(x.req)'
    BY <2>3 DEF Made
  <2>5. sent' \subseteq Exchanges /\ \A x \in sent' : x \in sent \/ Made(x.req)'
    <3> HIDE DEF m, r
    <3>1. \A x \in sent' : x \in sent \/ x = m
      BY <2>1
    <3>2. sent \subseteq Exchanges
      BY <1>1 DEF DeviceType
    <3> QED
      BY <2>1, <2>4, <3>1, <3>2
  <2>6. ToldOf /\ answers' \subseteq answers
    BY <2>1 DEF ToldOf
  <2>7. Signature(a).life = app[a].session
    BY DEF Signature
  <2>8. ASSUME NEW n \in Nat, n \in 1..Len(signed'[a]) PROVE signed'[a][n].life <= enclave.life
    <3>1. CASE n \in 1..Len(signed[a])
      BY <1>3, <2>1, <3>1 DEF Grows
    <3>2. CASE n = Len(signed[a]) + 1
      BY <1>1, <2>1, <2>7, <3>2
    <3> QED
      BY <1>1, <2>1, <2>8, <3>1, <3>2
  <2>9. c.pc = "waits" => c.m \in sent' /\ c.m.req = [app |-> a, n |-> Len(signed'[a])]
    BY <2>1, <2>2
  <2>10. c.session <= enclave.life /\ sent \subseteq sent'
    BY <1>1, <2>1, <2>2
  <2> HIDE DEF m, r
  <2> QED
    BY <2>1, <2>2, <2>5, <2>6, <2>8, <2>9, <2>10, LinkConnects
<1> QED
  BY <1>4, <1>5, <1>6

-----------------------------------------------------------------------------
(* A request that was let in is not let in again.                           *)

LEMMA SignedTypes ==
  ASSUME LinkInv, NEW r \in Requests, Made(r)
  PROVE  Signed(r) \in Signatures /\ Signed(r).ts \in Int /\ Signed(r).life \in Nat
         /\ Signed(r).life <= enclave.life
<1>1. r.app \in Apps /\ r.n \in 1..Len(signed[r.app]) /\ r.n \in Nat
  BY KnownConstants DEF Requests, Made
<1>2. signed[r.app] \in Seq(Signatures)
  BY <1>1 DEF LinkInv, Types, DeviceType
<1>3. signed[r.app][r.n] \in Signatures
  BY <1>1, <1>2, ElementOfSeq
<1> QED
  BY <1>1, <1>3 DEF Signed, Signatures, LinkInv, Lives

LEMMA SentTypes ==
  ASSUME LinkInv, NEW m \in sent
  PROVE  m \in Exchanges /\ m.req \in Requests /\ Made(m.req)
  BY DEF LinkInv, Types, DeviceType, Exchanges, Links

\* What is dropped from what was seen is too old for the clock by then.
LEMMA ShutStays ==
  ASSUME LinkInv, SightInv, Grows, now' \in Nat, now <= now', Remembered \subseteq enclave'.sighted,
         NEW r \in Requests, Made(r), Shut(r)
  PROVE  Shut(r)'
<1>1. Signed(r)' = Signed(r) /\ Signed(r).ts \in Int
  BY MadeStays, SignedTypes DEF LinkInv, Types
<1>2. ClockSkew \in Nat /\ NonceKeep \in Nat /\ NonceKeep >= 2 * ClockSkew /\ now \in Nat
  BY KnownConstants DEF LinkInv, Types, DeviceType
<1>3. CASE Signed(r).ts + ClockSkew < now
  <2>1. Signed(r).ts + ClockSkew < now'
    BY <1>1, <1>2, <1>3
  <2> QED
    BY <1>1, <2>1 DEF Shut
<1>4. CASE \E s \in enclave.sighted : s.req = r
  <2>1. PICK s \in enclave.sighted : s.req = r
    BY <1>4
  <2>2. s.at \in Nat /\ Signed(r).ts <= s.at + ClockSkew
    BY <2>1 DEF SightInv, LinkInv, Types, EnclaveType, Enclaves, Sights
  <2>3. CASE s.at >= now - NonceKeep
    BY <2>1, <2>3 DEF Remembered, Shut
  <2>4. CASE ~(s.at >= now - NonceKeep)
    <3>1. s.at + ClockSkew + ClockSkew < now
      BY <1>2, <2>2, <2>4
    <3>2. Signed(r).ts + ClockSkew < now'
      BY <1>1, <1>2, <2>2, <3>1
    <3> QED
      BY <1>1, <3>2 DEF Shut
  <2> QED
    BY <2>3, <2>4
<1> QED
  BY <1>3, <1>4 DEF Shut

LEMMA SeenOnce ==
  ASSUME LinkInv, SightInv, NEW m \in sent, FirstSight(m)
  PROVE  /\ ~LetIn(m.req) /\ enclave.up /\ Signed(m.req).life = enclave.life
         /\ Signed(m.req).ts <= now + ClockSkew
<1>1. /\ enclave.up /\ Signed(m.req).life = enclave.life /\ ~Stale(m.req) /\ ~Known(m.req)
  BY DEF FirstSight, Opens, Sees
<1>2. Signed(m.req).ts \in Int /\ now \in Nat /\ ClockSkew \in Nat /\ NonceKeep \in Nat
      /\ NonceKeep >= 2 * ClockSkew
  BY SentTypes, SignedTypes, KnownConstants DEF LinkInv, Types, DeviceType
<1>3. Signed(m.req).ts <= now + ClockSkew /\ ~(Signed(m.req).ts + ClockSkew < now)
  BY <1>1, <1>2 DEF Stale
<1>4. ASSUME NEW s \in enclave.sighted, s.req = m.req PROVE FALSE
  <2>1. s.at \in Nat /\ Signed(m.req).ts <= s.at + ClockSkew
    BY <1>4 DEF SightInv, LinkInv, Types, EnclaveType, Enclaves, Sights
  <2>2. ~(s.at >= now - NonceKeep)
    BY <1>1, <1>4 DEF Known, Remembered
  <2>3. s.at + ClockSkew + ClockSkew < now
    BY <1>2, <2>1, <2>2
  <2> QED
    BY <1>2, <1>3, <2>1, <2>3
<1>5. ~Shut(m.req)
  BY <1>3, <1>4 DEF Shut
<1> QED
  BY <1>1, <1>3, <1>5, SentTypes DEF SightInv

\* A step of an enclave that stays up keeps what it saw, or it stops.
LEMMA SightStays ==
  ASSUME LinkInv, SightInv, Grows, now' \in Nat, now <= now',
         enclave'.up => enclave.up /\ enclave'.life = enclave.life /\ Remembered \subseteq enclave'.sighted,
         \A s \in enclave'.sighted :
           \/ s \in enclave.sighted
           \/ s.at = now /\ s.req \in Requests /\ Made(s.req) /\ Signed(s.req).ts <= now + ClockSkew,
         \A r \in Requests : LetIn(r)' => LetIn(r) \/ (Made(r) /\ \E s \in enclave'.sighted : s.req = r)
  PROVE  SightInv'
<1>1. DeviceType /\ now \in Nat
  BY DEF LinkInv, Types, DeviceType
<1>2. ASSUME NEW s \in enclave'.sighted
      PROVE  s.at <= now' /\ Made(s.req)' /\ Signed(s.req)'.ts <= s.at + ClockSkew
  <2>1. s.req \in Requests /\ s.at \in Nat /\ s.at <= now /\ Made(s.req)
        /\ Signed(s.req).ts <= s.at + ClockSkew
    BY <1>1, <1>2 DEF SightInv, LinkInv, Types, EnclaveType, Enclaves, Sights
  <2>2. Made(s.req)' /\ Signed(s.req)' = Signed(s.req)
    BY <1>1, <2>1, MadeStays
  <2> QED
    BY <1>1, <2>1, <2>2
<1>3. ASSUME NEW r \in Requests, LetIn(r)'
      PROVE  Made(r)' /\ (enclave'.up /\ Signed(r)'.life = enclave'.life => Shut(r)')
  <2>1. Made(r)
    BY <1>3 DEF SightInv
  <2>2. Made(r)' /\ Signed(r)' = Signed(r)
    BY <1>1, <2>1, MadeStays
  <2>3. ASSUME enclave'.up, Signed(r)'.life = enclave'.life PROVE Shut(r)'
    <3>1. CASE LetIn(r)
      <4>1. Shut(r)
        BY <2>2, <2>3, <3>1 DEF SightInv
      <4> QED
        BY <2>1, <2>3, <4>1, ShutStays
    <3>2. CASE \E s \in enclave'.sighted : s.req = r
      BY <3>2 DEF Shut
    <3> QED
      BY <1>3, <3>1, <3>2
  <2> QED
    BY <2>2, <2>3
<1> QED
  BY <1>2, <1>3 DEF SightInv

LEMMA GrowsNot == DeviceType /\ signed' = signed => Grows
<1> SUFFICES ASSUME DeviceType, signed' = signed PROVE Grows
  OBVIOUS
<1>1. \A a \in Apps : Len(signed[a]) \in Nat
  BY DEF DeviceType
<1> QED
  BY <1>1 DEF DeviceType, Grows

-----------------------------------------------------------------------------
(* The truth is told.                                                       *)

\* A step that carries out nothing and seals no answer.
LEMMA OnceStays ==
  ASSUME OnceInv, times' = times,
         \A x \in sealed' : x \in sealed \/ x.out = "clock",
         \A v, w \in work' : v.m.req = w.m.req => v = w,
         \A w \in work' : \E v \in work : v.m = w.m /\ v.stage = w.stage
  PROVE  OnceInv'
<1>1. \A w \in work' : \A x \in sealed' : x.req = w.m.req => x.out = "clock"
  BY DEF OnceInv
<1>2. \A w \in work' : times'[w.m.req] = IF w.stage = "asked" THEN 0 ELSE 1
  BY DEF OnceInv
<1>3. \A x \in sealed' : (x.out = "done" => times'[x.req] = 1) /\ (x.out = "refused" => times'[x.req] = 0)
  BY DEF OnceInv
<1> QED
  BY <1>1, <1>2, <1>3 DEF OnceInv

SealedNow(r, out) == out \in {"done", "refused"} => [req |-> r, out |-> out] \in sealed'

\* What is said was said before, or is sealed.
LEMMA SaidStays ==
  ASSUME SaidInv, sealed \subseteq sealed',
         \A x \in answers' : x \in answers \/ SealedNow(x.m.req, x.out),
         \A i \in 1..Len(enclave'.replies) :
           \/ \E j \in 1..Len(enclave.replies) : enclave'.replies[i] = enclave.replies[j]
           \/ SealedNow(enclave'.replies[i].req, enclave'.replies[i].out),
         ToldOf
  PROVE  SaidInv'
<1>1. \A r, out : IsSealed(r, out) => SealedNow(r, out)
  BY DEF IsSealed, SealedNow
<1>2. \A x \in answers' : SealedNow(x.m.req, x.out)
  BY <1>1 DEF SaidInv
<1>3. \A i \in 1..Len(enclave'.replies) : SealedNow(enclave'.replies[i].req, enclave'.replies[i].out)
  BY <1>1 DEF SaidInv
<1>4. \A t \in told' : SealedNow(t.req, t.out)
  <2> TAKE t \in told'
  <2>1. CASE t \in told
    BY <1>1, <2>1 DEF SaidInv
  <2>2. CASE \E x \in answers : t = [req |-> x.m.req, out |-> x.out]
    <3>1. PICK x \in answers : t = [req |-> x.m.req, out |-> x.out]
      BY <2>2
    <3>2. IsSealed(x.m.req, x.out) /\ t.req = x.m.req /\ t.out = x.out
      BY <3>1 DEF SaidInv
    <3> QED
      BY <1>1, <3>2
  <2> QED
    BY <2>1, <2>2 DEF ToldOf
<1> QED
  BY <1>2, <1>3, <1>4 DEF SaidInv, IsSealed, SealedNow

LEMMA TruthInit == Init => TruthInv
<1> SUFFICES ASSUME Init PROVE TruthInv
  OBVIOUS
<1>1. /\ answers = {} /\ work = {} /\ sealed = {} /\ told = {} /\ times = [r \in Requests |-> 0]
      /\ enclave.sighted = {} /\ enclave.replies = <<>>
  BY DEF Init
<1>2. SightInv
  BY <1>1 DEF SightInv, LetIn
<1>3. OnceInv
  BY <1>1 DEF OnceInv
<1>4. SaidInv
  BY <1>1 DEF SaidInv
<1> QED
  BY <1>2, <1>3, <1>4, LinkInit DEF TruthInv

LEMMA TruthTurnedAway ==
  ASSUME TruthInv, NEW m \in sent,
         ReplyAgain(m) \/ AttestAgain(m) \/ ClockTooFar(m) \/ AlreadyMade(m)
  PROVE  TruthInv'
<1>1. LinkInv /\ SightInv /\ OnceInv /\ SaidInv /\ DeviceType /\ now \in Nat /\ EnclaveType
  BY DEF TruthInv, LinkInv, Types, DeviceType
<1>2. /\ SameDevices /\ SameLife /\ UNCHANGED <<work, pending, disk, times, told, most>>
      /\ enclave'.replies = enclave.replies /\ enclave'.sighted \in {enclave.sighted, Remembered}
  BY <1>1, TurnedAway
<1>3. PICK out \in Outs :
        /\ SaysTo(m, out) /\ IsSealed(m.req, out)
        /\ sealed' = sealed \/ sealed' = sealed \cup {[req |-> m.req, out |-> "clock"]}
  BY <1>1, TurnedAway
<1>4. LinkInv'
  BY <1>1, LinkTurnedAway
<1>5. Grows /\ Remembered \subseteq enclave'.sighted /\ enclave'.sighted \subseteq enclave.sighted
  BY <1>1, <1>2, Fields, GrowsNot DEF SameDevices
<1>6. \A x \in sealed' : x \in sealed \/ x.out = "clock"
  BY <1>3
<1>7. \A r \in Requests : LetIn(r)' => LetIn(r)
  BY <1>2, <1>6 DEF LetIn
<1>8. SightInv'
  <2>1. now' \in Nat /\ now <= now'
    BY <1>1, <1>2 DEF SameDevices
  <2>2. enclave'.up => enclave.up /\ enclave'.life = enclave.life /\ Remembered \subseteq enclave'.sighted
    BY <1>2, <1>5 DEF SameLife
  <2> QED
    BY <1>1, <1>5, <1>7, <2>1, <2>2, SightStays
<1>9. OnceInv'
  <2>1. \A v, w \in work' : v.m.req = w.m.req => v = w
    BY <1>1, <1>2 DEF OnceInv
  <2> QED
    BY <1>1, <1>2, <1>6, <2>1, OnceStays
<1>10. SaidInv'
  <2>1. sealed \subseteq sealed' /\ ToldOf
    BY <1>2, <1>3 DEF ToldOf
  <2>2. \A x \in answers' : x \in answers \/ SealedNow(x.m.req, x.out)
    BY <1>3, <2>1 DEF SaysTo, IsSealed, SealedNow
  <2> QED
    BY <1>1, <1>2, <2>1, <2>2, SaidStays
<1> QED
  BY <1>4, <1>8, <1>9, <1>10 DEF TruthInv

\* What is let in becomes known.
LEMMA SightLetsIn ==
  ASSUME TruthInv, NEW m \in sent, LetsIn(m),
         \A r \in Requests : LetIn(r)' => LetIn(r) \/ r = m.req
  PROVE  SightInv' /\ ~LetIn(m.req) /\ Grows
<1>1. LinkInv /\ SightInv /\ DeviceType /\ now \in Nat /\ EnclaveType
  BY DEF TruthInv, LinkInv, Types, DeviceType
<1>2. /\ SameDevices /\ SameLife /\ enclave'.sighted = Remembered \cup {[req |-> m.req, at |-> now]}
      /\ FirstSight(m)
  BY DEF LetsIn
<1>3. ~LetIn(m.req) /\ enclave.up /\ Signed(m.req).ts <= now + ClockSkew
  BY <1>1, <1>2, SeenOnce
<1>4. m.req \in Requests /\ Made(m.req)
  BY <1>1, SentTypes
<1>5. Grows
  BY <1>1, <1>2, GrowsNot DEF SameDevices
<1>6. \A s \in enclave'.sighted :
        \/ s \in enclave.sighted
        \/ s.at = now /\ s.req \in Requests /\ Made(s.req) /\ Signed(s.req).ts <= now + ClockSkew
  BY <1>1, <1>2, <1>3, <1>4, Fields
<1>7. \A r \in Requests : LetIn(r)' => LetIn(r) \/ (Made(r) /\ \E s \in enclave'.sighted : s.req = r)
  <2>1. [req |-> m.req, at |-> now] \in enclave'.sighted /\ [req |-> m.req, at |-> now].req = m.req
    BY <1>2
  <2> QED
    BY <1>4, <2>1
<1>8. SightInv'
  BY <1>1, <1>2, <1>5, <1>6, <1>7, SightStays DEF SameDevices, SameLife
<1> QED
  BY <1>3, <1>5, <1>8

LEMMA TruthLetsIn ==
  ASSUME TruthInv, NEW m \in sent, Question(m) \/ NotAsked(m) \/ Purchase(m)
  PROVE  TruthInv'
<1>1. LinkInv /\ SightInv /\ OnceInv /\ SaidInv /\ times \in [Requests -> Nat]
  BY DEF TruthInv, LinkInv, Types, WorkType
<1>2. m.req \in Requests
  BY <1>1, SentTypes
<1>3. LetsIn(m) /\ LinkInv' /\ told' = told
  BY <1>1, QuestionDoes, NotAskedDoes, PurchaseDoes, LinkLetsIn DEF LetsIn
<1>4. \/ work' = work
      \/ work' = work \cup {[m |-> m, stage |-> "asked", mark |-> 0]} /\ times' = times
      \/ /\ work' = work \cup {[m |-> m, stage |-> "waits", mark |-> Len(pending) + 1]}
         /\ times' = [times EXCEPT ![m.req] = @ + 1]
  BY <1>1, QuestionDoes, NotAskedDoes, PurchaseDoes DEF CarryOut
<1>5. /\ times' = times \/ (times' = [times EXCEPT ![m.req] = @ + 1] /\ sealed' = sealed
                            /\ work' = work \cup {[m |-> m, stage |-> "waits", mark |-> Len(pending) + 1]})
      /\ sealed' = sealed \/ (sealed' = sealed \cup {[req |-> m.req, out |-> "refused"]} /\ times' = times
                              /\ work' = work)
  BY <1>1, QuestionDoes, NotAskedDoes, PurchaseDoes DEF CarryOut
<1>6. \A r \in Requests : LetIn(r)' => LetIn(r) \/ r = m.req
  <2> SUFFICES ASSUME NEW r \in Requests, LetIn(r)', r # m.req PROVE LetIn(r)
    OBVIOUS
  <2>1. times'[r] = times[r]
    BY <1>1, <1>5
  <2>2. \A w \in work' : w \in work \/ w.m = m
    BY <1>4
  <2>3. \A x \in sealed' : x \in sealed \/ x.req = m.req
    BY <1>5
  <2> QED
    BY <2>1, <2>2, <2>3 DEF LetIn
<1>7. SightInv' /\ ~LetIn(m.req)
  BY <1>3, <1>6, SightLetsIn
<1>8. /\ times[m.req] = 0 /\ \A w \in work : w.m.req # m.req
      /\ \A x \in sealed : x.req = m.req => x.out = "clock"
  BY <1>1, <1>2, <1>7 DEF LetIn
<1>9. OnceInv'
  <2>1. \A r \in Requests : times'[r] = times[r] \/ (r = m.req /\ times'[r] = 1)
    BY <1>1, <1>2, <1>5, <1>8
  <2>2. \A r \in Requests : times'[r] <= 1
    BY <1>1, <2>1 DEF OnceInv
  <2>3. \A v, w \in work' : v.m.req = w.m.req => v = w
    BY <1>1, <1>4, <1>8 DEF OnceInv
  <2>4. \A w \in work' : \A x \in sealed' : x.req = w.m.req => x.out = "clock"
    BY <1>1, <1>4, <1>5, <1>8 DEF OnceInv
  <2>5. \A w \in work' : w.m.req \in Requests
    BY <1>3, SentTypes DEF LinkInv, Links, Types, DeviceType, Exchanges
  <2>6. ASSUME NEW w \in work' PROVE times'[w.m.req] = IF w.stage = "asked" THEN 0 ELSE 1
    <3>1. CASE w \in work
      <4>1. times'[w.m.req] = times[w.m.req]
        BY <1>8, <2>1, <2>5, <3>1
      <4> QED
        BY <1>1, <3>1, <4>1 DEF OnceInv
    <3>2. CASE w = [m |-> m, stage |-> "asked", mark |-> 0] /\ times' = times
      BY <1>8, <3>2
    <3>3. CASE /\ w = [m |-> m, stage |-> "waits", mark |-> Len(pending) + 1]
               /\ times' = [times EXCEPT ![m.req] = @ + 1]
      BY <1>1, <1>2, <1>8, <3>3
    <3> QED
      BY <1>4, <3>1, <3>2, <3>3
  <2>7. ASSUME NEW x \in sealed'
        PROVE  (x.out = "done" => times'[x.req] = 1) /\ (x.out = "refused" => times'[x.req] = 0)
    <3>1. CASE x \in sealed
      <4>1. x.req \in Requests
        BY <1>1, <3>1 DEF LinkInv, Types, SaidType, Said
      <4>2. CASE x.req = m.req
        BY <1>8, <3>1, <4>2
      <4>3. CASE x.req # m.req
        BY <1>1, <2>1, <3>1, <4>1, <4>3 DEF OnceInv
      <4> QED
        BY <4>2, <4>3
    <3>2. CASE x \notin sealed
      BY <1>5, <1>8, <3>2
    <3> QED
      BY <3>1, <3>2
  <2> QED
    BY <2>2, <2>3, <2>4, <2>6, <2>7 DEF OnceInv
<1>10. SaidInv'
  <2>1. sealed \subseteq sealed' /\ ToldOf
    BY <1>3, <1>5 DEF ToldOf
  <2>2. CASE NotAsked(m)
    <3>1. SaysTo(m, "refused") /\ AddsReply(m.req, "refused") /\ SealedNow(m.req, "refused")
      BY <1>1, <2>2, NotAskedDoes DEF SealedNow
    <3>2. \A x \in answers' : x \in answers \/ SealedNow(x.m.req, x.out)
      BY <3>1 DEF SaysTo
    <3>3. \A i \in 1..Len(enclave'.replies) :
             \/ \E j \in 1..Len(enclave.replies) : enclave'.replies[i] = enclave.replies[j]
             \/ SealedNow(enclave'.replies[i].req, enclave'.replies[i].out)
      BY <3>1 DEF AddsReply
    <3> QED
      BY <1>1, <2>1, <3>2, <3>3, SaidStays
  <2>3. CASE Question(m) \/ Purchase(m)
    <3>1. enclave'.replies = enclave.replies /\ answers' = answers
      BY <1>1, <2>3, QuestionDoes, PurchaseDoes
    <3> QED
      BY <1>1, <2>1, <3>1, SaidStays
  <2> QED
    BY <2>2, <2>3
<1> QED
  BY <1>3, <1>7, <1>9, <1>10 DEF TruthInv

LEMMA TruthWorkEnds ==
  ASSUME TruthInv, NEW w \in work,
         \/ \E yes \in BOOLEAN : Answered(w, yes) \/ Declined(w, yes)
         \/ NotAnswered(w) \/ HostConfirmed(w) \/ HostTooSlow(w)
  PROVE  TruthInv'
<1>1. LinkInv /\ SightInv /\ OnceInv /\ SaidInv /\ times \in [Requests -> Nat] /\ DeviceType /\ EnclaveType
      /\ now \in Nat
  BY DEF TruthInv, LinkInv, Types, WorkType, DeviceType
<1>2. LinkInv'
  BY <1>1, LinkWorkEnds
<1>3. w.m \in sent /\ w.m.req \in Requests
  BY <1>1, SentTypes DEF LinkInv, Links
<1>4. /\ SameDevices /\ SameLife /\ told' = told /\ enclave'.sighted = enclave.sighted
      /\ work' = work \ {w}
  BY <1>1, WorkEnds
<1>5. PICK out \in Settled :
        /\ SaysTo(w.m, out) /\ AddsReply(w.m.req, out)
        /\ sealed' = sealed \cup {[req |-> w.m.req, out |-> out]}
        /\ EndsAs(w, out)
  BY <1>1, WorkEnds
<1>6. w.stage \in {"asked", "waits"} /\ times[w.m.req] = IF w.stage = "asked" THEN 0 ELSE 1
  BY <1>1 DEF OnceInv, LinkInv, Types, WorkType, Works
<1>7. \A r \in Requests : times'[r] = times[r] \/ (r = w.m.req /\ times'[r] = 1)
  <2>1. CASE times' = times
    BY <2>1
  <2>2. CASE w.stage = "asked" /\ CarryOut(w.m.req)
    <3>1. times' = [times EXCEPT ![w.m.req] = 1]
      BY <1>1, <1>3, <1>6, <2>2 DEF CarryOut
    <3> QED
      BY <1>1, <1>3, <3>1
  <2> QED
    BY <1>5, <2>1, <2>2 DEF EndsAs
<1>8. (out = "done" => times'[w.m.req] = 1) /\ (out = "refused" => times'[w.m.req] = 0)
  <2>1. CASE w.stage = "asked" /\ out = "done" /\ CarryOut(w.m.req)
    <3>1. times' = [times EXCEPT ![w.m.req] = 1]
      BY <1>1, <1>3, <1>6, <2>1 DEF CarryOut
    <3>2. times'[w.m.req] = 1
      BY <1>1, <1>3, <3>1
    <3> QED
      BY <2>1, <3>2
  <2>2. CASE w.stage = "asked" /\ out = "refused" /\ times' = times
    BY <1>6, <2>2
  <2>3. CASE w.stage = "waits" /\ out \in {"done", "try again"} /\ times' = times
    BY <1>6, <2>3
  <2> QED
    BY <1>5, <2>1, <2>2, <2>3 DEF EndsAs
<1>9. SightInv'
  <2>1. now' \in Nat /\ now <= now' /\ Grows /\ Remembered \subseteq enclave'.sighted
        /\ enclave'.up = enclave.up /\ enclave'.life = enclave.life
    BY <1>1, <1>4, GrowsNot, Fields DEF SameDevices, SameLife
  <2>2. \A r \in Requests : LetIn(r)' => LetIn(r)
    <3>1. LetIn(w.m.req)
      BY DEF LetIn
    <3>2. ASSUME NEW r \in Requests, r # w.m.req, LetIn(r)' PROVE LetIn(r)
      BY <1>4, <1>5, <1>7, <3>2 DEF LetIn
    <3> QED
      BY <3>1, <3>2
  <2> QED
    BY <1>1, <1>4, <2>1, <2>2, SightStays
<1>10. OnceInv'
  <2>1. \A r \in Requests : times'[r] <= 1
    BY <1>1, <1>7 DEF OnceInv
  <2>2. \A v \in work' : v \in work /\ v.m.req # w.m.req /\ v.m.req \in Requests
    BY <1>1, <1>4, SentTypes DEF OnceInv, LinkInv, Links
  <2>3. \A u, v \in work' : u.m.req = v.m.req => u = v
    BY <1>1, <2>2 DEF OnceInv
  <2>4. \A v \in work' : \A x \in sealed' : x.req = v.m.req => x.out = "clock"
    BY <1>1, <1>5, <2>2 DEF OnceInv
  <2>5. \A v \in work' : times'[v.m.req] = IF v.stage = "asked" THEN 0 ELSE 1
    BY <1>1, <1>7, <2>2 DEF OnceInv
  <2>6. ASSUME NEW x \in sealed'
        PROVE  (x.out = "done" => times'[x.req] = 1) /\ (x.out = "refused" => times'[x.req] = 0)
    <3>1. CASE x = [req |-> w.m.req, out |-> out]
      BY <1>8, <3>1
    <3>2. CASE x \in sealed /\ x.req = w.m.req
      <4>1. x.out = "clock"
        BY <1>1, <3>2 DEF OnceInv
      <4> QED
        BY <4>1
    <3>3. CASE x \in sealed /\ x.req # w.m.req
      <4>1. x.req \in Requests
        BY <1>1, <3>3 DEF LinkInv, Types, SaidType, Said
      <4> QED
        BY <1>1, <1>7, <3>3, <4>1 DEF OnceInv
    <3> QED
      BY <1>5, <3>1, <3>2, <3>3
  <2> QED
    BY <2>1, <2>3, <2>4, <2>5, <2>6 DEF OnceInv
<1>11. SaidInv'
  <2>1. SealedNow(w.m.req, out) /\ sealed \subseteq sealed' /\ ToldOf
    BY <1>4, <1>5 DEF SealedNow, ToldOf
  <2>2. \A x \in answers' : x \in answers \/ SealedNow(x.m.req, x.out)
    BY <1>5, <2>1 DEF SaysTo
  <2>3. \A i \in 1..Len(enclave'.replies) :
           \/ \E j \in 1..Len(enclave.replies) : enclave'.replies[i] = enclave.replies[j]
           \/ SealedNow(enclave'.replies[i].req, enclave'.replies[i].out)
    BY <1>5, <2>1 DEF AddsReply
  <2> QED
    BY <1>1, <2>1, <2>2, <2>3, SaidStays
<1> QED
  BY <1>2, <1>9, <1>10, <1>11 DEF TruthInv

LEMMA TruthFlush ==
  ASSUME TruthInv, Flush
  PROVE  TruthInv'
<1>1. LinkInv /\ SightInv /\ OnceInv /\ SaidInv /\ DeviceType /\ WorkType /\ now \in Nat /\ EnclaveType
  BY DEF TruthInv, LinkInv, Types, DeviceType
<1>2. /\ SameDevices /\ UNCHANGED <<enclave, answers, times, sealed, told>>
      /\ work' = {Nearer(w) : w \in work}
      /\ \A w \in work : Nearer(w).m = w.m /\ Nearer(w).stage = w.stage
  BY <1>1, FlushDoes
<1>3. LinkInv'
  BY <1>1, LinkFlush
<1>4. \A v \in work' : \E w \in work : v = Nearer(w) /\ w.m = v.m /\ w.stage = v.stage
  BY <1>2
<1>5. SightInv'
  <2>1. now' \in Nat /\ now <= now' /\ Grows /\ Remembered \subseteq enclave'.sighted
    BY <1>1, <1>2, GrowsNot, Fields DEF SameDevices
  <2>2. \A r \in Requests : LetIn(r)' => LetIn(r)
    BY <1>2, <1>4 DEF LetIn
  <2> QED
    BY <1>1, <1>2, <2>1, <2>2, SightStays
<1>6. OnceInv'
  <2>1. ASSUME NEW u \in work', NEW v \in work', u.m.req = v.m.req PROVE u = v
    <3>1. PICK x \in work : u = Nearer(x) /\ x.m = u.m
      BY <1>4
    <3>2. PICK y \in work : v = Nearer(y) /\ y.m = v.m
      BY <1>4
    <3>3. x = y
      BY <1>1, <2>1, <3>1, <3>2 DEF OnceInv
    <3> QED
      BY <3>1, <3>2, <3>3
  <2> QED
    BY <1>1, <1>2, <1>4, <2>1, OnceStays
<1>7. SaidInv'
  BY <1>1, <1>2, SaidStays DEF ToldOf
<1> QED
  BY <1>3, <1>5, <1>6, <1>7 DEF TruthInv

LEMMA TruthStop ==
  ASSUME TruthInv, Stop
  PROVE  TruthInv'
<1>1. LinkInv /\ SightInv /\ OnceInv /\ SaidInv /\ DeviceType /\ now \in Nat /\ EnclaveType
  BY DEF TruthInv, LinkInv, Types, DeviceType
<1>2. /\ SameDevices /\ UNCHANGED <<answers, times, sealed, told>> /\ work' = {}
      /\ ~enclave'.up /\ enclave'.sighted = {} /\ enclave'.replies = <<>>
  BY <1>1, StopDoes
<1>3. LinkInv'
  BY <1>1, LinkStops
<1>4. SightInv'
  <2>1. now' \in Nat /\ now <= now' /\ Grows
    BY <1>1, <1>2, GrowsNot DEF SameDevices
  <2>2. \A r \in Requests : LetIn(r)' => LetIn(r)
    BY <1>2 DEF LetIn
  <2> QED
    BY <1>1, <1>2, <2>1, <2>2, SightStays
<1>5. OnceInv'
  BY <1>1, <1>2, OnceStays
<1>6. SaidInv'
  BY <1>1, <1>2, SaidStays DEF ToldOf
<1> QED
  BY <1>3, <1>4, <1>5, <1>6 DEF TruthInv

\* What was signed before a start was not signed for it.
LEMMA TruthStart ==
  ASSUME TruthInv, Start
  PROVE  TruthInv'
<1>1. LinkInv /\ SightInv /\ OnceInv /\ SaidInv /\ DeviceType /\ now \in Nat /\ EnclaveType
      /\ enclave.life \in Nat
  BY DEF TruthInv, LinkInv, Types, DeviceType, EnclaveType, Enclaves
<1>2. /\ SameDevices /\ UNCHANGED <<answers, work, times, sealed, told>>
      /\ enclave'.life = enclave.life + 1
      /\ enclave'.sighted = enclave.sighted /\ enclave'.replies = enclave.replies
  BY <1>1, StartDoes
<1>3. LinkInv'
  BY <1>1, LinkStops
<1>4. Grows
  BY <1>1, <1>2, GrowsNot DEF SameDevices
<1>5. SightInv'
  <2>1. ASSUME NEW r \in Requests, LetIn(r)' PROVE Made(r)' /\ Signed(r)'.life # enclave'.life
    <3>1. LetIn(r)
      BY <1>2, <2>1 DEF LetIn
    <3>2. Made(r)
      BY <1>1, <3>1 DEF SightInv
    <3>3. Made(r)' /\ Signed(r)' = Signed(r) /\ Signed(r).life \in Nat /\ Signed(r).life <= enclave.life
      BY <1>1, <1>4, <3>2, MadeStays, SignedTypes
    <3>4. Signed(r).life # enclave.life + 1
      BY <1>1, <3>3
    <3> QED
      BY <1>2, <3>3, <3>4
  <2>2. ASSUME NEW s \in enclave'.sighted
        PROVE  s.at <= now' /\ Made(s.req)' /\ Signed(s.req)'.ts <= s.at + ClockSkew
    <3>1. s.req \in Requests /\ s.at <= now /\ Made(s.req) /\ Signed(s.req).ts <= s.at + ClockSkew
      BY <1>1, <1>2, <2>2 DEF SightInv, EnclaveType, Enclaves, Sights
    <3>2. Made(s.req)' /\ Signed(s.req)' = Signed(s.req)
      BY <1>1, <1>4, <3>1, MadeStays
    <3> QED
      BY <1>2, <3>1, <3>2 DEF SameDevices
  <2> QED
    BY <2>1, <2>2 DEF SightInv
<1>6. OnceInv'
  <2>1. \A v, w \in work' : v.m.req = w.m.req => v = w
    BY <1>1, <1>2 DEF OnceInv
  <2> QED
    BY <1>1, <1>2, <2>1, OnceStays
<1>7. SaidInv'
  BY <1>1, <1>2, SaidStays DEF ToldOf
<1> QED
  BY <1>3, <1>5, <1>6, <1>7 DEF TruthInv

\* Time passes, or a device does something.
LEMMA TruthOutside ==
  ASSUME TruthInv, Tick \/ \E a \in Apps : DeviceStep(a)
  PROVE  TruthInv'
<1>1. LinkInv /\ SightInv /\ OnceInv /\ SaidInv /\ DeviceType /\ now \in Nat /\ EnclaveType
  BY DEF TruthInv, LinkInv, Types, DeviceType
<1>2. /\ LinkInv' /\ now' \in Nat /\ now <= now' /\ Grows /\ answers' \subseteq answers /\ ToldOf
      /\ UNCHANGED <<enclave, work, times, sealed>>
  <2>1. CASE Tick
    <3>1. now' = now + 1 /\ UNCHANGED <<signed, enclave, work, times, sealed, answers, told>>
      BY <2>1 DEF Tick, history
    <3> QED
      BY <1>1, <2>1, <3>1, LinkStops, GrowsNot DEF ToldOf
  <2>2. ASSUME NEW a \in Apps, DeviceStep(a)
        PROVE  /\ LinkInv' /\ OnlyDevices /\ Grows /\ answers' \subseteq answers /\ ToldOf
    BY <1>1, <2>2, LinkDevice
  <2> QED
    BY <1>1, <2>1, <2>2 DEF OnlyDevices
<1>3. SightInv'
  <2>1. \A r \in Requests : LetIn(r)' => LetIn(r)
    BY <1>2 DEF LetIn
  <2>2. Remembered \subseteq enclave'.sighted
    BY <1>1, <1>2, Fields
  <2> QED
    BY <1>1, <1>2, <2>1, <2>2, SightStays
<1>4. OnceInv'
  <2>1. \A v, w \in work' : v.m.req = w.m.req => v = w
    BY <1>1, <1>2 DEF OnceInv
  <2> QED
    BY <1>1, <1>2, <2>1, OnceStays
<1>5. SaidInv'
  BY <1>1, <1>2, SaidStays
<1> QED
  BY <1>2, <1>3, <1>4, <1>5 DEF TruthInv

\* Every step keeps it.
LEMMA TruthStep == TruthInv /\ [Next]_vars => TruthInv'
<1> SUFFICES ASSUME TruthInv, [Next]_vars PROVE TruthInv'
  OBVIOUS
<1>1. CASE Arrives
  <2>1. PICK m \in sent :
          \/ ReplyAgain(m) \/ AttestAgain(m) \/ ClockTooFar(m) \/ AlreadyMade(m)
          \/ Question(m) \/ NotAsked(m) \/ Purchase(m)
    BY <1>1 DEF Arrives
  <2> QED
    BY <2>1, TruthTurnedAway, TruthLetsIn
<1>2. CASE BeingWorkedOn
  BY <1>2, TruthWorkEnds DEF BeingWorkedOn
<1>3. CASE Flush \/ Stop \/ Start \/ Tick \/ \E a \in Apps : DeviceStep(a)
  BY <1>3, TruthFlush, TruthStop, TruthStart, TruthOutside
<1>4. CASE UNCHANGED vars
  BY <1>4 DEF vars, TruthInv, LinkInv, Types, DeviceType, EnclaveType, WorkType, SaidType, Links, Lives,
              SightInv, OnceInv, SaidInv, Made, LetIn, Shut, IsSealed, Signed
<1>5. Next => \/ Arrives \/ BeingWorkedOn \/ Flush \/ Stop \/ Start \/ Tick
              \/ \E a \in Apps : DeviceStep(a)
  BY DEF Next, DeviceStep
<1> QED
  BY <1>1, <1>2, <1>3, <1>4, <1>5

LEMMA TruthAlways == Spec => []TruthInv
<1> QED
  BY TruthInit, TruthStep, PTL DEF Spec

\* CarriedOutOnce: a signed request is carried out at most once, however many devices there
\* are, however long what was sent is under way and whenever the enclave stops.  What is
\* forgotten of what was seen (first_sight) is too old for the clock by then, because a
\* request is remembered for twice the skew, and a request sealed to another start is not
\* opened.
THEOREM RequestCarriedOutOnce == Spec => []CarriedOutOnce
<1>1. TruthInv => CarriedOutOnce
  BY DEF TruthInv, OnceInv, CarriedOutOnce
<1> QED
  BY <1>1, TruthAlways, PTL

\* ToldTheTruth: what a device is told was sealed for the request it made, and what is sealed
\* is what happened to it, whatever was kept for a resend (remember) and dropped meanwhile.
THEOREM DevicesAreToldTheTruth == Spec => []ToldTheTruth
<1>1. TruthInv => ToldTheTruth
  <2> SUFFICES ASSUME TruthInv, NEW t \in told
               PROVE  (t.out = "done" => times[t.req] = 1) /\ (t.out = "refused" => times[t.req] = 0)
    BY DEF ToldTheTruth
  <2>1. IsSealed(t.req, t.out)
    BY DEF TruthInv, SaidInv
  <2> QED
    BY <2>1 DEF TruthInv, OnceInv, IsSealed
<1> QED
  BY <1>1, TruthAlways, PTL

-----------------------------------------------------------------------------
(* What was answered is kept.                                               *)

HasPlace(w, wait, kept) ==
  w.stage = "waits" => IF w.mark = 0 THEN w.m.req \in kept ELSE w.mark <= Len(wait) /\ wait[w.mark] = w.m.req

\* What is sealed or worked on was made, and is a purchase or none for ever.
LEMMA PurchaseStays ==
  ASSUME TruthInv, Grows
  PROVE  /\ \A w \in work : w.m.req \in Requests /\ (IsPurchase(w.m.req)' <=> IsPurchase(w.m.req))
         /\ \A x \in sealed : x.out # "clock" => (IsPurchase(x.req)' <=> IsPurchase(x.req))
         /\ \A m \in sent : m.req \in Requests /\ (IsPurchase(m.req)' <=> IsPurchase(m.req))
<1>1. LinkInv /\ SightInv /\ DeviceType
  BY DEF TruthInv, LinkInv, Types
<1>2. \A r \in Requests : Made(r) => (IsPurchase(r)' <=> IsPurchase(r))
  BY <1>1, MadeStays DEF IsPurchase
<1>3. \A m \in sent : m.req \in Requests /\ Made(m.req)
  BY <1>1, SentTypes
<1>4. \A w \in work : w.m \in sent
  BY <1>1 DEF LinkInv, Links
<1>5. ASSUME NEW x \in sealed, x.out # "clock" PROVE x.req \in Requests /\ Made(x.req)
  <2>1. x.req \in Requests
    BY <1>1, <1>5 DEF LinkInv, Types, SaidType, Said
  <2> QED
    BY <1>1, <1>5, <2>1 DEF SightInv, LetIn
<1> QED
  BY <1>2, <1>3, <1>4, <1>5

\* A step that leaves what is pending, or all work.
LEMMA KeptStays ==
  ASSUME TruthInv, KeptInv, Grows, disk' = disk, work' \subseteq work, work' = {} \/ pending' = pending,
         \A x \in sealed' :
           \/ x \in sealed
           \/ x.out = "done" => x.req \in disk \/ ~IsPurchase(x.req)'
  PROVE  KeptInv'
<1>1. ASSUME NEW w \in work'
      PROVE  /\ w.stage = "asked" => w.mark = 0
             /\ HasPlace(w, pending', disk')
             /\ w.stage = "asked" <=> ~IsPurchase(w.m.req)'
  BY <1>1, PurchaseStays DEF KeptInv, HasPlace
<1>2. ASSUME NEW x \in sealed', x.out = "done", IsPurchase(x.req)' PROVE x.req \in disk'
  BY <1>2, PurchaseStays DEF KeptInv
<1> QED
  BY <1>1, <1>2 DEF KeptInv, HasPlace

LEMMA KeptInit == Init => KeptInv
  BY DEF Init, KeptInv

LEMMA KeptWorkEnds ==
  ASSUME TruthInv, KeptInv, NEW w \in work,
         \/ \E yes \in BOOLEAN : Answered(w, yes) \/ Declined(w, yes)
         \/ NotAnswered(w) \/ HostConfirmed(w) \/ HostTooSlow(w)
  PROVE  KeptInv'
<1>1. LinkInv /\ DeviceType
  BY DEF TruthInv, LinkInv, Types
<1>2. Grows /\ disk' = disk /\ pending' = pending /\ work' \subseteq work
  BY <1>1, WorkEnds, GrowsNot DEF SameDevices
<1>3. PICK out \in Settled :
        sealed' = sealed \cup {[req |-> w.m.req, out |-> out]} /\ EndsAs(w, out)
  BY <1>1, WorkEnds
<1>4. out = "done" => w.m.req \in disk \/ ~IsPurchase(w.m.req)
  BY <1>3 DEF EndsAs, KeptInv
<1>5. IsPurchase(w.m.req)' <=> IsPurchase(w.m.req)
  BY <1>2, PurchaseStays
<1>6. \A x \in sealed' : x \in sealed \/ (x.req = w.m.req /\ x.out = out)
  BY <1>3
<1> QED
  BY <1>2, <1>4, <1>5, <1>6, KeptStays

LEMMA KeptLetsIn ==
  ASSUME TruthInv, KeptInv, NEW m \in sent, Question(m) \/ NotAsked(m) \/ Purchase(m)
  PROVE  KeptInv'
<1>1. LinkInv /\ DeviceType /\ pending \in Seq(Requests) /\ Len(pending) \in Nat /\ work \subseteq Works
  BY DEF TruthInv, LinkInv, Types, WorkType
<1>2. Grows /\ disk' = disk /\ m.req \in Requests
  BY <1>1, QuestionDoes, NotAskedDoes, PurchaseDoes, GrowsNot, SentTypes DEF SameDevices, LetsIn
<1>3. IsPurchase(m.req)' <=> IsPurchase(m.req)
  BY <1>2, PurchaseStays
<1>4. CASE NotAsked(m)
  <2>1. work' = work /\ pending' = pending /\ sealed' = sealed \cup {[req |-> m.req, out |-> "refused"]}
    BY <1>1, <1>4, NotAskedDoes
  <2>2. \A x \in sealed' : x \in sealed \/ x.out # "done"
    BY <2>1
  <2> QED
    BY <1>2, <2>1, <2>2, KeptStays
<1>5. CASE Question(m)
  <2> DEFINE new == [m |-> m, stage |-> "asked", mark |-> 0]
  <2>1. pending' = pending /\ sealed' = sealed /\ work' = work \cup {new} /\ ~IsPurchase(m.req)
    BY <1>1, <1>5, QuestionDoes DEF Question, IsPurchase
  <2>2. ASSUME NEW w \in work'
        PROVE  /\ w.stage = "asked" => w.mark = 0
               /\ HasPlace(w, pending', disk')
               /\ w.stage = "asked" <=> ~IsPurchase(w.m.req)'
    <3>1. CASE w \in work
      BY <1>2, <2>1, <3>1, PurchaseStays DEF KeptInv, HasPlace
    <3>2. CASE w = new
      BY <1>3, <2>1, <3>2 DEF HasPlace
    <3> QED
      BY <2>1, <3>1, <3>2
  <2>3. \A x \in sealed' : x.out = "done" /\ IsPurchase(x.req)' => x.req \in disk'
    BY <1>2, <2>1, PurchaseStays DEF KeptInv
  <2> QED
    BY <2>2, <2>3 DEF KeptInv, HasPlace
<1>6. CASE Purchase(m)
  <2> DEFINE new == [m |-> m, stage |-> "waits", mark |-> Len(pending) + 1]
  <2>1. /\ pending' = Append(pending, m.req) /\ sealed' = sealed /\ work' = work \cup {new}
        /\ IsPurchase(m.req)
    BY <1>1, <1>6, PurchaseDoes DEF Purchase, IsPurchase
  <2>2. /\ Len(pending') = Len(pending) + 1 /\ pending'[Len(pending) + 1] = m.req
        /\ \A i \in 1..Len(pending) : pending'[i] = pending[i]
    BY <1>1, <1>2, <2>1, AppendProperties
  <2>3. ASSUME NEW w \in work'
        PROVE  /\ w.stage = "asked" => w.mark = 0
               /\ HasPlace(w, pending', disk')
               /\ w.stage = "asked" <=> ~IsPurchase(w.m.req)'
    <3>1. CASE w \in work
      <4>1. w.mark \in Nat
        BY <1>1, <3>1 DEF Works
      <4>2. HasPlace(w, pending, disk)
        BY <3>1 DEF KeptInv, HasPlace
      <4>3. HasPlace(w, pending', disk')
        BY <1>1, <1>2, <2>2, <4>1, <4>2 DEF HasPlace
      <4> QED
        BY <1>2, <3>1, <4>3, PurchaseStays DEF KeptInv
    <3>2. CASE w = new
      <4>1. w.mark = Len(pending) + 1 /\ w.mark # 0 /\ w.stage = "waits" /\ w.m = m
        BY <1>1, <3>2
      <4> QED
        BY <1>1, <1>3, <2>1, <2>2, <4>1 DEF HasPlace
    <3> QED
      BY <2>1, <3>1, <3>2
  <2>4. \A x \in sealed' : x.out = "done" /\ IsPurchase(x.req)' => x.req \in disk'
    BY <1>2, <2>1, PurchaseStays DEF KeptInv
  <2> QED
    BY <2>3, <2>4 DEF KeptInv, HasPlace
<1> QED
  BY <1>4, <1>5, <1>6

\* The host confirms: what was first in the queue is on the disk, the others are one nearer.
LEMMA KeptFlush ==
  ASSUME TruthInv, KeptInv, Flush
  PROVE  KeptInv'
<1>1. LinkInv /\ DeviceType /\ WorkType /\ pending \in Seq(Requests) /\ Len(pending) \in Nat /\ work \subseteq Works
  BY DEF TruthInv, LinkInv, Types, WorkType
<1>2. /\ SameDevices /\ sealed' = sealed /\ pending # <<>>
      /\ disk' = disk \cup {Head(pending)} /\ pending' = Tail(pending)
      /\ work' = {Nearer(w) : w \in work}
      /\ \A w \in work : /\ Nearer(w).m = w.m /\ Nearer(w).stage = w.stage
                         /\ Nearer(w).mark = IF w.mark > 0 THEN w.mark - 1 ELSE 0
  BY <1>1, FlushDoes
<1>3. /\ Head(pending) = pending[1] /\ Len(pending') = Len(pending) - 1
      /\ \A i \in 1..(Len(pending) - 1) : pending'[i] = pending[i + 1]
  BY <1>1, <1>2, HeadTailProperties
<1>4. Grows
  BY <1>1, <1>2, GrowsNot DEF SameDevices
<1>5. ASSUME NEW v \in work'
      PROVE  /\ v.stage = "asked" => v.mark = 0
             /\ HasPlace(v, pending', disk')
             /\ v.stage = "asked" <=> ~IsPurchase(v.m.req)'
  <2>1. PICK w \in work : v = Nearer(w)
    BY <1>2
  <2>2. /\ v.m = w.m /\ v.stage = w.stage /\ v.mark = IF w.mark > 0 THEN w.mark - 1 ELSE 0
    BY <1>2, <2>1
  <2>3. w.mark \in Nat /\ HasPlace(w, pending, disk) /\ (w.stage = "asked" => w.mark = 0)
        /\ (w.stage = "asked" <=> ~IsPurchase(w.m.req)')
    BY <1>1, <1>4, PurchaseStays DEF Works, KeptInv, HasPlace
  <2>4. HasPlace(v, pending', disk')
    <3>1. CASE w.mark = 0
      BY <1>2, <2>2, <2>3, <3>1 DEF HasPlace
    <3>2. CASE w.mark = 1
      BY <1>2, <1>3, <2>2, <2>3, <3>2 DEF HasPlace
    <3>3. CASE w.mark > 1
      <4>1. v.mark = w.mark - 1 /\ v.mark # 0
        BY <2>2, <2>3, <3>3
      <4>2. ASSUME v.stage = "waits" PROVE v.mark <= Len(pending') /\ pending'[v.mark] = v.m.req
        <5>1. w.mark <= Len(pending) /\ pending[w.mark] = w.m.req
          BY <2>2, <2>3, <3>3, <4>2 DEF HasPlace
        <5>2. v.mark \in 1..(Len(pending) - 1) /\ v.mark + 1 = w.mark /\ v.mark <= Len(pending) - 1
          BY <1>1, <2>3, <3>3, <4>1, <5>1
        <5> QED
          BY <1>3, <2>2, <5>1, <5>2
      <4> QED
        BY <4>1, <4>2 DEF HasPlace
    <3> QED
      BY <2>3, <3>1, <3>2, <3>3
  <2> QED
    BY <2>2, <2>3, <2>4
<1>6. \A x \in sealed' : x.out = "done" /\ IsPurchase(x.req)' => x.req \in disk'
  BY <1>2, <1>4, PurchaseStays DEF KeptInv
<1> QED
  BY <1>5, <1>6 DEF KeptInv, HasPlace

LEMMA KeptStep == TruthInv /\ KeptInv /\ [Next]_vars => KeptInv'
<1> SUFFICES ASSUME TruthInv, KeptInv, [Next]_vars PROVE KeptInv'
  OBVIOUS
<1>1. LinkInv /\ SaidInv /\ DeviceType /\ EnclaveType
  BY DEF TruthInv, LinkInv, Types
<1>2. CASE Arrives
  <2>1. PICK m \in sent :
          \/ ReplyAgain(m) \/ AttestAgain(m) \/ ClockTooFar(m) \/ AlreadyMade(m)
          \/ Question(m) \/ NotAsked(m) \/ Purchase(m)
    BY <1>2 DEF Arrives
  <2>2. CASE ReplyAgain(m) \/ AttestAgain(m) \/ ClockTooFar(m) \/ AlreadyMade(m)
    <3>1. SameDevices /\ UNCHANGED <<work, pending, disk>>
          /\ (sealed' = sealed \/ sealed' = sealed \cup {[req |-> m.req, out |-> "clock"]})
      BY <1>1, <2>2, TurnedAway
    <3>2. \A x \in sealed' : x \in sealed \/ x.out # "done"
      BY <3>1
    <3>3. Grows
      BY <1>1, <3>1, GrowsNot DEF SameDevices
    <3> QED
      BY <3>1, <3>2, <3>3, KeptStays
  <2>3. CASE Question(m) \/ NotAsked(m) \/ Purchase(m)
    BY <2>3, KeptLetsIn
  <2> QED
    BY <2>1, <2>2, <2>3
<1>3. CASE BeingWorkedOn
  BY <1>3, KeptWorkEnds DEF BeingWorkedOn
<1>4. CASE Flush
  BY <1>4, KeptFlush
<1>5. CASE Stop \/ Start \/ Tick
  <2>1. signed' = signed /\ UNCHANGED <<disk, sealed>> /\ work' \subseteq work /\ (work' = {} \/ pending' = pending)
    BY <1>1, <1>5, StopDoes, StartDoes DEF Tick, SameDevices, book, history
  <2> QED
    BY <1>1, <2>1, KeptStays, GrowsNot
<1>6. CASE \E a \in Apps : DeviceStep(a)
  <2>1. OnlyDevices /\ Grows
    BY <1>1, <1>6, LinkDevice
  <2> QED
    BY <2>1, KeptStays DEF OnlyDevices
<1>7. CASE UNCHANGED vars
  <2>1. UNCHANGED <<signed, disk, work, pending, sealed>>
    BY <1>7 DEF vars
  <2> QED
    BY <1>1, <2>1, KeptStays, GrowsNot
<1>8. Next => \/ Arrives \/ BeingWorkedOn \/ Flush \/ Stop \/ Start \/ Tick
              \/ \E a \in Apps : DeviceStep(a)
  BY DEF Next, DeviceStep
<1> QED
  BY <1>2, <1>3, <1>4, <1>5, <1>6, <1>7, <1>8

\* AnsweredIsKept: a purchase a device was told of is on the host's disk, whatever stops.
\* What waits for the host (durably) stands in the queue where its mark says until it is on
\* the disk, and what is lost in a stop was not answered.
THEOREM PurchaseToldIsKept == Spec => []AnsweredIsKept
<1>1. TruthInv /\ KeptInv => AnsweredIsKept
  <2> SUFFICES ASSUME TruthInv, KeptInv, NEW t \in told, t.out = "done", Signed(t.req).kind # "question"
               PROVE  t.req \in disk
    BY DEF AnsweredIsKept
  <2>1. [req |-> t.req, out |-> t.out] \in sealed
    BY DEF TruthInv, SaidInv, IsSealed
  <2> QED
    BY <2>1 DEF KeptInv, IsPurchase
<1> QED
  BY <1>1, TruthAlways, KeptInit, KeptStep, PTL DEF Spec

-----------------------------------------------------------------------------
(* Declines of a day.                                                       *)

LEMMA AskedTypes ==
  ASSUME WorkType
  PROVE  IsFiniteSet(Asked) /\ Cardinality(Asked) \in Nat
  BY FS_Subset, FS_CardinalityType DEF WorkType, Asked

LEMMA DeclineInit == Init => DeclineInv
<1> SUFFICES ASSUME Init PROVE DeclineInv
  OBVIOUS
<1>1. Asked = {} /\ enclave.strikes = 0 /\ most = 0
  BY DEF Init, Asked
<1>2. Cardinality(Asked) = 0
  BY <1>1, FS_EmptySet
<1> QED
  BY <1>1, <1>2, KnownConstants DEF DeclineInv

LEMMA DeclineWorkEnds ==
  ASSUME LinkInv, DeclineInv, NEW w \in work,
         \/ \E yes \in BOOLEAN : Answered(w, yes) \/ Declined(w, yes)
         \/ NotAnswered(w) \/ HostConfirmed(w) \/ HostTooSlow(w)
  PROVE  DeclineInv'
<1>1. WorkType /\ enclave.strikes \in Nat /\ most \in Nat /\ StrikesPerDay \in Nat
  BY KnownConstants DEF LinkInv, Types, EnclaveType, Enclaves, WorkType
<1>2. /\ work' = work \ {w} /\ most' = most
      /\ \/ enclave'.strikes = enclave.strikes
         \/ w.stage = "asked" /\ enclave'.strikes = enclave.strikes + 1
  BY WorkEnds
<1>3. CASE w.stage = "asked"
  <2>1. Asked' = Asked \ {w} /\ w \in Asked
    BY <1>2, <1>3 DEF Asked
  <2>2. Cardinality(Asked \ {w}) = Cardinality(Asked) - 1
    BY <1>1, <2>1, AskedTypes, FS_RemoveElement
  <2>3. Cardinality(Asked)' = Cardinality(Asked) - 1
    BY <2>1, <2>2
  <2> QED
    BY <1>1, <1>2, <2>3, AskedTypes DEF DeclineInv
<1>4. CASE w.stage # "asked"
  <2>1. Asked' = Asked
    BY <1>2, <1>4 DEF Asked
  <2> QED
    BY <1>2, <1>4, <2>1 DEF DeclineInv
<1> QED
  BY <1>3, <1>4

\* The strikes are looked at before a question is asked.
LEMMA DeclineQuestion ==
  ASSUME LinkInv, DeclineInv, NEW m \in sent, Question(m)
  PROVE  DeclineInv'
<1> DEFINE new == [m |-> m, stage |-> "asked", mark |-> 0]
           n == Cardinality(Asked) + 1
<1>1. WorkType /\ enclave.strikes \in Nat /\ most \in Nat /\ StrikesPerDay \in Nat
  BY KnownConstants DEF LinkInv, Types, EnclaveType, Enclaves, WorkType
<1>2. /\ work' = work \cup {new} /\ enclave'.strikes = enclave.strikes
      /\ enclave.strikes < StrikesPerDay /\ most' = IF n > most THEN n ELSE most
  BY QuestionDoes DEF LetsIn, Question, StrikesLeft
<1>3. Asked' = Asked \cup {new}
  BY <1>2 DEF Asked
<1>4. Cardinality(Asked \cup {new}) \in {Cardinality(Asked), Cardinality(Asked) + 1}
  BY <1>1, AskedTypes, FS_AddElement
<1>5. Cardinality(Asked)' \in {Cardinality(Asked), Cardinality(Asked) + 1}
  BY <1>3, <1>4
<1>6. Cardinality(Asked) \in Nat
  BY <1>1, AskedTypes
<1>7. most' \in Nat /\ most' >= n
  BY <1>1, <1>2, <1>6
<1> QED
  BY <1>1, <1>2, <1>5, <1>6, <1>7 DEF DeclineInv

LEMMA DeclineStep == TruthInv /\ KeptInv /\ DeclineInv /\ [Next]_vars => DeclineInv'
<1> SUFFICES ASSUME TruthInv, KeptInv, DeclineInv, [Next]_vars PROVE DeclineInv'
  OBVIOUS
<1>1. LinkInv /\ SaidInv /\ WorkType /\ EnclaveType /\ work \subseteq Works
  BY DEF TruthInv, LinkInv, Types, WorkType
<1>2. ASSUME enclave'.strikes = enclave.strikes, Asked' = Asked, most' = most PROVE DeclineInv'
  BY <1>2 DEF DeclineInv
<1>3. CASE Arrives
  <2>1. PICK m \in sent :
          \/ ReplyAgain(m) \/ AttestAgain(m) \/ ClockTooFar(m) \/ AlreadyMade(m)
          \/ Question(m) \/ NotAsked(m) \/ Purchase(m)
    BY <1>3 DEF Arrives
  <2>2. CASE ReplyAgain(m) \/ AttestAgain(m) \/ ClockTooFar(m) \/ AlreadyMade(m)
    BY <1>1, <1>2, <2>2, TurnedAway DEF Asked
  <2>3. CASE NotAsked(m)
    BY <1>1, <1>2, <2>3, NotAskedDoes DEF Asked, LetsIn
  <2>4. CASE Question(m)
    BY <1>1, <2>4, DeclineQuestion
  <2>5. CASE Purchase(m)
    <3> DEFINE new == [m |-> m, stage |-> "waits", mark |-> Len(pending) + 1]
    <3>1. work' = work \cup {new} /\ enclave'.strikes = enclave.strikes /\ most' = most
      BY <1>1, <2>5, PurchaseDoes DEF LetsIn
    <3>2. new.stage # "asked"
      OBVIOUS
    <3>3. Asked' = Asked
      BY <3>1, <3>2 DEF Asked
    <3> QED
      BY <1>2, <3>1, <3>3
  <2> QED
    BY <2>1, <2>2, <2>3, <2>4, <2>5
<1>4. CASE BeingWorkedOn
  BY <1>1, <1>4, DeclineWorkEnds DEF BeingWorkedOn
<1>5. CASE Flush
  <2>1. enclave' = enclave /\ most' = most /\ work' = {Nearer(w) : w \in work}
        /\ \A w \in work : Nearer(w).stage = w.stage
    BY <1>1, <1>5, FlushDoes
  <2>2. \A w \in work : w.stage = "asked" => Nearer(w) = w
    BY DEF KeptInv, Nearer
  <2>3. Asked' = Asked
    BY <2>1, <2>2 DEF Asked
  <2> QED
    BY <1>2, <2>1, <2>3
<1>6. CASE Stop
  <2>1. Asked' = {} /\ enclave'.strikes = 0 /\ most' = 0
    BY <1>1, <1>6, StopDoes DEF Asked
  <2>2. Cardinality(Asked)' = 0
    BY <2>1, FS_EmptySet
  <2> QED
    BY <2>1, <2>2, KnownConstants DEF DeclineInv
<1>7. CASE Start
  BY <1>1, <1>2, <1>7, StartDoes DEF Asked
<1>8. CASE Tick
  BY <1>2, <1>8 DEF Tick, Asked, history
<1>9. CASE \E a \in Apps : DeviceStep(a)
  BY <1>1, <1>2, <1>9, LinkDevice DEF OnlyDevices, Asked
<1>10. CASE UNCHANGED vars
  BY <1>2, <1>10 DEF vars, Asked
<1>11. Next => \/ Arrives \/ BeingWorkedOn \/ Flush \/ Stop \/ Start \/ Tick
               \/ \E a \in Apps : DeviceStep(a)
  BY DEF Next, DeviceStep
<1> QED
  BY <1>3, <1>4, <1>5, <1>6, <1>7, <1>8, <1>9, <1>10, <1>11

\* DeclinesBounded: the declines of a day pass their limit only by questions that were asked
\* at one time.  The strikes are looked at when a question is asked, not when its answer is
\* declined (chat), so the questions being asked count as declines already.
THEOREM DeclinesStayBounded == Spec => []DeclinesBounded
<1>1. TruthInv /\ DeclineInv => DeclinesBounded
  <2> SUFFICES ASSUME TruthInv, DeclineInv PROVE DeclinesBounded
    OBVIOUS
  <2>1. Cardinality(Asked) \in Nat /\ enclave.strikes \in Nat /\ most \in Nat /\ StrikesPerDay \in Nat
    BY KnownConstants, AskedTypes DEF TruthInv, LinkInv, Types, EnclaveType, Enclaves, WorkType
  <2> QED
    BY <2>1 DEF DeclineInv, DeclinesBounded
<1> QED
  BY <1>1, TruthAlways, KeptInit, KeptStep, DeclineInit, DeclineStep, PTL DEF Spec

-----------------------------------------------------------------------------
(* A call that is signed again.                                             *)

\* What is on its way was made, and is signed for ever as it was.
LEMMA SignedStays ==
  ASSUME LinkInv, Grows
  PROVE  \A x \in answers : /\ x.m.req \in Requests /\ Made(x.m.req)
                            /\ Signed(x.m.req)' = Signed(x.m.req) /\ Signed(x.m.req).life \in Nat
                            /\ Signed(x.m.req).life <= enclave.life
<1> SUFFICES ASSUME NEW x \in answers
             PROVE  /\ x.m.req \in Requests /\ Made(x.m.req)
                    /\ Signed(x.m.req)' = Signed(x.m.req) /\ Signed(x.m.req).life \in Nat
                    /\ Signed(x.m.req).life <= enclave.life
  OBVIOUS
<1>1. x.m \in sent
  BY DEF LinkInv, Links
<1>2. x.m.req \in Requests /\ Made(x.m.req)
  BY <1>1, SentTypes
<1> QED
  BY <1>2, MadeStays, SignedTypes DEF LinkInv, Types

LEMMA SignatureTypes ==
  ASSUME LinkInv, NEW a \in Apps
  PROVE  /\ Len(signed[a]) \in Nat
         /\ \A n \in 1..Len(signed[a]) : signed[a][n].life \in Nat /\ signed[a][n].first \in BOOLEAN
                                         /\ signed[a][n].life <= enclave.life
<1>1. signed[a] \in Seq(Signatures)
  BY DEF LinkInv, Types, DeviceType
<1>2. Len(signed[a]) \in Nat
  BY <1>1
<1>3. \A n \in 1..Len(signed[a]) : signed[a][n] \in Signatures /\ n \in Nat
  BY <1>1, <1>2, ElementOfSeq
<1> QED
  BY <1>2, <1>3 DEF Signatures, LinkInv, Lives

LEMMA SignInit == Init => SignInv
<1> SUFFICES ASSUME Init PROVE SignInv
  OBVIOUS
<1>1. /\ answers = {} /\ \A a \in Apps : Len(signed[a]) = 0 /\ app[a].pc = "idle"
  BY DEF Init
<1> QED
  BY <1>1 DEF SignInv

\* An answer to what was sealed to an earlier start.
ToOlder(x) == Signed(x.m.req).life \in Nat /\ Signed(x.m.req).life < enclave.life
SaysAgain == \A x \in answers' : x \in answers \/ x.out # "attest again" \/ ToOlder(x)

\* A step of the enclave: only what is sealed to an earlier start is to be signed again.
LEMMA SignEnclave ==
  ASSUME LinkInv, SignInv, app' = app, signed' = signed, enclave'.life \in Nat, enclave.life <= enclave'.life,
         SaysAgain
  PROVE  SignInv'
<1>1. enclave.life \in Nat
  BY DEF LinkInv, Types, EnclaveType, Enclaves
<1>2. \A x \in answers' : Signed(x.m.req)' = Signed(x.m.req)
  BY DEF Signed
<1>3. Grows
  BY GrowsNot DEF LinkInv, Types
<1>4. ASSUME NEW x \in answers', x.out = "attest again" PROVE Signed(x.m.req)'.life < enclave'.life
  <2>1. ToOlder(x)
    <3>1. CASE x \in answers
      BY <1>3, <1>4, <3>1, SignedStays, Zenon DEF SignInv, ToOlder
    <3> QED
      BY <1>4, <3>1 DEF SaysAgain
  <2>2. \A k \in Nat : k < enclave.life => k < enclave'.life
    BY <1>1
  <2> QED
    BY <1>2, <2>1, <2>2, Zenon DEF ToOlder
<1>5. ASSUME NEW a \in Apps, app[a].pc = "ready", app[a].attempt = 2
      PROVE  /\ Len(signed[a]) > 0 /\ signed[a][Len(signed[a])].first
             /\ signed[a][Len(signed[a])].life < enclave'.life
             /\ app[a].session = 0 \/ signed[a][Len(signed[a])].life < app[a].session
  <2>1. Len(signed[a]) > 0 /\ signed[a][Len(signed[a])].life < enclave.life
    BY <1>5 DEF SignInv
  <2>2. Len(signed[a]) \in 1..Len(signed[a])
    <3>1. Len(signed[a]) \in Nat
      BY SignatureTypes
    <3> QED
      BY <2>1, <3>1
  <2>3. signed[a][Len(signed[a])].life \in Nat
    BY <2>2, SignatureTypes
  <2>4. signed[a][Len(signed[a])].life < enclave'.life
    BY <1>1, <2>1, <2>3
  <2> QED
    BY <1>5, <2>1, <2>4, Zenon DEF SignInv
<1> QED
  BY <1>4, <1>5 DEF SignInv

\* A device goes on to c, which may be signed again only after a signature for an earlier start.
LEMMA SignConnects ==
  ASSUME LinkInv, SignInv, NEW a \in Apps, NEW c \in Connections, app' = [app EXCEPT ![a] = c],
         signed' = signed, enclave' = enclave, answers' \subseteq answers,
         c.pc = "waits" => app[a].pc = "waits" /\ c.attempt = app[a].attempt,
         c.pc = "ready" /\ c.attempt = 2 =>
           /\ Len(signed[a]) > 0 /\ signed[a][Len(signed[a])].first
           /\ signed[a][Len(signed[a])].life < enclave.life
           /\ c.session = 0 \/ signed[a][Len(signed[a])].life < c.session
  PROVE  SignInv'
<1>1. \A b \in Apps : app'[b] = IF b = a THEN c ELSE app[b]
  BY DEF LinkInv, Types, DeviceType
<1>2. \A x \in answers' : Signed(x.m.req)' = Signed(x.m.req)
  BY DEF Signed
<1>3. \A x \in answers' : x.out = "attest again" => Signed(x.m.req)'.life < enclave'.life
  BY <1>2 DEF SignInv
<1>4. ASSUME NEW b \in Apps, app'[b].pc = "waits"
      PROVE  signed[b][Len(signed[b])].first = (app'[b].attempt = 1)
  <2>1. app[b].pc = "waits" /\ app'[b].attempt = app[b].attempt
    BY <1>1, <1>4
  <2> QED
    BY <2>1, Zenon DEF SignInv
<1>5. ASSUME NEW b \in Apps, app'[b].pc = "ready", app'[b].attempt = 2
      PROVE  /\ Len(signed[b]) > 0 /\ signed[b][Len(signed[b])].first
             /\ signed[b][Len(signed[b])].life < enclave.life
             /\ app'[b].session = 0 \/ signed[b][Len(signed[b])].life < app'[b].session
  <2>1. CASE b = a
    BY <1>1, <1>5, <2>1
  <2>2. CASE b # a
    <3>1. app'[b] = app[b]
      BY <1>1, <2>2
    <3> QED
      BY <1>5, <3>1, Zenon DEF SignInv
  <2> QED
    BY <2>1, <2>2
<1> QED
  BY <1>3, <1>4, <1>5 DEF SignInv

LEMMA SignSigns ==
  ASSUME LinkInv, SignInv, NEW a \in Apps, Sign(a)
  PROVE  SignInv'
<1> DEFINE k == Len(signed[a])
<1>1. /\ OnlyDevices /\ answers' = answers /\ app[a].pc = "ready" /\ app[a].session # 0
      /\ Len(signed'[a]) = k + 1 /\ signed'[a][k + 1] = Signature(a)
      /\ Grows /\ \A b \in Apps \ {a} : signed'[b] = signed[b]
  BY SignDoes
<1>2. PICK c \in Connections :
        app' = [app EXCEPT ![a] = c] /\ c.pc = "waits" /\ c.attempt = app[a].attempt
  BY SignDoes
<1>3. \A b \in Apps : app'[b] = IF b = a THEN c ELSE app[b]
  BY <1>2 DEF LinkInv, Types, DeviceType
<1>4. k \in Nat /\ app[a].attempt \in {1, 2} /\ \A n \in 1..k : signed'[a][n] = signed[a][n]
  BY <1>1, SignatureTypes DEF Grows, LinkInv, Types, DeviceType, Connections
<1>5. Signature(a).first = (app[a].attempt = 1) /\ Signature(a).life = app[a].session
  BY DEF Signature
<1>6. \A x \in answers' : x.out = "attest again" => Signed(x.m.req)'.life < enclave'.life
  BY <1>1, SignedStays DEF SignInv, OnlyDevices
<1>7. ASSUME NEW b \in Apps, NEW n \in Nat, n \in 1..Len(signed'[b]), ~signed'[b][n].first
      PROVE  n > 1 /\ signed'[b][n - 1].first /\ signed'[b][n - 1].life < signed'[b][n].life
  <2>1. CASE b # a
    <3>1. signed'[b] = signed[b]
      BY <1>1, <2>1
    <3> QED
      BY <1>7, <3>1 DEF SignInv
  <2>2. CASE b = a /\ n \in 1..k
    <3>1. n > 1 /\ signed[a][n - 1].first /\ signed[a][n - 1].life < signed[a][n].life
      BY <1>4, <1>7, <2>2 DEF SignInv
    <3>2. n - 1 \in 1..k
      BY <1>4, <2>2, <3>1
    <3> QED
      BY <1>4, <2>2, <3>1, <3>2
  <2>3. CASE b = a /\ n = k + 1
    <3>1. app[a].attempt = 2
      BY <1>1, <1>4, <1>5, <1>7, <2>3
    <3>2. k > 0 /\ signed[a][k].first /\ signed[a][k].life < app[a].session
      BY <1>1, <3>1 DEF SignInv
    <3>3. k \in 1..k /\ n - 1 = k /\ n > 1
      BY <1>4, <2>3, <3>2
    <3>4. signed'[a][k] = signed[a][k]
      BY <1>4, <3>3
    <3> QED
      BY <1>1, <1>5, <2>3, <3>2, <3>3, <3>4
  <2> QED
    BY <1>1, <1>4, <1>7, <2>1, <2>2, <2>3
<1>8. ASSUME NEW b \in Apps, app'[b].pc = "waits"
      PROVE  signed'[b][Len(signed'[b])].first = (app'[b].attempt = 1)
  <2>1. CASE b = a
    BY <1>1, <1>2, <1>3, <1>5, <2>1
  <2>2. CASE b # a
    <3>1. signed'[b] = signed[b] /\ app'[b] = app[b]
      BY <1>1, <1>3, <2>2
    <3>2. app[b].pc = "waits"
      BY <1>8, <3>1
    <3> QED
      BY <3>1, <3>2, Zenon DEF SignInv
  <2> QED
    BY <2>1, <2>2
<1>9. ASSUME NEW b \in Apps, app'[b].pc = "ready", app'[b].attempt = 2
      PROVE  /\ Len(signed'[b]) > 0 /\ signed'[b][Len(signed'[b])].first
             /\ signed'[b][Len(signed'[b])].life < enclave'.life
             /\ app'[b].session = 0 \/ signed'[b][Len(signed'[b])].life < app'[b].session
  <2>1. b # a /\ app'[b] = app[b]
    BY <1>2, <1>3, <1>9
  <2>2. signed'[b] = signed[b] /\ enclave' = enclave
    BY <1>1, <2>1 DEF OnlyDevices
  <2> QED
    BY <1>9, <2>1, <2>2 DEF SignInv
<1> HIDE DEF k
<1> QED
  BY <1>6, <1>7, <1>8, <1>9 DEF SignInv

LEMMA SignDevice ==
  ASSUME LinkInv, SignInv, NEW a \in Apps, DeviceStep(a)
  PROVE  SignInv'
<1> DEFINE k == Len(signed[a])
<1>1. CASE Sign(a)
  BY <1>1, SignSigns
<1>2. CASE Lost(a)
  <2>1. OnlyDevices /\ signed' = signed /\ answers' \subseteq answers /\ app[a].pc = "waits"
    BY <1>2, LostDoes
  <2>2. PICK c \in Connections :
          app' = [app EXCEPT ![a] = c] /\ c.pc = "waits" /\ c.attempt = app[a].attempt
    BY <1>2, LostDoes
  <2> QED
    BY <2>1, <2>2, SignConnects DEF OnlyDevices
<1>3. CASE ~Sign(a) /\ ~Lost(a)
  <2>1. OnlyDevices /\ signed' = signed /\ answers' \subseteq answers
    BY <1>3, DeviceDoes
  <2>2. PICK c \in Connections : app' = [app EXCEPT ![a] = c] /\ GoesOnTo(a, c)
    BY <1>3, DeviceDoes
  <2>3. c.pc # "waits"
    BY <2>2 DEF GoesOnTo
  <2>4. ASSUME c.pc = "ready", c.attempt = 2
        PROVE  /\ k > 0 /\ signed[a][k].first /\ signed[a][k].life < enclave.life
               /\ c.session = 0 \/ signed[a][k].life < c.session
    <3>1. CASE app[a].pc = "ready" /\ app[a].attempt = 2 /\ c.session = enclave.life
      BY <3>1 DEF SignInv
    <3>2. CASE /\ c.session = 0 /\ app[a].pc = "waits" /\ app[a].attempt = 1
               /\ \E x \in answers : x.m = app[a].m /\ x.out = "attest again"
      <4>1. PICK x \in answers : x.m = app[a].m /\ x.out = "attest again"
        BY <3>2
      <4>2. x.m.req = [app |-> a, n |-> k] /\ Made(x.m.req)
        BY <3>2, <4>1 DEF LinkInv, Links
      <4>3. Signed(x.m.req) = signed[a][k] /\ k \in 1..k
        BY <4>2 DEF Signed, Made
      <4>4. k > 0
        BY <4>3, SignatureTypes
      <4>5. signed[a][k].first
        BY <3>2 DEF SignInv
      <4>6. signed[a][k].life < enclave.life
        BY <4>1, <4>3 DEF SignInv
      <4> QED
        BY <3>2, <4>4, <4>5, <4>6
    <3>3. \/ app[a].pc = "ready" /\ app[a].attempt = 2 /\ c.session = enclave.life
          \/ /\ c.session = 0 /\ app[a].pc = "waits" /\ app[a].attempt = 1
             /\ \E x \in answers : x.m = app[a].m /\ x.out = "attest again"
      <4>1. c.pc # "idle" /\ c.attempt # 1 /\ c.attempt = 2
        BY <2>4
      <4> HIDE DEF k
      <4> QED
        BY <2>2, <4>1, Zenon DEF GoesOnTo
    <3> QED
      BY <3>1, <3>2, <3>3
  <2> QED
    BY <2>1, <2>2, <2>3, <2>4, SignConnects DEF OnlyDevices
<1> QED
  BY <1>1, <1>2, <1>3

LEMMA SignStep == TruthInv /\ SignInv /\ [Next]_vars => SignInv'
<1> SUFFICES ASSUME TruthInv, SignInv, [Next]_vars PROVE SignInv'
  OBVIOUS
<1>1. LinkInv /\ SaidInv /\ WorkType /\ EnclaveType /\ enclave.life \in Nat
  BY DEF TruthInv, LinkInv, Types, EnclaveType, Enclaves
<1>2. CASE Arrives
  <2>1. PICK m \in sent :
          \/ ReplyAgain(m) \/ AttestAgain(m) \/ ClockTooFar(m) \/ AlreadyMade(m)
          \/ Question(m) \/ NotAsked(m) \/ Purchase(m)
    BY <1>2 DEF Arrives
  <2>2. Signed(m.req).life \in Nat /\ Signed(m.req).life <= enclave.life
    BY <1>1, SentTypes, SignedTypes
  <2>3. CASE ReplyAgain(m) \/ AttestAgain(m) \/ ClockTooFar(m) \/ AlreadyMade(m)
    <3>1. SameDevices /\ SameLife
      BY <1>1, <2>3, TurnedAway
    <3>2. PICK out \in Outs : SaysTo(m, out) /\ (out = "attest again" => Signed(m.req).life # enclave.life)
      BY <1>1, <2>3, TurnedAway
    <3>3. \A k \in Nat : k <= enclave.life /\ k # enclave.life => k < enclave.life
      BY <1>1
    <3>4. out = "attest again" => Signed(m.req).life < enclave.life
      BY <2>2, <3>2, <3>3, Zenon
    <3>5. ASSUME NEW x \in answers', x \notin answers PROVE x.out # "attest again" \/ ToOlder(x)
      <4>1. x = [m |-> m, out |-> out]
        BY <3>2, <3>5 DEF SaysTo
      <4>2. x.m = m /\ x.out = out
        BY <4>1
      <4> QED
        BY <2>2, <3>4, <4>2 DEF ToOlder
    <3>6. /\ app' = app /\ signed' = signed /\ enclave'.life \in Nat /\ enclave.life <= enclave'.life
      BY <1>1, <3>1 DEF SameDevices, SameLife
    <3> QED
      BY <1>1, <3>5, <3>6, SignEnclave DEF SaysAgain
  <2>4. CASE Question(m) \/ NotAsked(m) \/ Purchase(m)
    <3>1. LetsIn(m) /\ (answers' = answers \/ SaysTo(m, "refused"))
      BY <1>1, <2>4, QuestionDoes, NotAskedDoes, PurchaseDoes
    <3>2. \A x \in answers' : x \in answers \/ x.out = "refused"
      BY <3>1 DEF SaysTo
    <3>3. /\ app' = app /\ signed' = signed /\ enclave'.life \in Nat /\ enclave.life <= enclave'.life
      BY <1>1, <3>1 DEF LetsIn, SameDevices, SameLife
    <3> QED
      BY <1>1, <3>2, <3>3, SignEnclave DEF SaysAgain
  <2> QED
    BY <2>1, <2>3, <2>4
<1>3. CASE BeingWorkedOn
  <2>1. PICK w \in work : \/ \E yes \in BOOLEAN : Answered(w, yes) \/ Declined(w, yes)
                          \/ NotAnswered(w) \/ HostConfirmed(w) \/ HostTooSlow(w)
    BY <1>3 DEF BeingWorkedOn
  <2>2. SameDevices /\ SameLife
    BY <1>1, <2>1, WorkEnds
  <2>3. PICK out \in Settled : SaysTo(w.m, out)
    BY <1>1, <2>1, WorkEnds
  <2>4. out # "attest again"
    BY DEF Settled
  <2>5. ASSUME NEW x \in answers', x \notin answers PROVE x.out # "attest again"
    <3>1. x = [m |-> w.m, out |-> out]
      BY <2>3, <2>5 DEF SaysTo
    <3> QED
      BY <2>4, <3>1
  <2>6. /\ app' = app /\ signed' = signed /\ enclave'.life \in Nat /\ enclave.life <= enclave'.life
    BY <1>1, <2>2 DEF SameDevices, SameLife
  <2> QED
    BY <1>1, <2>5, <2>6, SignEnclave DEF SaysAgain
<1>4. CASE Flush \/ Stop \/ Start \/ Tick
  <2>1. app' = app /\ signed' = signed /\ answers' = answers /\ enclave'.life \in {enclave.life, enclave.life + 1}
    BY <1>1, <1>4, FlushDoes, StopDoes, StartDoes DEF SameDevices, Tick
  <2>2. enclave'.life \in Nat /\ enclave.life <= enclave'.life
    BY <1>1, <2>1
  <2> QED
    BY <1>1, <2>1, <2>2, SignEnclave DEF SaysAgain
<1>5. CASE \E a \in Apps : DeviceStep(a)
  BY <1>1, <1>5, SignDevice
<1>6. CASE UNCHANGED vars
  <2>1. app' = app /\ signed' = signed /\ answers' = answers /\ enclave' = enclave
    BY <1>6 DEF vars
  <2>2. enclave'.life \in Nat /\ enclave.life <= enclave'.life
    BY <1>1, <2>1
  <2> QED
    BY <1>1, <2>1, <2>2, SignEnclave DEF SaysAgain
<1>7. Next => \/ Arrives \/ BeingWorkedOn \/ Flush \/ Stop \/ Start \/ Tick
              \/ \E a \in Apps : DeviceStep(a)
  BY DEF Next, DeviceStep
<1> QED
  BY <1>2, <1>3, <1>4, <1>5, <1>6, <1>7

\* Of two requests of one call the later is signed for a later start.
LEMMA CallSignedAgain ==
  ASSUME LinkInv, SignInv, NEW q \in Requests, NEW r \in Requests, Made(q), Made(r),
         q.app = r.app, q.n < r.n, CallOf(q) = CallOf(r)
  PROVE  Signed(q).life < Signed(r).life
<1> DEFINE a == r.app
           F(n) == {i \in 1..n : signed[a][i].first}
<1>1. /\ a \in Apps /\ q.n \in Nat /\ r.n \in Nat /\ q.n \in 1..Len(signed[a]) /\ r.n \in 1..Len(signed[a])
      /\ Len(signed[a]) \in Nat
  BY KnownConstants, SignatureTypes DEF Requests, Made
<1>2. F(q.n) = F(r.n)
  <2>1. 1..q.n \subseteq 1..r.n
    BY <1>1
  <2>2. F(q.n) \subseteq F(r.n) /\ F(r.n) \subseteq 1..r.n
    BY <2>1
  <2>4. IsFiniteSet(1..r.n)
    BY <1>1, FS_Interval
  <2>5. IsFiniteSet(F(r.n))
    BY <2>2, <2>4, FS_Subset
  <2>3. Cardinality(F(q.n)) = Cardinality(F(r.n))
    BY DEF CallOf
  <2> HIDE DEF F
  <2> QED
    BY <2>2, <2>3, <2>5, FS_Subset
<1>3. ~signed[a][r.n].first
  <2>1. r.n \in 1..r.n /\ r.n \notin 1..q.n
    BY <1>1
  <2> QED
    BY <1>2, <2>1
<1>4. r.n > 1 /\ signed[a][r.n - 1].first /\ signed[a][r.n - 1].life < signed[a][r.n].life
  BY <1>1, <1>3 DEF SignInv
<1>5. r.n - 1 \in 1..q.n
  <2>1. r.n - 1 \in 1..r.n
    BY <1>1, <1>4
  <2> QED
    BY <1>2, <1>4, <2>1
<1>6. r.n - 1 = q.n
  BY <1>1, <1>5
<1> QED
  BY <1>4, <1>6 DEF Signed

\* ChargedOnceUnlessRestarted: two requests that carried out one call were sealed to two
\* starts of the enclave.  A call is signed again (call_inner) only for an answer in the
\* clear that the enclave gives to what was sealed to an earlier start, once, and then for
\* the start that is up when the new proof is fetched.
THEOREM ChargedAgainOnlyAfterRestart == Spec => []ChargedOnceUnlessRestarted
<1>1. TruthInv /\ SignInv => ChargedOnceUnlessRestarted
  <2> SUFFICES ASSUME TruthInv, SignInv, NEW rq \in Twice
               PROVE  Signed(rq[1]).life # Signed(rq[2]).life
    BY DEF ChargedOnceUnlessRestarted
  <2> DEFINE q == rq[1]
             r == rq[2]
  <2>1. /\ q \in Requests /\ r \in Requests /\ q # r /\ q.app = r.app
        /\ times[q] > 0 /\ times[r] > 0 /\ CallOf(q) = CallOf(r)
    BY DEF Twice
  <2> HIDE DEF q, r
  <2>2. Made(q) /\ Made(r) /\ LinkInv
    BY <2>1 DEF TruthInv, SightInv, LetIn
  <2>3. q.n # r.n /\ q.n \in Nat /\ r.n \in Nat
    <3>1. q = [app |-> q.app, n |-> q.n] /\ r = [app |-> r.app, n |-> r.n]
      BY <2>1 DEF Requests
    <3> QED
      BY <2>1, <3>1, KnownConstants DEF Requests
  <2>4. Signed(q).life \in Nat /\ Signed(r).life \in Nat
    BY <2>1, <2>2, SignedTypes
  <2>5. Signed(q).life < Signed(r).life \/ Signed(r).life < Signed(q).life
    BY <2>1, <2>2, <2>3, CallSignedAgain
  <2>6. Signed(q).life # Signed(r).life
    BY <2>4, <2>5
  <2> QED
    BY <2>6 DEF q, r
<1> QED
  BY <1>1, TruthAlways, SignInit, SignStep, PTL DEF Spec

=============================================================================
