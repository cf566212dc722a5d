---------------------------- MODULE Frames_proofs ----------------------------
(***************************************************************************)
(* What holds of one exchange for every number of parts, chunks, pieces on *)
(* their way and faults.                                                   *)
(***************************************************************************)
EXTENDS Frames, SequenceTheorems, TLAPS

-----------------------------------------------------------------------------
(* A question is answered once more for each time it was forgotten, at      *)
(* most.  An enclave that holds no answer and makes none has forgotten all  *)
(* the answers there were.                                                  *)

HeldType ==
  /\ parts \in Nat \ {0}
  /\ answers \in Seq(1..MaxChunks)
  /\ forgets \in Nat
  /\ held.is \in {"nothing", "arriving", "answering", "answered"}
  /\ held.is = "answered" => held.of \in 1..Len(answers)

ForgottenAnswers == held.is \in {"nothing", "arriving"} => Len(answers) <= forgets

AskedInv == HeldType /\ ForgottenAnswers /\ AskedOnce

LEMMA HeldKinds ==
  /\ Nothing.is = "nothing" /\ Answering.is = "answering"
  /\ \A got : Arriving(got).is = "arriving"
  /\ \A of : Answered(of).is = "answered" /\ Answered(of).of = of
  BY DEF Nothing, Answering, Arriving, Answered

\* The steps that neither answer nor forget: they leave what is held, or add a part to it.
LEMMA HeldStays ==
  ASSUME AskedInv, UNCHANGED <<parts, answers, forgets>>,
         \/ held' = held
         \/ Opens /\ held'.is \in {"nothing", "arriving"}
         \/ Opens /\ held'.is = "answering"
  PROVE  AskedInv'
<1>1. Len(answers) \in Nat /\ forgets \in Nat
  BY DEF AskedInv, HeldType
<1>2. CASE held' = held
  BY <1>2 DEF AskedInv, HeldType, ForgottenAnswers, AskedOnce
<1>3. CASE Opens /\ held'.is \in {"nothing", "arriving", "answering"}
  <2>1. Len(answers) <= forgets
    BY <1>3 DEF AskedInv, ForgottenAnswers, Opens
  <2> QED
    BY <1>1, <1>3, <2>1 DEF AskedInv, HeldType, ForgottenAnswers, AskedOnce
<1> QED
  BY <1>2, <1>3

LEMMA AskedInit == Init => AskedInv
  BY EmptySeq, HeldKinds, FramesAssumption DEF Init, AskedInv, HeldType, ForgottenAnswers, AskedOnce

LEMMA AskedKeep ==
  ASSUME AskedInv, NEW n \in 1..MaxChunks, Keep(n)
  PROVE  AskedInv'
<1>1. /\ held.is = "answering" /\ answers' = Append(answers, n) /\ held' = Answered(Len(answers) + 1)
      /\ UNCHANGED <<parts, forgets>>
  BY DEF Keep, faults
<1>2. answers \in Seq(1..MaxChunks) /\ Len(answers) \in Nat /\ forgets \in Nat
  BY DEF AskedInv, HeldType
<1>3. answers' \in Seq(1..MaxChunks) /\ Len(answers') = Len(answers) + 1
  BY <1>1, <1>2
<1>4. Len(answers) + 1 <= 1 + forgets
  BY <1>1 DEF AskedInv, AskedOnce
<1>5. held'.is = "answered" /\ held'.of = Len(answers) + 1
  BY <1>1, HeldKinds
<1> QED
  BY <1>1, <1>2, <1>3, <1>4, <1>5 DEF AskedInv, HeldType, ForgottenAnswers, AskedOnce

LEMMA AskedForget ==
  ASSUME AskedInv, Forget \/ Restart
  PROVE  AskedInv'
<1>1. held' = Nothing /\ forgets' = forgets + 1 /\ UNCHANGED <<parts, answers>>
  BY DEF Forget, Restart
<1>2. Len(answers) \in Nat /\ forgets \in Nat
  BY DEF AskedInv, HeldType
<1>3. Len(answers) <= 1 + forgets
  BY <1>2 DEF AskedInv, AskedOnce
<1> QED
  BY <1>1, <1>2, <1>3, HeldKinds DEF AskedInv, HeldType, ForgottenAnswers, AskedOnce

LEMMA AskedStep == AskedInv /\ [Next]_vars => AskedInv'
<1> SUFFICES ASSUME AskedInv, [Next]_vars PROVE AskedInv'
  OBVIOUS
<1>1. CASE UNCHANGED vars
  BY <1>1, HeldStays DEF vars
<1>2. CASE Due \/ Quiet
  BY <1>2, HeldStays DEF Due, Quiet, enclave, faults
<1>3. ASSUME NEW i \in Pieces, Late(i) PROVE AskedInv'
  BY <1>3, HeldStays DEF Late, enclave, faults
<1>4. ASSUME NEW f \in net, NEW again \in BOOLEAN, Deliver(f, again) PROVE AskedInv'
  <2>1. CASE Hear(f, again)
    BY <2>1, HeldStays DEF Hear, enclave
  <2>2. CASE TakeWhole(f, again)
    BY <2>2, HeldStays DEF TakeWhole
  <2>3. CASE TakePart(f, again)
    <3>1. held' = held \/ (Opens /\ held'.is \in {"nothing", "arriving"})
      BY <2>3, HeldKinds DEF TakePart
    <3> QED
      BY <2>3, <3>1, HeldStays DEF TakePart
  <2>4. CASE TakeFetch(f, again)
    BY <2>4, HeldStays DEF TakeFetch, enclave
  <2> QED
    BY <1>4, <2>1, <2>2, <2>3, <2>4 DEF Deliver
<1>5. ASSUME NEW f \in net, TooLate(f) \/ Lose(f) PROVE AskedInv'
  BY <1>5, HeldStays DEF TooLate, Lose, enclave, faults
<1>6. CASE Claim
  <2>1. held' = held \/ (Opens /\ held'.is = "answering")
    BY <1>6, HeldKinds DEF Claim, Claimable, Opens, AskedInv, HeldType
  <2> QED
    BY <1>6, <2>1, HeldStays DEF Claim, faults
<1> QED
  BY <1>1, <1>2, <1>3, <1>4, <1>5, <1>6, AskedKeep, AskedForget DEF Next

\* The enclave is not asked the same question twice at once, and twice at all only if it
\* forgot the exchange, however often frames are repeated and whichever message that was
\* taken whole claims the exchange.
THEOREM QuestionAskedOnce == Spec => []AskedOnce
<1>1. Init => AskedInv
  BY AskedInit
<1>2. AskedInv /\ [Next]_vars => AskedInv'
  BY AskedStep
<1>3. AskedInv => AskedOnce
  BY DEF AskedInv
<1> QED
  BY <1>1, <1>2, <1>3, PTL DEF Spec

-----------------------------------------------------------------------------
(* While nothing is forgotten there is one answer, and everything on its    *)
(* way and everything fetched is of it.                                     *)

OnlyAnswer == Len(answers) = 1 /\ answers[1] \in 1..MaxChunks

\* A frame that tells of an answer tells of the only one; one of a failure, of a message
\* that is too big.
FrameFits(f) ==
  /\ f.to = "enclave" /\ f.kind = "fetch" => OnlyAnswer /\ f.seq \in 0..(answers[1] - 1)
  /\ f.to = "app" =>
       /\ f.kind = "fail" => parts > MostParts
       /\ f.kind \in {"whole", "kept", "chunk"} => OnlyAnswer
       /\ f.kind = "kept" => f.seq = answers[1]
       /\ f.kind = "chunk" => f.of = 1

IsExchange == ex = [pc |-> ex.pc, unacked |-> ex.unacked, chunks |-> ex.chunks, have |-> ex.have]
ReplyFits ==
  /\ ex.chunks \in Nat /\ \A c \in ex.have : c.of = 1
  /\ ex.chunks > 0 => OnlyAnswer /\ ex.chunks = answers[1]
  /\ ex.pc = "failed" => parts > MostParts \/ (OnlyAnswer /\ answers[1] > MostChunks)

TellsOfOne == forgets = 0 => ReplyFits /\ \A f \in net : FrameFits(f)

OneInv == AskedInv /\ IsExchange /\ TellsOfOne

\* What the enclave holds of an exchange it has not forgotten.
LEMMA HeldOfOne ==
  ASSUME AskedInv, forgets = 0
  PROVE  /\ held.is = "answered" => OnlyAnswer /\ held.of = 1
         /\ OnlyAnswer => held.is = "answered"
         /\ held.is = "answering" => Len(answers) = 0
<1>1. /\ answers \in Seq(1..MaxChunks) /\ Len(answers) \in Nat
      /\ held.is \in {"nothing", "arriving", "answering", "answered"}
      /\ held.is = "answered" => held.of \in 1..Len(answers)
  BY DEF AskedInv, HeldType
<1>2. Len(answers) <= 1 /\ (held.is # "answered" => Len(answers) = 0)
  BY <1>1 DEF AskedInv, ForgottenAnswers, AskedOnce
<1>3. CASE held.is = "answered"
  <2> \A n \in Nat : n <= 1 => \A i \in 1..n : n = 1 /\ i = 1
    OBVIOUS
  <2>1. Len(answers) = 1 /\ held.of = 1
    BY <1>1, <1>2, <1>3, Zenon
  <2>2. 1 \in 1..Len(answers)
    BY <2>1
  <2>3. answers[1] \in 1..MaxChunks
    BY <1>1, <2>2, ElementOfSeq, Zenon
  <2> QED
    BY <1>3, <2>1, <2>3 DEF OnlyAnswer
<1>4. CASE held.is # "answered"
  BY <1>2, <1>4 DEF OnlyAnswer
<1> QED
  BY <1>3, <1>4

LEMMA OneInit == Init => OneInv
<1> SUFFICES ASSUME Init PROVE OneInv
  OBVIOUS
<1>1. ex = [pc |-> "send", unacked |-> Parts, chunks |-> 0, have |-> {}] /\ net = {}
  BY DEF Init
<1> QED
  BY <1>1, AskedInit DEF OneInv, IsExchange, TellsOfOne, ReplyFits

\* A step that makes no answer and forgets nothing.
LEMMA OneStill ==
  ASSUME OneInv, AskedInv', IsExchange', UNCHANGED <<parts, answers>>,
         forgets' = 0 => forgets = 0 /\ ReplyFits' /\ \A f \in net' : f \in net \/ FrameFits(f)
  PROVE  OneInv'
<1>1. OnlyAnswer' <=> OnlyAnswer
  BY DEF OnlyAnswer
<1>2. \A f : FrameFits(f)' <=> FrameFits(f)
  BY <1>1 DEF FrameFits
<1> QED
  BY <1>2 DEF OneInv, TellsOfOne

LEMMA OneDue ==
  ASSUME OneInv, AskedInv', Due
  PROVE  OneInv'
<1>1. /\ ex' = [ex EXCEPT !.pc = "listen"] /\ UNCHANGED <<parts, answers, forgets>>
  BY DEF Due, enclave, faults
<1>2. /\ IsExchange' /\ ex'.pc = "listen"
      /\ ex'.chunks = ex.chunks /\ ex'.have = ex.have
  BY <1>1 DEF OneInv, IsExchange
<1>3. ASSUME forgets = 0 PROVE ReplyFits' /\ \A f \in net' : f \in net \/ FrameFits(f)
  <2>1. ReplyFits
    BY <1>3 DEF OneInv, TellsOfOne
  <2>2. ReplyFits'
    BY <1>1, <1>2, <2>1 DEF ReplyFits, OnlyAnswer
  <2>3. ASSUME Fetching, NEW i \in Chosen PROVE FrameFits(Up("fetch", i))
    <3>1. i \in 0..(ex.chunks - 1)
      BY <2>3 DEF Chosen, Missing, Unfetched
    <3> QED
      BY <2>1, <2>3, <3>1 DEF ReplyFits, Fetching, FrameFits, Up
  <2>4. \A i : FrameFits(Up("whole", i)) /\ FrameFits(Up("part", i))
    BY DEF FrameFits, Up
  <2>5. \A f \in net' : f \in net \/ FrameFits(f)
    <3>1. CASE ~Fetching /\ parts = 1
      BY <2>4, <3>1 DEF Due
    <3>2. CASE ~(~Fetching /\ parts = 1)
      <4>1. net' = net \cup {Up(IF Fetching THEN "fetch" ELSE "part", i) : i \in Chosen}
        BY <3>2 DEF Due
      <4> QED
        BY <2>3, <2>4, <4>1
    <3> QED
      BY <3>1, <3>2
  <2> QED
    BY <2>2, <2>5
<1> QED
  BY <1>1, <1>2, <1>3, OneStill

LEMMA OneHear ==
  ASSUME OneInv, AskedInv', NEW f \in net, NEW again \in BOOLEAN, Hear(f, again)
  PROVE  OneInv'
<1>1. /\ f.to = "app" /\ Accept(f) /\ ex.pc \in {"send", "listen"}
      /\ UNCHANGED <<parts, answers, forgets>> /\ net' \subseteq net
  BY DEF Hear, Left, enclave
<1>2. IsExchange
  BY DEF OneInv
<1>3. ASSUME NEW pc, NEW unacked, NEW chunks, NEW have,
             ex' = [ex EXCEPT !.pc = pc, !.unacked = unacked, !.chunks = chunks, !.have = have]
      PROVE  IsExchange' /\ ex'.pc = pc /\ ex'.chunks = chunks /\ ex'.have = have
  BY <1>2, <1>3 DEF IsExchange
<1>4. CASE f.kind \in {"whole", "ack", "working", "fail"}
  <2>1. ASSUME f.kind = "whole"
        PROVE  IsExchange' /\ ex'.chunks = ex.chunks /\ ex'.have = ex.have /\ ex'.pc = "done"
    <3>1. ex' = [ex EXCEPT !.pc = "done"]
      BY <1>1, <2>1 DEF Accept, Whole
    <3> QED
      BY <1>2, <3>1 DEF IsExchange
  <2>2. ASSUME f.kind = "ack"
        PROVE  IsExchange' /\ ex'.chunks = ex.chunks /\ ex'.have = ex.have /\ ex'.pc = "send"
    <3>1. ex' = [ex EXCEPT !.pc = "send", !.unacked = @ \ {f.seq}]
      BY <1>1, <2>2 DEF Accept, Ack
    <3> QED
      BY <1>2, <3>1 DEF IsExchange
  <2>3. ASSUME f.kind = "working"
        PROVE  IsExchange' /\ ex'.chunks = ex.chunks /\ ex'.have = ex.have /\ ex'.pc = "send"
    <3>1. ex' = [ex EXCEPT !.pc = "send"]
      BY <1>1, <2>3 DEF Accept, Going
    <3> QED
      BY <1>2, <3>1 DEF IsExchange
  <2>4. ASSUME f.kind = "fail"
        PROVE  IsExchange' /\ ex'.chunks = ex.chunks /\ ex'.have = ex.have /\ ex'.pc = "failed"
    <3>1. ex' = [ex EXCEPT !.pc = "failed"]
      BY <1>1, <2>4 DEF Accept, Fail
    <3> QED
      BY <1>2, <3>1 DEF IsExchange
  <2>5. IsExchange' /\ ex'.chunks = ex.chunks /\ ex'.have = ex.have
        /\ (f.kind # "fail" => ex'.pc # "failed")
    BY <1>4, <2>1, <2>2, <2>3, <2>4
  <2>6. ASSUME forgets = 0 PROVE ReplyFits'
    <3>1. ReplyFits /\ FrameFits(f)
      BY <2>6 DEF OneInv, TellsOfOne
    <3> QED
      BY <1>1, <2>5, <3>1 DEF ReplyFits, FrameFits, OnlyAnswer
  <2> QED
    BY <1>1, <2>5, <2>6, OneStill
<1>5. CASE f.kind = "kept"
  <2>1. /\ IsExchange' /\ ex'.have = ex.have /\ ex'.chunks \in {ex.chunks, f.seq}
        /\ ex'.pc = "send" \/ (ex'.pc = "failed" /\ f.seq > MostChunks)
    BY <1>1, <1>2, <1>5 DEF Accept, Kept, IsExchange
  <2>2. ASSUME forgets = 0 PROVE ReplyFits'
    <3>1. ReplyFits /\ FrameFits(f)
      BY <2>2 DEF OneInv, TellsOfOne
    <3>2. OnlyAnswer /\ f.seq = answers[1]
      BY <1>1, <1>5, <3>1 DEF FrameFits
    <3> QED
      BY <1>1, <2>1, <3>1, <3>2 DEF ReplyFits, OnlyAnswer
  <2> QED
    BY <1>1, <2>1, <2>2, OneStill
<1>6. CASE f.kind = "chunk"
  <2> DEFINE new == Fetching /\ f.seq \in Missing /\ f.seq < ex.chunks
             have == ex.have \cup (IF new THEN {[seq |-> f.seq, of |-> f.of]} ELSE {})
             addsUp == \A c \in have : answers[c.of] = ex.chunks
  <2>1. /\ ex' = [ex EXCEPT !.have = have,
                    !.pc = CASE ~Fetching \/ Cardinality(have) < ex.chunks -> "send"
                             [] addsUp -> "done"
                             [] OTHER -> "failed"]
    BY <1>1, <1>6 DEF Accept, Chunk
  <2>2. /\ IsExchange' /\ ex'.have = have /\ ex'.chunks = ex.chunks
        /\ (~Fetching \/ addsUp => ex'.pc \in {"send", "done"})
    <3> HIDE DEF have, addsUp
    <3> QED
      BY <1>2, <2>1 DEF IsExchange
  <2>3. ASSUME forgets = 0 PROVE ReplyFits'
    <3>1. ReplyFits /\ FrameFits(f)
      BY <2>3 DEF OneInv, TellsOfOne
    <3>2. f.of = 1
      BY <1>1, <1>6, <3>1 DEF FrameFits
    <3>3. \A c \in have : c.of = 1
      BY <3>1, <3>2 DEF ReplyFits
    <3>4. Fetching => addsUp
      BY <3>1, <3>3 DEF ReplyFits, Fetching
    <3> HIDE DEF have, addsUp
    <3> QED
      BY <1>1, <2>2, <3>1, <3>3, <3>4 DEF ReplyFits, OnlyAnswer
  <2> QED
    BY <1>1, <2>2, <2>3, OneStill
<1> QED
  BY <1>1, <1>4, <1>5, <1>6 DEF Accept

LEMMA OneTake ==
  ASSUME OneInv, AskedInv', NEW f \in net, NEW again \in BOOLEAN,
         TakeWhole(f, again) \/ TakePart(f, again) \/ TakeFetch(f, again)
  PROVE  OneInv'
<1>1. UNCHANGED <<parts, ex, answers, forgets>>
  BY DEF TakeWhole, TakePart, TakeFetch, enclave
<1>2. IsExchange'
  BY <1>1 DEF OneInv, IsExchange
<1>3. ASSUME forgets = 0 PROVE ReplyFits' /\ \A g \in net' : g \in net \/ FrameFits(g)
  <2>1. ReplyFits /\ FrameFits(f)
    BY <1>3 DEF OneInv, TellsOfOne
  <2>2. ReplyFits'
    BY <1>1, <2>1 DEF ReplyFits, OnlyAnswer
  <2>3. /\ held.is = "answered" => OnlyAnswer /\ held.of = 1
        /\ OnlyAnswer => held.is = "answered"
    BY <1>3, HeldOfOne DEF OneInv
  <2>4. ASSUME held.is = "answered" PROVE FrameFits(Reply(held.of))
    BY <2>3, <2>4 DEF Reply, FrameFits, Down
  <2>5. /\ FrameFits(Down("working", 0, 0)) /\ \A i : FrameFits(Down("ack", i, 0))
        /\ parts > MostParts => FrameFits(Down("fail", 0, 0))
    BY DEF FrameFits, Down
  <2>6. ASSUME TakeFetch(f, again)
        PROVE  /\ held.is = "answered" /\ f.seq < answers[held.of]
               /\ FrameFits(Down("chunk", f.seq, held.of))
    <3>1. OnlyAnswer /\ f.seq \in 0..(answers[1] - 1)
      BY <2>1, <2>6 DEF TakeFetch, FrameFits
    <3>2. answers[1] \in Nat /\ held.is = "answered" /\ held.of = 1
      BY <2>3, <3>1 DEF OnlyAnswer
    <3>3. f.seq < answers[1]
      BY <3>1, <3>2
    <3> QED
      BY <3>1, <3>2, <3>3 DEF FrameFits, Down
  <2>7. \E back :
          /\ Says(f, again, back)
          /\ \A g \in back : FrameFits(g)
    BY <2>4, <2>5, <2>6 DEF TakeWhole, TakePart, TakeFetch
  <2>8. \A g \in net' : g \in net \/ FrameFits(g)
    BY <2>7 DEF Says, Left
  <2> QED
    BY <2>2, <2>8
<1> QED
  BY <1>1, <1>2, <1>3, OneStill

LEMMA OneKeep ==
  ASSUME OneInv, AskedInv', NEW n \in 1..MaxChunks, Keep(n)
  PROVE  OneInv'
<1>1. /\ held.is = "answering" /\ answers' = Append(answers, n)
      /\ net' = net \cup {IF parts = 1 /\ n = 1 THEN Down("whole", 0, Len(answers) + 1)
                          ELSE Down("kept", n, Len(answers) + 1)}
      /\ UNCHANGED <<parts, ex, forgets>>
  BY DEF Keep, faults
<1>2. IsExchange'
  BY <1>1 DEF OneInv, IsExchange
<1>3. ASSUME forgets = 0 PROVE ReplyFits' /\ \A f \in net' : FrameFits(f)'
  <2>1. Len(answers) = 0 /\ answers \in Seq(1..MaxChunks)
    BY <1>1, <1>3, HeldOfOne DEF OneInv, AskedInv, HeldType
  <2>2. ~OnlyAnswer
    BY <2>1 DEF OnlyAnswer
  <2>3. OnlyAnswer' /\ answers'[1] = n
    BY <1>1, <2>1 DEF OnlyAnswer
  <2>4. ReplyFits /\ \A f \in net : FrameFits(f)
    BY <1>3 DEF OneInv, TellsOfOne
  <2>5. ReplyFits'
    BY <1>1, <2>2, <2>3, <2>4 DEF ReplyFits
  <2>6. \A f \in net : FrameFits(f)'
    BY <1>1, <2>2, <2>4 DEF FrameFits
  <2>7. \A of : FrameFits(Down("whole", 0, of))' /\ FrameFits(Down("kept", n, of))'
    BY <2>3 DEF FrameFits, Down
  <2>8. ASSUME NEW f \in net' PROVE FrameFits(f)'
    <3>1. \/ f \in net
          \/ f = Down("whole", 0, Len(answers) + 1) \/ f = Down("kept", n, Len(answers) + 1)
      BY <1>1
    <3>2. CASE f \in net
      BY <2>6, <3>2
    <3>3. CASE f = Down("whole", 0, Len(answers) + 1)
      BY <2>7, <3>3, Zenon
    <3>4. CASE f = Down("kept", n, Len(answers) + 1)
      BY <2>7, <3>4, Zenon
    <3> QED
      BY <3>1, <3>2, <3>3, <3>4
  <2> QED
    BY <2>5, <2>8
<1> QED
  BY <1>1, <1>2, <1>3 DEF OneInv, TellsOfOne

LEMMA OneStep == OneInv /\ [Next]_vars => OneInv'
<1> SUFFICES ASSUME OneInv, [Next]_vars PROVE OneInv'
  OBVIOUS
<1>1. AskedInv'
  BY AskedStep DEF OneInv
<1>2. ASSUME UNCHANGED <<parts, answers, forgets>>, net' \subseteq net,
             ex' = ex \/ ex' = [ex EXCEPT !.pc = "send"]
      PROVE  OneInv'
  <2>1. IsExchange' /\ ex'.chunks = ex.chunks /\ ex'.have = ex.have /\ ex'.pc \in {ex.pc, "send"}
    BY <1>2 DEF OneInv, IsExchange
  <2>2. forgets = 0 => ReplyFits'
    BY <1>2, <2>1 DEF OneInv, TellsOfOne, ReplyFits, OnlyAnswer
  <2> QED
    BY <1>1, <1>2, <2>1, <2>2, OneStill
<1>3. CASE UNCHANGED vars
  BY <1>2, <1>3 DEF vars
<1>4. CASE Quiet
  BY <1>2, <1>4 DEF Quiet, enclave, faults
<1>5. ASSUME NEW i \in Pieces, Late(i) PROVE OneInv'
  BY <1>2, <1>5 DEF Late, enclave, faults
<1>6. ASSUME NEW f \in net, TooLate(f) \/ Lose(f) PROVE OneInv'
  BY <1>2, <1>6 DEF TooLate, Lose, enclave, faults
<1>7. CASE Claim
  BY <1>2, <1>7 DEF Claim, faults
<1>8. CASE Forget \/ Restart
  <2>1. /\ forgets' = forgets + 1 /\ forgets \in Nat /\ ex' = ex
    BY <1>8 DEF Forget, Restart, OneInv, AskedInv, HeldType
  <2>2. forgets' # 0
    BY <2>1
  <2> QED
    BY <1>1, <2>1, <2>2 DEF OneInv, TellsOfOne, IsExchange
<1>9. ASSUME NEW f \in net, NEW again \in BOOLEAN, Deliver(f, again) PROVE OneInv'
  BY <1>1, <1>9, OneHear, OneTake DEF Deliver
<1> QED
  BY <1>1, <1>3, <1>4, <1>5, <1>6, <1>7, <1>8, <1>9, OneDue, OneKeep DEF Next

\* An exchange is told that it cannot go on only if the enclave forgot it, or its message
\* or the answer to it is too big: a fetch is of the answer that was kept, and the chunks
\* that arrive add up.
THEOREM FailureHasCause == Spec => []FailsOnlyForCause
<1>1. Init => OneInv
  BY OneInit
<1>2. OneInv /\ [Next]_vars => OneInv'
  BY OneStep
<1>3. OneInv => FailsOnlyForCause
  <2> SUFFICES ASSUME OneInv, ex.pc = "failed", ~(forgets > 0) PROVE TooBig
    BY DEF FailsOnlyForCause
  <2>1. forgets = 0
    BY DEF OneInv, AskedInv, HeldType
  <2>2. parts > MostParts \/ (OnlyAnswer /\ answers[1] > MostChunks)
    BY <2>1 DEF OneInv, TellsOfOne, ReplyFits
  <2> QED
    BY <2>2 DEF OnlyAnswer, TooBig
<1> QED
  BY <1>1, <1>2, <1>3, PTL DEF Spec

\* A reply that was not forgotten on the way is all of one answer, whatever was lost,
\* repeated or reordered.
THEOREM ReplyIsOneAnswer == Spec => [](forgets = 0 => OneAnswer)
<1>1. Init => OneInv
  BY OneInit
<1>2. OneInv /\ [Next]_vars => OneInv'
  BY OneStep
<1>3. OneInv => (forgets = 0 => OneAnswer)
  BY DEF OneInv, TellsOfOne, ReplyFits, OneAnswer
<1> QED
  BY <1>1, <1>2, <1>3, PTL DEF Spec
=============================================================================
