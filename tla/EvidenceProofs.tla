---------------------------- MODULE EvidenceProofs ----------------------------
(***************************************************************************)
(* Theorems about what an admission rests on: ChainFetch (the consume and  *)
(* the gate's pause, as a node that lags, fails or is cut off shows them)  *)
(* and AccessProof (what a signature proves), side by side as MCEvidence   *)
(* runs them, for every set of events, questions, gateways, keys, nonces   *)
(* and digests and every timing.                                           *)
(***************************************************************************)
EXTENDS MCEvidence, FiniteSetTheorems, TLAPS

-----------------------------------------------------------------------------
(* What arrives of an answer. *)

(* No frame says how the call ended: the header does. *)
LEMMA StatusOfHeader ==
    ASSUME NEW r, \A i \in DOMAIN r.frames : ~(r.frames[i].flag = "trailer" /\ r.frames[i].status # "absent")
    PROVE  Status(r) = ParseStatus(r.status)
<1>1. {i \in DOMAIN r.frames : r.frames[i].flag = "trailer" /\ r.frames[i].status # "absent"} = {}
    OBVIOUS
<1> QED BY <1>1 DEF Status

(* One frame does: it decides. *)
LEMMA StatusOfTrailer ==
    ASSUME NEW r, NEW k \in Nat, k \in DOMAIN r.frames,
           \A i \in DOMAIN r.frames : (r.frames[i].flag = "trailer" /\ r.frames[i].status # "absent") <=> i = k
    PROVE  Status(r) = ParseStatus(r.frames[k].status)
<1> DEFINE told == {i \in DOMAIN r.frames : r.frames[i].flag = "trailer" /\ r.frames[i].status # "absent"}
<1>1. told = {k}
    OBVIOUS
<1>2. (CHOOSE i \in told : \A j \in told : j <= i) = k
    BY <1>1
<1> QED BY <1>1, <1>2 DEF Status

(* The first frames of an answer. *)
LEMMA Prefix ==
    ASSUME NEW f \in Seq({Data(1), Data(2), [Data(1) EXCEPT !.flag = "compressed"],
                          Trailer("0"), Trailer("5"), Trailer("garbled")}),
           NEW n \in 0 .. Len(f)
    PROVE  DOMAIN SubSeq(f, 1, n) = 1 .. n /\ \A i \in 1 .. n : SubSeq(f, 1, n)[i] = f[i]
OBVIOUS

(* What `unframe` reads, by the status. *)
LEMMA UnframeReads ==
    ASSUME NEW p
    PROVE  /\ Unframe(p).is = "message" => Status(p) = "0"
           /\ Unframe(p).is = "not_found" => Status(p) = "5"
           /\ Unframe(p).is = "message" => \A i \in DOMAIN p.frames : p.frames[i].flag # "compressed"
           /\ Unframe(p).is = "not_found" => \A i \in DOMAIN p.frames : p.frames[i].flag # "compressed"
           /\ Unframe(p).is = "message" => Unframe(p).parts = {p.frames[i].part : i \in DOMAIN p.frames}
<1>1. CASE ~p.ok \/ p.cut \/ (\E i \in DOMAIN p.frames : p.frames[i].flag = "compressed")
    BY <1>1 DEF Unframe
<1>2. CASE ~(~p.ok \/ p.cut \/ (\E i \in DOMAIN p.frames : p.frames[i].flag = "compressed"))
    <2>1. CASE Status(p) = "0"
        <3>1. Unframe(p) = [is |-> "message", parts |-> {p.frames[i].part : i \in DOMAIN p.frames}]
            BY <1>2, <2>1 DEF Unframe
        <3> QED BY <1>2, <2>1, <3>1
    <2>2. CASE Status(p) = "5"
        <3>1. Unframe(p) = [is |-> "not_found"]
            BY <1>2, <2>2 DEF Unframe
        <3> QED BY <1>2, <2>2, <3>1
    <2>3. CASE Status(p) # "0" /\ Status(p) # "5"
        <3>1. Unframe(p) = [is |-> "error"]
            BY <1>2, <2>3 DEF Unframe
        <3> QED BY <3>1
    <2> QED BY <2>1, <2>2, <2>3
<1> QED BY <1>1, <1>2

(* Nothing of a transaction that the node has not indexed is a message. *)
LEMMA UnknownHasNoMessage ==
    ASSUME NEW s \in Sent(FALSE), NEW n \in 0 .. Len(s.frames), NEW http, NEW cut
    PROVE  Unframe(PostGrpcWeb([http |-> http, header |-> s.header,
                                frames |-> SubSeq(s.frames, 1, n), cut |-> cut])).is # "message"
<1> DEFINE p == PostGrpcWeb([http |-> http, header |-> s.header, frames |-> SubSeq(s.frames, 1, n), cut |-> cut])
<1>1. p.frames = SubSeq(s.frames, 1, n) /\ p.status = s.header
    BY DEF PostGrpcWeb
<1> HIDE DEF p
<1>2. DOMAIN p.frames = 1 .. n /\ \A i \in 1 .. n : p.frames[i] = s.frames[i]
    BY <1>1, Prefix DEF Sent
<1>3. Status(p) # "0"
    <2>1. CASE s.frames = << >> /\ s.header = "5"
        <3>1. n = 0
            BY <2>1
        <3>2. Status(p) = ParseStatus("5")
            BY <1>1, <1>2, <2>1, <3>1, StatusOfHeader
        <3> QED BY <3>2 DEF ParseStatus
    <2>2. CASE s.frames = <<Trailer("5")>> /\ s.header = "absent"
        <3>1. CASE n = 0
            <4>1. Status(p) = ParseStatus("absent")
                BY <1>1, <1>2, <2>2, <3>1, StatusOfHeader
            <4> QED BY <4>1 DEF ParseStatus
        <3>2. CASE n = 1
            <4>1. p.frames[1] = Trailer("5")
                BY <1>2, <2>2, <3>2
            <4>2. Status(p) = ParseStatus(p.frames[1].status)
                BY <1>2, <3>2, <4>1, StatusOfTrailer DEF Trailer
            <4> QED BY <4>1, <4>2 DEF ParseStatus, Trailer
        <3> QED BY <2>2, <3>1, <3>2
    <2> QED BY <2>1, <2>2 DEF Sent
<1>4. Unframe(p).is # "message"
    BY <1>3, UnframeReads
<1> QED BY <1>4 DEF p

(* Of an indexed transaction no part of an answer reads as NOT_FOUND, and what reads as a
   message is all of it: a torn answer has no status. *)
LEMMA KnownIsWhole ==
    ASSUME NEW s \in Sent(TRUE), NEW n \in 0 .. Len(s.frames), NEW http, NEW cut,
           NEW u, u = Unframe(PostGrpcWeb([http |-> http, header |-> s.header,
                                           frames |-> SubSeq(s.frames, 1, n), cut |-> cut]))
    PROVE  u.is # "not_found" /\ (u.is = "message" => 1 \in u.parts /\ 2 \in u.parts)
<1> DEFINE p == PostGrpcWeb([http |-> http, header |-> s.header, frames |-> SubSeq(s.frames, 1, n), cut |-> cut])
<1>1. p.frames = SubSeq(s.frames, 1, n) /\ p.status = s.header
    BY DEF PostGrpcWeb
<1>u. u = Unframe(p)
    OBVIOUS
<1> HIDE DEF p
<1>2. DOMAIN p.frames = 1 .. n /\ \A i \in 1 .. n : p.frames[i] = s.frames[i]
    BY <1>1, Prefix DEF Sent
<1>3. ASSUME \A i \in 1 .. n : p.frames[i].flag # "trailer"
      PROVE  Status(p) = ParseStatus(s.header)
    BY <1>1, <1>2, <1>3, StatusOfHeader
<1>4. CASE s.header = "absent" /\ s.frames = <<Data(1), Data(2), Trailer("0")>>
    <2>1. CASE n < 3
        <3>1. \A i \in 1 .. n : p.frames[i].flag = "data"
            BY <1>2, <1>4, <2>1 DEF Data
        <3>2. Status(p) = "none"
            BY <1>3, <1>4, <3>1 DEF ParseStatus
        <3> QED BY <1>u, <3>2, UnframeReads
    <2>2. CASE n = 3
        <3>1. p.frames[1] = Data(1) /\ p.frames[2] = Data(2)
            BY <1>2, <1>4, <2>2
        <3>2. p.frames[3] = Trailer("0")
            BY <1>2, <1>4, <2>2
        <3>2a. \A i \in DOMAIN p.frames : (p.frames[i].flag = "trailer" /\ p.frames[i].status # "absent") <=> i = 3
            <4>1. \A i \in DOMAIN p.frames : i = 1 \/ i = 2 \/ i = 3
                BY <1>2, <2>2
            <4>2. p.frames[1].flag = "data" /\ p.frames[2].flag = "data"
                BY <3>1 DEF Data
            <4>3. p.frames[3].flag = "trailer" /\ p.frames[3].status # "absent"
                BY <3>2 DEF Trailer
            <4> QED BY <4>1, <4>2, <4>3
        <3>3. Status(p) = ParseStatus(p.frames[3].status)
            BY <1>2, <2>2, <3>2a, StatusOfTrailer
        <3>4. Status(p) = "0"
            BY <3>2, <3>3 DEF ParseStatus, Trailer
        <3>5. 1 \in {p.frames[i].part : i \in DOMAIN p.frames} /\ 2 \in {p.frames[i].part : i \in DOMAIN p.frames}
            BY <1>2, <2>2, <3>1 DEF Data
        <3> QED BY <1>u, <3>4, <3>5, UnframeReads
    <2> QED BY <1>4, <2>1, <2>2
<1>5. CASE s.header = "absent" /\ s.frames = <<[Data(1) EXCEPT !.flag = "compressed"], Trailer("0")>>
    <2>1. CASE n = 0
        <3>1. Status(p) = "none"
            BY <1>3, <1>5, <2>1 DEF ParseStatus
        <3> QED BY <1>u, <3>1, UnframeReads
    <2>2. CASE n # 0
        <3>1. 1 \in DOMAIN p.frames /\ p.frames[1].flag = "compressed"
            BY <1>2, <1>5, <2>2 DEF Data
        <3> QED BY <1>u, <3>1, UnframeReads
    <2> QED BY <2>1, <2>2
<1>6. CASE s.header = "absent" /\ s.frames = <<Data(1), Data(2), Trailer("garbled")>>
    <2>1. CASE n < 3
        <3>1. \A i \in 1 .. n : p.frames[i].flag = "data"
            BY <1>2, <1>6, <2>1 DEF Data
        <3>2. Status(p) = "none"
            BY <1>3, <1>6, <3>1 DEF ParseStatus
        <3> QED BY <1>u, <3>2, UnframeReads
    <2>2. CASE n = 3
        <3>1. p.frames[1] = Data(1) /\ p.frames[2] = Data(2)
            BY <1>2, <1>6, <2>2
        <3>2. p.frames[3] = Trailer("garbled")
            BY <1>2, <1>6, <2>2
        <3>2a. \A i \in DOMAIN p.frames : (p.frames[i].flag = "trailer" /\ p.frames[i].status # "absent") <=> i = 3
            <4>1. \A i \in DOMAIN p.frames : i = 1 \/ i = 2 \/ i = 3
                BY <1>2, <2>2
            <4>2. p.frames[1].flag = "data" /\ p.frames[2].flag = "data"
                BY <3>1 DEF Data
            <4>3. p.frames[3].flag = "trailer" /\ p.frames[3].status # "absent"
                BY <3>2 DEF Trailer
            <4> QED BY <4>1, <4>2, <4>3
        <3>3. Status(p) = ParseStatus(p.frames[3].status)
            BY <1>2, <2>2, <3>2a, StatusOfTrailer
        <3>4. Status(p) = "none"
            BY <3>2, <3>3 DEF ParseStatus, Trailer
        <3> QED BY <1>u, <3>4, UnframeReads
    <2> QED BY <1>6, <2>1, <2>2
<1>7. CASE s.header = "13" /\ s.frames = << >>
    <2>1. n = 0
        BY <1>7
    <2>2. Status(p) = "13"
        BY <1>3, <1>7, <2>1 DEF ParseStatus
    <2> QED BY <1>u, <2>2, UnframeReads
<1> QED BY <1>4, <1>5, <1>6, <1>7 DEF Sent

(* A message says that the node knows the transaction and has all of it; NOT_FOUND, that it
   did not when the call reached it. *)
LEMMA ReceivedMeans ==
    ASSUME TypeOK, NEW r \in Received
    PROVE  LET u == Unframe(PostGrpcWeb(r))
           IN  /\ u.is = "message" => known /\ 1 \in u.parts /\ 2 \in u.parts
               /\ u.is = "not_found" => ~knew
<1>1. PICK s \in Sent(knew) \cup Sent(known) :
         \E http \in BOOLEAN, n \in 0 .. Len(s.frames), cut \in BOOLEAN :
            r = [http |-> http, header |-> s.header, frames |-> SubSeq(s.frames, 1, n), cut |-> cut]
    BY DEF Received
<1>2. PICK http \in BOOLEAN, n \in 0 .. Len(s.frames), cut \in BOOLEAN :
         r = [http |-> http, header |-> s.header, frames |-> SubSeq(s.frames, 1, n), cut |-> cut]
    BY <1>1
<1>3. knew \in BOOLEAN /\ known \in BOOLEAN /\ (knew => known)
    BY DEF TypeOK
<1>4. (s \in Sent(TRUE) /\ known) \/ (s \in Sent(FALSE) /\ ~knew)
    <2>1. CASE s \in Sent(knew)
        BY <1>3, <2>1, Zenon
    <2>2. CASE s \in Sent(known)
        BY <1>3, <2>2, Zenon
    <2> QED BY <1>1, <2>1, <2>2, Zenon
<1>5. CASE s \in Sent(TRUE) /\ known
    BY <1>2, <1>5, KnownIsWhole, Zenon
<1>6. CASE s \in Sent(FALSE) /\ ~knew
    BY <1>2, <1>6, UnknownHasNoMessage, Zenon
<1> QED BY <1>4, <1>5, <1>6

-----------------------------------------------------------------------------
(* The consume. *)

LEMMA DecimalIsNat == \A s \in DOMAIN Decimal : Decimal[s] \in 0 .. 9
BY DEF Decimal

(* What the check finds in a whole answer is what the chain says. *)
LEMMA ConsumeIsGenuine ==
    ASSUME TypeOK, NEW parts, 1 \in parts, 2 \in parts
    PROVE  HasConsume(parts, time) <=> Genuine(time)
<1>1. time \in Nat /\ Skew \in Nat /\ MaxAge \in Nat
    BY FetchConstants DEF TypeOK
<1>2. ASSUME NEW json
      PROVE  EventIsRecent(json, time) <=>
                /\ FindString(json, "timestamp_ms") \in DOMAIN Decimal
                /\ Decimal[FindString(json, "timestamp_ms")]
                      \in (IF time > MaxAge THEN time - MaxAge ELSE 0) .. time + Skew
    <2> DEFINE ts == FindString(json, "timestamp_ms")
               when == Decimal[ts]
    <2>1. ts \in DOMAIN Decimal => when \in Nat
        BY DecimalIsNat
    <2> HIDE DEF ts, when
    <2>2. ts \in DOMAIN Decimal =>
            (when <= time + Skew /\ time <= when + MaxAge
                <=> when \in (IF time > MaxAge THEN time - MaxAge ELSE 0) .. time + Skew)
        BY <1>1, <2>1
    <2> QED BY <2>2 DEF EventIsRecent, ts, when
<1>3. ASSUME NEW e
      PROVE  SameEvent(e) <=> /\ e.type.pkg = ask.nft_type.pkg /\ e.type.name = "AccessConsumedEvent"
                              /\ e.sender = ask.sender
    BY DEF SameEvent, NormalizeMoveType, ConsumedEventType
<1> QED BY <1>2, <1>3, Zenon DEF HasConsume, Genuine, EffectsSucceeded, OurGate

-----------------------------------------------------------------------------
(* The retries. *)

(* Every attempt but the first came after a whole pause, the current one is counted; and only
   an attempt that is not the last is slept after. *)
Paced ==
    /\ time >= Start + (attempt - 1) * RetryDelay + (IF phase = "sleep" THEN timer ELSE 0)
    /\ phase = "sleep" => attempt < Attempts

FetchInv == TypeOK /\ Paced

LEMMA Nats ==
    /\ MaxAge \in Nat /\ Skew \in Nat /\ Attempts \in Nat /\ RetryDelay \in Nat /\ CallMax \in Nat
    /\ Start \in Nat /\ MaxTime \in Nat
    /\ Attempts > 0 /\ Start + Attempts * CallMax + (Attempts - 1) * RetryDelay <= MaxTime
BY FetchConstants

LEMMA StartInTime == Start <= MaxTime
<1>1. Attempts * CallMax \in Nat /\ (Attempts - 1) * RetryDelay \in Nat
    BY Nats
<1> QED BY <1>1, Nats

(* One more pause. *)
LEMMA OnePauseMore ==
    ASSUME NEW a \in Nat \ {0}, NEW b \in Nat
    PROVE  (a + 1 - 1) * b = (a - 1) * b + b
OBVIOUS

LEMMA FetchInit == Init => FetchInv
<1> SUFFICES ASSUME Init PROVE FetchInv
    OBVIOUS
<1>1. tx.ok \in BOOLEAN
    BY DEF Init
<1>2. TypeOK
    BY <1>1, Nats, StartInTime DEF Init, TypeOK
<1>3. Paced
    BY Nats DEF Init, Paced
<1> QED BY <1>2, <1>3 DEF FetchInv

LEMMA FetchStep == FetchInv /\ [Next]_vars => FetchInv'
<1> SUFFICES ASSUME FetchInv, [Next]_vars PROVE FetchInv'
    OBVIOUS
<1> USE DEF FetchInv
<1>1. CASE Call
    BY <1>1, Nats DEF Call, TypeOK, Paced
<1>2. CASE Answer
    <2>1. /\ phase = "wait" /\ timer' = 0
          /\ UNCHANGED <<ask, tx, known, knew, attempt, gate, answer, time>>
          /\ \/ verdict' \in {"valid", "invalid", "error"} /\ phase' = "done"
             \/ attempt < Attempts /\ phase' = "sleep" /\ verdict' = verdict
        BY <1>2 DEF Answer, Decide
    <2> QED BY <2>1, Nats DEF TypeOK, Paced
<1>3. CASE TimedOut
    BY <1>3 DEF TimedOut, Decide, TypeOK, Paced
<1>4. CASE Retry
    <2>1. TypeOK'
        BY <1>4, Nats DEF Retry, TypeOK, Paced
    <2>2. (attempt' - 1) * RetryDelay = (attempt - 1) * RetryDelay + RetryDelay
        BY <1>4, Nats, OnePauseMore DEF Retry, TypeOK
    <2>3. (attempt - 1) * RetryDelay \in Nat
        BY Nats DEF TypeOK
    <2>4. Paced'
        BY <1>4, <2>2, <2>3, Nats DEF Retry, TypeOK, Paced
    <2> QED BY <2>1, <2>4
<1>5. CASE Index
    BY <1>5 DEF Index, TypeOK, Paced
<1>6. CASE Tick
    <2>1. TypeOK'
        BY <1>6, Nats DEF Tick, TypeOK
    <2>2. (attempt - 1) * RetryDelay \in Nat
        BY Nats DEF TypeOK
    <2>3. Paced'
        BY <1>6, <2>2, Nats DEF Tick, TypeOK, Paced
    <2> QED BY <2>1, <2>3
<1>7. CASE ReadGate
    <2>1. /\ answer' \in {"open", "blocked", "error"}
          /\ UNCHANGED <<ask, tx, known, knew, phase, attempt, timer, verdict, gate, time>>
        BY <1>7 DEF ReadGate, GateBlocksAccess
    <2> QED BY <2>1 DEF TypeOK, Paced
<1>8. CASE Pause
    <2>1. gate' \in [paused : BOOLEAN, blocks : BOOLEAN]
        BY <1>8 DEF Pause, TypeOK
    <2> QED BY <1>8, <2>1 DEF Pause, TypeOK, Paced
<1>9. CASE UNCHANGED vars
    BY <1>9 DEF vars, TypeOK, Paced
<1> QED BY <1>1, <1>2, <1>3, <1>4, <1>5, <1>6, <1>7, <1>8, <1>9 DEF Next, FetchNext, GateNext

(* The verdict is given by an answer. *)
LEMMA VerdictGiven ==
    ASSUME FetchInv, [Next]_vars, verdict = "none", verdict' \in {"valid", "invalid"}
    PROVE  /\ verdict' = "valid" => known /\ Genuine(time)
           /\ verdict' = "invalid" =>
                 ~Genuine(time) \/ (~knew /\ time >= Start + (Attempts - 1) * RetryDelay)
<1>1. Answer
    BY DEF Next, FetchNext, GateNext, vars, Call, TimedOut, Decide, Retry, Index, Tick, ReadGate, Pause
<1>2. PICK r \in Received :
         LET u == Unframe(PostGrpcWeb(r))
         IN  \/ u.is = "message" /\ Decide(IF HasConsume(u.parts, time) THEN "valid" ELSE "invalid")
             \/ u.is = "not_found" /\ attempt >= Attempts /\ Decide("invalid")
             \/ u.is = "not_found" /\ attempt < Attempts /\ phase' = "sleep" /\ UNCHANGED verdict
             \/ u.is = "error" /\ Decide("error")
    BY <1>1 DEF Answer
<1> DEFINE u == Unframe(PostGrpcWeb(r))
<1>3. /\ u.is = "message" => known /\ 1 \in u.parts /\ 2 \in u.parts
      /\ u.is = "not_found" => ~knew
    BY ReceivedMeans DEF FetchInv
<1> HIDE DEF u
<1>4. \/ u.is = "message" /\ verdict' = (IF HasConsume(u.parts, time) THEN "valid" ELSE "invalid")
      \/ u.is = "not_found" /\ attempt >= Attempts /\ verdict' = "invalid"
    BY <1>2 DEF Decide, u
<1>5. CASE u.is = "message" /\ verdict' = (IF HasConsume(u.parts, time) THEN "valid" ELSE "invalid")
    <2>1. HasConsume(u.parts, time) <=> Genuine(time)
        BY <1>3, <1>5, ConsumeIsGenuine DEF FetchInv
    <2> QED BY <1>3, <1>5, <2>1
<1>6. CASE u.is = "not_found" /\ attempt >= Attempts /\ verdict' = "invalid"
    <2>1. attempt = Attempts
        BY <1>6, Nats DEF FetchInv, TypeOK
    <2>2. time >= Start + (Attempts - 1) * RetryDelay
        <3>1. (Attempts - 1) * RetryDelay \in Nat
            BY Nats
        <3>2. phase = "wait"
            BY <1>1 DEF Answer
        <3> QED BY <2>1, <3>1, <3>2, Nats DEF FetchInv, Paced, TypeOK
    <2> QED BY <1>3, <1>6, <2>2
<1> QED BY <1>4, <1>5, <1>6

(* What is read of a gate that blocks is never "open". *)
LEMMA PauseRead ==
    ASSUME [Next]_vars, answer' # answer, answer' = "open", TypeOK
    PROVE  ~(gate.paused /\ gate.blocks)
<1>1. ReadGate
    BY DEF Next, FetchNext, GateNext, vars, Call, Answer, TimedOut, Decide, Retry, Index, Tick, Pause
<1>2. PICK p \in Rendered(gate.paused), b \in Rendered(gate.blocks) : GateBlocksAccess(p, b) = "open"
    BY <1>1 DEF ReadGate
<1>3. p \in {"true", "false"} /\ b \in {"true", "false"} /\ ~(p = "true" /\ b = "true")
    BY <1>2 DEF GateBlocksAccess
<1>4. gate.paused => p = "true"
    BY <1>2, <1>3 DEF Rendered
<1>5. gate.blocks => b = "true"
    BY <1>2, <1>3 DEF Rendered
<1> QED BY <1>3, <1>4, <1>5

-----------------------------------------------------------------------------
(* The parts side by side. *)

LEMMA PartsFetch == [PartsNext]_allVars => [Next]_vars
BY DEF PartsNext, Fetching, Next, FetchNext, GateNext, allVars, vars

LEMMA PartsFetchInv == PartsSpec => []FetchInv
<1>1. PartsInit => FetchInv
    BY FetchInit DEF PartsInit
<1>2. FetchInv /\ [PartsNext]_allVars => FetchInv'
    BY FetchStep, PartsFetch
<1> QED BY <1>1, <1>2, PTL DEF PartsSpec

(* `consume_tx_valid` accepts only a consume that the chain shows, no older than allowed, and
   refuses one only if the node did not know it when the last of its attempts began, all the
   pauses over: for any transaction, question and timing, and any torn or late answer. *)
THEOREM ChainDecides == PartsSpec => DecidedByTheChain
<1>1. FetchInv /\ FetchInv' /\ [PartsNext]_allVars =>
         [verdict = "none" /\ verdict' = "valid" => known /\ Genuine(time)]_vars
    BY PartsFetch, VerdictGiven
<1>2. FetchInv /\ FetchInv' /\ [PartsNext]_allVars =>
         [verdict = "none" /\ verdict' = "invalid" =>
            \/ ~Genuine(time)
            \/ ~knew /\ time >= Start + (Attempts - 1) * RetryDelay]_vars
    BY PartsFetch, VerdictGiven
<1>3. FetchInv => TypeOK
    BY DEF FetchInv
<1> QED BY <1>1, <1>2, <1>3, PartsFetchInv, PTL DEF PartsSpec, DecidedByTheChain, AcceptedIsGenuine, LagTolerated

(* A gate whose pause blocks access is never read as open, however its fields are rendered. *)
THEOREM PauseIsSeen == PartsSpec => PauseNotIgnored
<1>1. FetchInv /\ FetchInv' /\ [PartsNext]_allVars =>
         [answer' # answer /\ answer' = "open" => ~(gate.paused /\ gate.blocks)]_vars
    BY PartsFetch, PauseRead DEF FetchInv
<1> QED BY <1>1, PartsFetchInv, PTL DEF PartsSpec, PauseNotIgnored

-----------------------------------------------------------------------------
(* What a signature proves. *)

(* The lines of a message with a one-word nonce stand where they should. *)
LEMMA MessageLines ==
    ASSUME NEW c, NEW w, NEW d
    PROVE  LET m == Proof!PersonalMessage(c, <<w>>, d)
           IN  /\ Len(m) = (IF d = Proof!None THEN 13 ELSE 16)
               /\ m[4] = c.origin /\ m[7] = c.gate /\ m[10] = c.network /\ m[13] = w
               /\ d # Proof!None => m[16] = d
BY SMTT(30) DEF Proof!PersonalMessage, Proof!Line, Proof!None

(* So the message says which gateway, nonce and consume were meant. *)
LEMMA MessageSaysAll ==
    ASSUME NEW b, NEW c, NEW v, NEW w, NEW d, NEW e,
           Proof!PersonalMessage(b, <<v>>, d) = Proof!PersonalMessage(c, <<w>>, e)
    PROVE  /\ b.origin = c.origin /\ b.gate = c.gate /\ b.network = c.network
           /\ v = w /\ d = e
<1> DEFINE m == Proof!PersonalMessage(b, <<v>>, d)
           k == Proof!PersonalMessage(c, <<w>>, e)
<1>1. /\ Len(m) = (IF d = Proof!None THEN 13 ELSE 16)
      /\ m[4] = b.origin /\ m[7] = b.gate /\ m[10] = b.network /\ m[13] = v
      /\ d # Proof!None => m[16] = d
    BY MessageLines
<1>2. /\ Len(k) = (IF e = Proof!None THEN 13 ELSE 16)
      /\ k[4] = c.origin /\ k[7] = c.gate /\ k[10] = c.network /\ k[13] = w
      /\ e # Proof!None => k[16] = e
    BY MessageLines
<1>3. m = k
    OBVIOUS
<1> HIDE DEF m, k
<1>4. d = Proof!None <=> e = Proof!None
    BY <1>1, <1>2, <1>3
<1> QED BY <1>1, <1>2, <1>3, <1>4, Zenon

(* A nonce that passes `is_nonce` is one of the nonces. *)
LEMMA NonceIsWord ==
    ASSUME NEW t \in Proof!NonceText, Proof!IsNonce(t)
    PROVE  \E n \in Nonce : t = <<n>>
BY DEF Proof!NonceText, Proof!IsNonce

(* What a signature as sent keeps of the one that was made. *)
LEMMA SignatureOf ==
    ASSUME NEW s, NEW sig \in Proof!Signature(s)
    PROVE  /\ sig.key = s.key
           /\ sig.message = Proof!PersonalMessage(s.intent.context, s.intent.nonce, s.intent.digest)
           /\ s.key.flag = "ed25519" => ~sig.high
BY DEF Proof!Signature

(* Everything signed passed the signer's own checks. *)
SignedWell == \A s \in signed : Proof!MessageOK(s.intent.nonce, s.intent.digest)

SignerInv ==
    /\ Proof!TypeOK /\ IsFiniteSet(signed) /\ SignedWell
    /\ Proof!AdmittedAsIntended /\ Proof!NoTwin

(* What is admitted was signed for this gateway, with this nonce and this consume. *)
LEMMA Accepted ==
    ASSUME SignerInv, NEW g \in Gateway, NEW s \in signed, NEW of, NEW form, NEW n \in Proof!NonceText, NEW d,
           NEW sig \in Proof!Signature(s), NEW p,
           p = [address |-> [of |-> of, form |-> form], nonce |-> n, signature |-> sig, digest |-> d],
           Proof!Verdict(g, p) = "taken"
    PROVE  /\ \E w \in Nonce : n = <<w>>
           /\ n[1] \in open[g]
           /\ of = s.key
           /\ s.intent.context = [origin |-> g.origin, gate |-> g.gate, network |-> g.network]
           /\ s.intent.nonce = n
           /\ s.intent.digest = (IF g.single_use THEN d ELSE Proof!None)
           /\ ~sig.high /\ sig.flag = sig.key.flag /\ sig.base64 = "padded"
<1> DEFINE digest == IF g.single_use THEN d ELSE Proof!None
           message == Proof!PersonalMessage(g, n, digest)
<1>1. p.nonce = n /\ p.digest = d /\ p.signature = sig /\ p.address = [of |-> of, form |-> form]
    OBVIOUS
<1>2. /\ Proof!DecodeAccessProof(p)
      /\ Proof!VerifyPersonalMessageSignature(p.address, message, sig)
      /\ n[1] \in open[g]
    <2> HIDE DEF message
    <2>1. Proof!DecodeAccessProof(p)
        BY DEF Proof!Verdict
    <2>2. Proof!VerifyPersonalMessageSignature(p.address, message, sig) /\ n[1] \in open[g]
        BY <1>1, <2>1 DEF Proof!Verdict, message
    <2> QED BY <2>1, <2>2
<1>3. Proof!IsNonce(n)
    BY <1>1, <1>2 DEF Proof!DecodeAccessProof
<1>4. PICK w \in Nonce : n = <<w>>
    BY <1>3, NonceIsWord
<1>5. s \in [key : Key, intent : Proof!Intent]
    BY DEF SignerInv, Proof!TypeOK
<1>6. s.intent.nonce \in Proof!NonceText /\ Proof!IsNonce(s.intent.nonce)
    BY <1>5 DEF Proof!Intent, SignerInv, SignedWell, Proof!MessageOK
<1>7. PICK v \in Nonce : s.intent.nonce = <<v>>
    BY <1>6, NonceIsWord
<1>8. /\ sig.base64 = "padded" /\ sig.message = message
      /\ sig.flag = sig.key.flag
      /\ sig.key.flag = "ed25519" \/ ~sig.high
      /\ Proof!NormalizeAddress([of |-> of, form |-> form]) = Proof!DeriveAddress(sig.key)
    BY <1>1, <1>2 DEF Proof!VerifyPersonalMessageSignature, Proof!VerifyEcdsa, Proof!VerifyEd25519, Proof!Decodes
<1>9. sig.key = s.key /\ sig.message = Proof!PersonalMessage(s.intent.context, s.intent.nonce, s.intent.digest)
      /\ (s.key.flag = "ed25519" => ~sig.high)
    BY SignatureOf
<1>10. of = s.key
    BY <1>8, <1>9 DEF Proof!NormalizeAddress, Proof!DeriveAddress
<1>11. /\ s.intent.context.origin = g.origin /\ s.intent.context.gate = g.gate
       /\ s.intent.context.network = g.network /\ v = w /\ s.intent.digest = digest
    <2>1. Proof!PersonalMessage(s.intent.context, <<v>>, s.intent.digest) = Proof!PersonalMessage(g, <<w>>, digest)
        BY <1>4, <1>7, <1>8, <1>9, Zenon
    <2> HIDE DEF digest
    <2> QED BY <2>1, MessageSaysAll
<1>12. s.intent.context \in Proof!Context
    BY <1>5 DEF Proof!Intent
<1>13. s.intent.context = [origin |-> g.origin, gate |-> g.gate, network |-> g.network]
    BY <1>11, <1>12 DEF Proof!Context
<1> QED BY <1>2, <1>4, <1>7, <1>8, <1>9, <1>10, <1>11, <1>13

LEMMA SameCount == \A S : Proof!Cardinality(S) = Cardinality(S)
BY Zenon DEF Proof!Cardinality, Cardinality

LEMMA SignedBound == MaxSigned \in Nat
BY SignerConstants DEF Proof!ProofConstants

LEMMA SignerInit == Proof!Init => SignerInv
<1> SUFFICES ASSUME Proof!Init PROVE SignerInv
    OBVIOUS
<1>1. IsFiniteSet(signed) /\ Cardinality(signed) = 0
    BY FS_EmptySet DEF Proof!Init
<1>2. Proof!TypeOK
    BY <1>1, SignedBound, SameCount DEF Proof!Init, Proof!TypeOK
<1> QED BY <1>1, <1>2 DEF Proof!Init, SignerInv, SignedWell, Proof!AdmittedAsIntended, Proof!NoTwin

LEMMA SignerStep == SignerInv /\ [Proof!Next]_proofVars => SignerInv'
<1> SUFFICES ASSUME SignerInv, [Proof!Next]_proofVars PROVE SignerInv'
    OBVIOUS
<1>1. ASSUME NEW g \in Gateway, Proof!Challenge(g) PROVE SignerInv'
    <2>1. Proof!TypeOK'
        <3>1. PICK n \in Nonce \ issued : open' = [open EXCEPT ![g] = @ \cup {n}] /\ issued' = issued \cup {n}
            BY <1>1 DEF Proof!Challenge
        <3>2. open' \in [Gateway -> SUBSET Nonce] /\ issued' \subseteq Nonce
            BY <3>1 DEF SignerInv, Proof!TypeOK
        <3>3. \A f, h \in Gateway : open'[f] \subseteq issued' /\ (f # h => open'[f] \cap open'[h] = {})
            BY <3>1 DEF SignerInv, Proof!TypeOK
        <3> QED BY <1>1, <3>2, <3>3 DEF SignerInv, Proof!TypeOK, Proof!Challenge
    <2> QED BY <1>1, <2>1 DEF SignerInv, SignedWell, Proof!Challenge, Proof!AdmittedAsIntended, Proof!NoTwin
<1>2. ASSUME NEW k \in Key, Proof!Sign(k) PROVE SignerInv'
    <2>1. PICK i \in Proof!Intent : Proof!MessageOK(i.nonce, i.digest)
                                    /\ signed' = signed \cup {[key |-> k, intent |-> i]}
        BY <1>2 DEF Proof!Sign
    <2>2. IsFiniteSet(signed') /\ Cardinality(signed') <= MaxSigned
        <3>1. /\ IsFiniteSet(signed \cup {[key |-> k, intent |-> i]})
              /\ Cardinality(signed \cup {[key |-> k, intent |-> i]}) \in {Cardinality(signed), Cardinality(signed) + 1}
            <4>1. IsFiniteSet(signed)
                BY DEF SignerInv
            <4> QED BY <4>1, FS_AddElement
        <3>2. Cardinality(signed) < MaxSigned /\ Cardinality(signed) \in Nat /\ MaxSigned \in Nat
            BY <1>2, FS_CardinalityType, SignedBound, SameCount DEF Proof!Sign, SignerInv
        <3> QED BY <2>1, <3>1, <3>2
    <2>3. Proof!TypeOK'
        <3>1. signed' \subseteq [key : Key, intent : Proof!Intent]
            BY <2>1 DEF SignerInv, Proof!TypeOK
        <3>2. open' = open /\ issued' = issued /\ admitted' = admitted
            BY <1>2 DEF Proof!Sign
        <3> QED BY <2>2, <3>1, <3>2, SameCount, Zenon DEF SignerInv, Proof!TypeOK
    <2>4. SignedWell'
        BY <2>1 DEF SignerInv, SignedWell
    <2> QED BY <1>2, <2>1, <2>2, <2>3, <2>4 DEF SignerInv, Proof!Sign, Proof!AdmittedAsIntended, Proof!NoTwin
<1>3. ASSUME NEW g \in Gateway, Proof!Present(g) PROVE SignerInv'
    <2>1. PICK s \in signed, of \in Key, form \in Proof!AddressForm, n \in Proof!NonceText,
              d \in Digest \cup {Proof!None} :
             \E sig \in Proof!Signature(s) :
                LET p == [address |-> [of |-> of, form |-> form], nonce |-> n, signature |-> sig, digest |-> d]
                IN  /\ open' = [open EXCEPT ![g] = @ \ Proof!Spent(g, p)]
                    /\ admitted' = IF Proof!Verdict(g, p) = "taken"
                                   THEN admitted \cup {Proof!Admission(g, p)} ELSE admitted
        BY <1>3, Zenon DEF Proof!Present
    <2>2. PICK sig \in Proof!Signature(s) :
                LET p == [address |-> [of |-> of, form |-> form], nonce |-> n, signature |-> sig, digest |-> d]
                IN  /\ open' = [open EXCEPT ![g] = @ \ Proof!Spent(g, p)]
                    /\ admitted' = IF Proof!Verdict(g, p) = "taken"
                                   THEN admitted \cup {Proof!Admission(g, p)} ELSE admitted
        BY <2>1
    <2> DEFINE p == [address |-> [of |-> of, form |-> form], nonce |-> n, signature |-> sig, digest |-> d]
    <2>3. issued' = issued /\ signed' = signed
        BY <1>3 DEF Proof!Present
    <2>4. Proof!Admission(g, p).gateway = g
        BY DEF Proof!Admission
    <2>5. Proof!Admission(g, p).address = Proof!DeriveAddress(of) /\ Proof!Admission(g, p).nonce = n
          /\ Proof!Admission(g, p).digest = (IF g.single_use THEN d ELSE Proof!None)
          /\ Proof!Admission(g, p).signature = sig
        BY DEF Proof!Admission, Proof!NormalizeAddress, Proof!DeriveAddress
    <2>6. Proof!TypeOK'
        <3>1. \A a \in admitted' : a.gateway \in Gateway
            BY <2>2, <2>4 DEF SignerInv, Proof!TypeOK
        <3>2. open' \in [Gateway -> SUBSET Nonce] /\ \A f \in Gateway : open'[f] \subseteq open[f]
            BY <2>2 DEF SignerInv, Proof!TypeOK
        <3> QED BY <2>3, <3>1, <3>2, Zenon DEF SignerInv, Proof!TypeOK
    <2>7. SignedWell' /\ IsFiniteSet(signed')
        BY <2>3 DEF SignerInv, SignedWell
    <2>8. CASE Proof!Verdict(g, p) # "taken"
        BY <2>2, <2>3, <2>6, <2>7, <2>8 DEF SignerInv, Proof!AdmittedAsIntended, Proof!NoTwin
    <2>9. CASE Proof!Verdict(g, p) = "taken"
        <3>1. /\ of = s.key
              /\ s.intent.context = [origin |-> g.origin, gate |-> g.gate, network |-> g.network]
              /\ s.intent.nonce = n
              /\ s.intent.digest = (IF g.single_use THEN d ELSE Proof!None)
              /\ ~sig.high /\ sig.flag = sig.key.flag /\ sig.base64 = "padded"
            BY <2>9, Accepted
        <3>2. admitted' = admitted \cup {Proof!Admission(g, p)}
            BY <2>2, <2>9
        <3> HIDE DEF p
        <3>3. Proof!AdmittedAsIntended'
            <4> SUFFICES ASSUME NEW a \in admitted'
                         PROVE  \E z \in signed' :
                                   /\ a.address = Proof!DeriveAddress(z.key)
                                   /\ z.intent.context = [origin |-> a.gateway.origin, gate |-> a.gateway.gate,
                                                          network |-> a.gateway.network]
                                   /\ z.intent.nonce = a.nonce
                                   /\ z.intent.digest = a.digest
                BY DEF Proof!AdmittedAsIntended, Proof!DeriveAddress
            <4>1. CASE a \in admitted
                BY <2>3, <4>1 DEF SignerInv, Proof!AdmittedAsIntended
            <4>2. CASE a = Proof!Admission(g, p)
                BY <2>3, <2>4, <2>5, <3>1, <4>2
            <4> QED BY <3>2, <4>1, <4>2
        <3>4. Proof!NoTwin'
            BY <2>5, <3>1, <3>2 DEF SignerInv, Proof!NoTwin
        <3> QED BY <2>6, <2>7, <3>3, <3>4 DEF SignerInv
    <2> QED BY <2>8, <2>9
<1>4. CASE UNCHANGED proofVars
    BY <1>4 DEF proofVars, SignerInv, SignedWell, Proof!TypeOK, Proof!AdmittedAsIntended, Proof!NoTwin
<1> QED BY <1>1, <1>2, <1>3, <1>4 DEF Proof!Next

(* While its nonce is open, the signer's own proof is accepted in either spelling. *)
LEMMA SignerServed == SignerInv => Proof!SignerIsServed
<1> SUFFICES ASSUME SignerInv, NEW s \in signed, NEW g \in Gateway, NEW form \in {"canonical", "short"},
                    s.intent.context = [origin |-> g.origin, gate |-> g.gate, network |-> g.network],
                    s.intent.nonce \in {<<n>> : n \in open[g]},
                    g.single_use <=> s.intent.digest # Proof!None
             PROVE  \E sig \in Proof!Signature(s) :
                       Proof!Verdict(g, [address |-> [of |-> s.key, form |-> form], nonce |-> s.intent.nonce,
                                         signature |-> sig, digest |-> s.intent.digest]) = "taken"
    BY Zenon DEF Proof!SignerIsServed
<1>1. s.key \in Key /\ s.key.flag \in {"ed25519", "secp256k1", "secp256r1"}
    BY SignerConstants DEF SignerInv, Proof!TypeOK, Proof!ProofConstants
<1>2. Proof!MessageOK(s.intent.nonce, s.intent.digest)
    BY DEF SignerInv, SignedWell
<1>3. PICK n \in open[g] : s.intent.nonce = <<n>>
    OBVIOUS
<1> DEFINE message == Proof!PersonalMessage(s.intent.context, s.intent.nonce, s.intent.digest)
           sig == [flag |-> s.key.flag, key |-> s.key, high |-> FALSE, base64 |-> "padded", message |-> message]
           p == [address |-> [of |-> s.key, form |-> form], nonce |-> s.intent.nonce,
                 signature |-> sig, digest |-> s.intent.digest]
           digest == IF g.single_use THEN p.digest ELSE Proof!None
<1>4. sig \in Proof!Signature(s)
    BY DEF Proof!Signature
<1>5. p.nonce = s.intent.nonce /\ p.digest = s.intent.digest /\ p.signature = sig
      /\ p.address = [of |-> s.key, form |-> form]
    OBVIOUS
<1>6. digest = s.intent.digest
    BY <1>5
<1>7. Proof!DecodeAccessProof(p)
    BY <1>2, <1>5 DEF Proof!DecodeAccessProof, Proof!MessageOK, Proof!IsAddress, Proof!IsSignature
<1>8. Proof!PersonalMessage(g, s.intent.nonce, s.intent.digest) = message
    <2>1. s.intent.context.origin = g.origin /\ s.intent.context.gate = g.gate /\ s.intent.context.network = g.network
        OBVIOUS
    <2> QED BY <2>1, Zenon DEF Proof!PersonalMessage
<1>9. Proof!VerifyPersonalMessageSignature(p.address, message, sig)
    <2> HIDE DEF message
    <2> QED BY <1>1, <1>5 DEF Proof!VerifyPersonalMessageSignature, Proof!Decodes, Proof!VerifyEcdsa,
                Proof!VerifyEd25519, Proof!NormalizeAddress, Proof!DeriveAddress
<1>10. p.nonce[1] \in open[g]
    BY <1>3, <1>5
<1> HIDE DEF p, sig, message
<1>11. Proof!Verdict(g, p) = "taken"
    BY <1>2, <1>5, <1>6, <1>7, <1>8, <1>9, <1>10 DEF Proof!Verdict, digest
<1> QED BY <1>4, <1>11 DEF p

(* A nonce goes only with a signature over it for this gateway. *)
LEMMA NonceGoes ==
    ASSUME SignerInv, [Proof!Next]_proofVars, NEW g \in Gateway, NEW w \in open[g] \ open'[g]
    PROVE  \E s \in signed : s.intent.nonce = <<w>> /\ s.intent.context.origin = g.origin
<1>1. PICK h \in Gateway : Proof!Present(h)
    <2>1. ASSUME NEW h \in Gateway, Proof!Challenge(h) PROVE open[g] \subseteq open'[g]
        BY <2>1 DEF Proof!Challenge, SignerInv, Proof!TypeOK
    <2>2. ASSUME NEW k \in Key, Proof!Sign(k) PROVE open' = open
        BY <2>2 DEF Proof!Sign
    <2>3. (UNCHANGED proofVars) => open' = open
        BY DEF proofVars
    <2> QED BY <2>1, <2>2, <2>3, Zenon DEF Proof!Next
<1>2. PICK s \in signed, of \in Key, form \in Proof!AddressForm, n \in Proof!NonceText,
          d \in Digest \cup {Proof!None} :
         \E sig \in Proof!Signature(s) :
            open' = [open EXCEPT ![h] = @ \ Proof!Spent(h,
                [address |-> [of |-> of, form |-> form], nonce |-> n, signature |-> sig, digest |-> d])]
    BY <1>1, Zenon DEF Proof!Present
<1>3. PICK sig \in Proof!Signature(s) :
            open' = [open EXCEPT ![h] = @ \ Proof!Spent(h,
                [address |-> [of |-> of, form |-> form], nonce |-> n, signature |-> sig, digest |-> d])]
    BY <1>2
<1> DEFINE p == [address |-> [of |-> of, form |-> form], nonce |-> n, signature |-> sig, digest |-> d]
<1>4. h = g /\ w \in Proof!Spent(g, p)
    <2> HIDE DEF p
    <2>1. open' = [open EXCEPT ![h] = @ \ Proof!Spent(h, p)]
        BY <1>3 DEF p
    <2> QED BY <2>1 DEF SignerInv, Proof!TypeOK
<1>5. Proof!Verdict(g, p) = "taken" /\ w = n[1]
    BY <1>4 DEF Proof!Spent
<1>6. /\ \E v \in Nonce : n = <<v>>
      /\ s.intent.context = [origin |-> g.origin, gate |-> g.gate, network |-> g.network]
      /\ s.intent.nonce = n
    BY <1>5, Accepted
<1>7. s.intent.nonce = <<w>> /\ s.intent.context.origin = g.origin
    BY <1>5, <1>6
<1> QED BY <1>7

LEMMA PartsProof == [PartsNext]_allVars => [Proof!Next]_proofVars
BY DEF PartsNext, Fetching, allVars, proofVars

(* Whoever is admitted signed for exactly this gateway, nonce and consume, with a signature the
   chain would accept too; the signer is served while its nonce is open; and a nonce goes only
   with a signature over it: for any gateways, keys, nonces and digests. *)
THEOREM SignatureMeansItsSigner == PartsSpec => ProofMeansItsSigner
<1>1. PartsInit => SignerInv
    BY SignerInit DEF PartsInit
<1>2. SignerInv /\ [PartsNext]_allVars => SignerInv'
    BY SignerStep, PartsProof
<1>3. SignerInv => Proof!TypeOK /\ Proof!AdmittedAsIntended /\ Proof!NoTwin /\ Proof!SignerIsServed
    BY SignerServed DEF SignerInv
<1>4. SignerInv /\ [PartsNext]_allVars =>
         [\A g \in Gateway : \A n \in open[g] \ open'[g] :
            \E s \in signed : s.intent.nonce = <<n>> /\ s.intent.context.origin = g.origin]_(Proof!vars)
    BY PartsProof, NonceGoes DEF Proof!vars, proofVars
<1> QED BY <1>1, <1>2, <1>3, <1>4, PTL DEF PartsSpec, ProofMeansItsSigner, Proof!NonceNeedsSignature

=============================================================================
