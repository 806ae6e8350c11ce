------------------------------ MODULE ChainFetch ------------------------------
(***************************************************************************)
(* The chain behind the decision: `consume_tx_valid` fetches a transaction *)
(* over gRPC-web from a full node that may lag behind, fail, answer late   *)
(* or be cut off in the middle of an answer (core/src/chain.rs, the        *)
(* unframing of core/src/grpc.rs, the transports of both platforms), and   *)
(* `gate_access_blocked` reads a gate whose JSON may change its shape.     *)
(***************************************************************************)
EXTENDS Naturals, Sequences

CONSTANTS
    Event,       \* events a transaction may hold: type, sender and its JSON as a
                 \* sequence of [key, depth, string] in document order
    Want,        \* events that may be asked for: pass type, sender and gate (or AnyGate)
    MaxAge,      \* CONSUME_MAX_AGE_SECS
    Skew,        \* CLOCK_SKEW_MS
    Attempts,    \* TX_FETCH_ATTEMPTS
    RetryDelay,  \* TX_FETCH_RETRY_MS
    CallMax,     \* RPC_TIMEOUT_SECS
    MaxDepth,    \* MAX_VALUE_DEPTH
    Start,       \* the time of the check
    MaxTime      \* bound: time

ASSUME FetchConstants ==
    /\ {MaxAge, Skew, Attempts, RetryDelay, CallMax, MaxDepth, Start, MaxTime} \subseteq Nat
    /\ Attempts > 0 /\ Start + Attempts * CallMax + (Attempts - 1) * RetryDelay <= MaxTime

VARIABLES
    ask,      \* the event asked for
    tx,       \* the transaction: success and events
    known,    \* the node has indexed it
    knew,     \* it had when the last call reached it
    phase,    \* "call", "wait" (for the node), "sleep" or "done"
    attempt,
    timer,    \* time in this phase
    verdict,  \* "none", "valid", "invalid" or "error"
    gate,     \* the gate: paused, and whether its policy lets a pause block access
    answer,   \* what the last reading of it said: "none", "open", "blocked" or "error"
    time

vars == <<ask, tx, known, knew, phase, attempt, timer, verdict, gate, answer, time>>

AnyGate == "any"

TypeOK ==
    /\ ask \in Want /\ tx.ok \in BOOLEAN /\ known \in BOOLEAN /\ knew \in BOOLEAN /\ (knew => known)
    /\ phase \in {"call", "wait", "sleep", "done"}
    /\ attempt \in 1 .. Attempts
    /\ timer \in 0 .. CallMax + RetryDelay
    /\ verdict \in {"none", "valid", "invalid", "error"} /\ (verdict = "none" <=> phase # "done")
    /\ gate \in [paused : BOOLEAN, blocks : BOOLEAN]
    /\ answer \in {"none", "open", "blocked", "error"}
    /\ time \in Start .. MaxTime

Init ==
    /\ \E ok \in BOOLEAN, n \in 0 .. 2 : \E events \in [1 .. n -> Event] : tx = [ok |-> ok, events |-> events]
    /\ ask \in Want /\ known \in BOOLEAN /\ knew = known
    /\ phase = "call" /\ attempt = 1 /\ timer = 0 /\ verdict = "none"
    /\ gate \in [paused : BOOLEAN, blocks : BOOLEAN]
    /\ answer = "none"
    /\ time = Start

-----------------------------------------------------------------------------
(* gRPC-web.  A response: the HTTP status, the grpc-status header, frames, and whether the
   body ends inside a frame.  The message comes in two parts, effects and events. *)

Data(part) == [flag |-> "data", part |-> part, status |-> "absent"]
Trailer(status) == [flag |-> "trailer", part |-> 0, status |-> status]

(* What a node sends of a transaction it has or has not indexed: the message and its
   trailer, or an error; the second with a compressed frame if it misreads the request. *)
Sent(indexed) ==
    IF indexed
    THEN {[header |-> "absent", frames |-> <<Data(1), Data(2), Trailer("0")>>],
          [header |-> "absent", frames |-> <<[Data(1) EXCEPT !.flag = "compressed"], Trailer("0")>>],
          [header |-> "absent", frames |-> <<Data(1), Data(2), Trailer("garbled")>>],
          [header |-> "13", frames |-> << >>]}
    ELSE {[header |-> "5", frames |-> << >>], [header |-> "absent", frames |-> <<Trailer("5")>>]}

(* What arrives: all of it, or any part of it; as of the call, or as of now. *)
Received ==
    UNION {{[http |-> http, header |-> s.header, frames |-> SubSeq(s.frames, 1, n), cut |-> cut] :
        http \in BOOLEAN, n \in 0 .. Len(s.frames), cut \in BOOLEAN} : s \in Sent(knew) \cup Sent(known)}

(* What the transports of both platforms hand on: the status header as text and the body
   of a success; nothing else of the answer. *)
PostGrpcWeb(r) == [ok |-> r.http, status |-> r.header, frames |-> r.frames, cut |-> r.cut]

(* `parse_status` of a garbled or absent text is None. *)
ParseStatus(s) == IF s \in {"absent", "garbled"} THEN "none" ELSE s

(* The status of the last trailer that has one, else of the header; "none" if unreadable. *)
Status(r) ==
    LET told == {i \in DOMAIN r.frames : r.frames[i].flag = "trailer" /\ r.frames[i].status # "absent"}
    IN  ParseStatus(IF told = {} THEN r.status
                    ELSE r.frames[CHOOSE i \in told : \A j \in told : j <= i].status)

(* Mutant of Unframe: an answer without a status is taken for a success. *)
UnframeLenient(r) ==
    IF ~r.ok \/ (\E i \in DOMAIN r.frames : r.frames[i].flag = "compressed") THEN [is |-> "error"]
    ELSE IF Status(r) \in {"0", "none"}
         THEN [is |-> "message", parts |-> {r.frames[i].part : i \in DOMAIN r.frames}]
         ELSE [is |-> IF Status(r) = "5" THEN "not_found" ELSE "error"]

(* `unframe`: the message, NOT_FOUND, or an error; an answer that is
   cut off or does not say that it is complete is an error. *)
Unframe(r) ==
    IF ~r.ok \/ r.cut \/ (\E i \in DOMAIN r.frames : r.frames[i].flag = "compressed")
    THEN [is |-> "error"]
    ELSE CASE Status(r) = "0" -> [is |-> "message", parts |-> {r.frames[i].part : i \in DOMAIN r.frames}]
           [] Status(r) = "5" -> [is |-> "not_found"]
           [] OTHER -> [is |-> "error"]

-----------------------------------------------------------------------------
(* `value_find_string`: the first string under the key, not too deep; "" if there is none. *)
FindString(json, key) ==
    LET found == SelectSeq(json, LAMBDA e : e.key = key /\ e.depth < MaxDepth)
    IN  IF found = << >> THEN "" ELSE found[1].string

(* Timestamps are decimal strings of time units; "x" is no number. *)
Decimal == [s \in {"0", "1", "2", "3", "4", "5", "6", "7", "8", "9"} |->
    CHOOSE n \in 0 .. 9 : s = <<"0", "1", "2", "3", "4", "5", "6", "7", "8", "9">>[n + 1]]

EventIsRecent(json, now) ==
    LET ts == FindString(json, "timestamp_ms")
    IN  /\ ts \in DOMAIN Decimal
        /\ Decimal[ts] <= now + Skew
        /\ now <= Decimal[ts] + MaxAge

(* A type is a package, spelled short or long, and a name; so is an address. *)
NormalizeMoveType(t) == [pkg |-> t.pkg, form |-> "long", name |-> t.name]

(* The consume event of the package that the pass's type names. *)
ConsumedEventType(nft_type) == [pkg |-> nft_type.pkg, form |-> "long", name |-> "AccessConsumedEvent"]

SameEvent(e) ==
    /\ NormalizeMoveType(e.type) = NormalizeMoveType(ConsumedEventType(ask.nft_type))
    /\ e.sender = ask.sender

OurGate(e) == ask.gate = AnyGate \/ FindString(e.json, "gate_id") = ask.gate

EffectsSucceeded(parts) == 1 \in parts /\ tx.ok

(* Mutant of HasConsume: the conditions may be met by different events. *)
HasConsumeBetween(parts, now) ==
    /\ EffectsSucceeded(parts) /\ 2 \in parts
    /\ \E i \in DOMAIN tx.events : SameEvent(tx.events[i]) /\ EventIsRecent(tx.events[i].json, now)
    /\ \E i \in DOMAIN tx.events : OurGate(tx.events[i])

(* `response_has_consume`: one event of a successful transaction meets all conditions. *)
HasConsume(parts, now) ==
    /\ EffectsSucceeded(parts) /\ 2 \in parts
    /\ \E i \in DOMAIN tx.events :
          /\ SameEvent(tx.events[i])
          /\ EventIsRecent(tx.events[i].json, now)
          /\ OurGate(tx.events[i])

-----------------------------------------------------------------------------
(* Mutant of Decide: the loop goes on after the verdict. *)
DecideOnly(v) == verdict' = v /\ phase' = "call"

Decide(v) == verdict' = v /\ phase' = "done"

Call ==
    /\ phase = "call"
    /\ phase' = "wait" /\ timer' = 0 /\ knew' = known
    /\ UNCHANGED <<ask, tx, known, attempt, verdict, gate, answer, time>>

(* An answer arrives.  NOT_FOUND alone is tried again. *)
Answer ==
    /\ phase = "wait"
    /\ \E r \in Received :
          LET u == Unframe(PostGrpcWeb(r))
          IN  \/ /\ u.is = "message"
                 /\ Decide(IF HasConsume(u.parts, time) THEN "valid" ELSE "invalid")
              \/ u.is = "not_found" /\ attempt >= Attempts /\ Decide("invalid")
              \/ u.is = "not_found" /\ attempt < Attempts /\ phase' = "sleep" /\ UNCHANGED verdict
              \/ u.is = "error" /\ Decide("error")
    /\ timer' = 0
    /\ UNCHANGED <<ask, tx, known, knew, attempt, gate, answer, time>>

(* The deadline of one call. *)
TimedOut ==
    /\ phase = "wait" /\ timer >= CallMax
    /\ Decide("error")
    /\ UNCHANGED <<ask, tx, known, knew, attempt, timer, gate, answer, time>>

(* Mutant of Retry: every NOT_FOUND is tried again. *)
RetryForever ==
    /\ phase = "sleep" /\ timer >= RetryDelay
    /\ phase' = "call" /\ timer' = 0
    /\ UNCHANGED <<ask, tx, known, knew, attempt, verdict, gate, answer, time>>

(* Mutant of Retry: the pause is not waited for. *)
RetryAtOnce ==
    /\ phase = "sleep"
    /\ phase' = "call" /\ attempt' = attempt + 1 /\ timer' = 0
    /\ UNCHANGED <<ask, tx, known, knew, verdict, gate, answer, time>>

Retry ==
    /\ phase = "sleep" /\ timer >= RetryDelay
    /\ phase' = "call" /\ attempt' = attempt + 1 /\ timer' = 0
    /\ UNCHANGED <<ask, tx, known, knew, verdict, gate, answer, time>>

(* The node catches up. *)
Index ==
    /\ ~known /\ phase # "done"
    /\ known' = TRUE
    /\ UNCHANGED <<ask, tx, knew, phase, attempt, timer, verdict, gate, answer, time>>

Tick ==
    /\ phase \in {"wait", "sleep"} /\ time < MaxTime
    /\ timer < IF phase = "wait" THEN CallMax ELSE RetryDelay
    /\ time' = time + 1 /\ timer' = timer + 1
    /\ UNCHANGED <<ask, tx, known, knew, phase, attempt, verdict, gate, answer>>

-----------------------------------------------------------------------------
(* How a field of the gate may be rendered: as itself, as text, or not at all. *)
Rendered(b) == {IF b THEN "true" ELSE "false", "text", "absent"}

(* Mutant of GateBlocksAccess: a field that is not understood is false. *)
GateBlocksLenient(paused, blocks) == IF paused = "true" /\ blocks = "true" THEN "blocked" ELSE "open"

(* `gate_blocks_access`: both fields must be booleans. *)
GateBlocksAccess(paused, blocks) ==
    IF {paused, blocks} \subseteq {"true", "false"}
    THEN IF paused = "true" /\ blocks = "true" THEN "blocked" ELSE "open"
    ELSE "error"

ReadGate ==
    /\ \/ answer' = "error"
       \/ \E paused \in Rendered(gate.paused), blocks \in Rendered(gate.blocks) :
             answer' = GateBlocksAccess(paused, blocks)
    /\ UNCHANGED <<ask, tx, known, knew, phase, attempt, timer, verdict, gate, time>>

Pause ==
    /\ gate' = [gate EXCEPT !.paused = ~@]
    /\ UNCHANGED <<ask, tx, known, knew, phase, attempt, timer, verdict, answer, time>>

FetchNext == Call \/ Answer \/ TimedOut \/ Retry \/ Index \/ Tick
GateNext == ReadGate \/ Pause
Next == FetchNext \/ GateNext

(* The transport's deadline and the sleep end; the node owes nothing. *)
Spec ==
    /\ Init /\ [][Next]_vars
    /\ WF_vars(Call) /\ WF_vars(TimedOut) /\ WF_vars(Retry) /\ WF_vars(Tick)

-----------------------------------------------------------------------------
(* What the chain says: one event of the successful transaction is the consume. *)
Genuine(now) ==
    /\ tx.ok
    /\ \E i \in DOMAIN tx.events :
          LET e == tx.events[i]
              ts == FindString(e.json, "timestamp_ms")
          IN  /\ e.type.pkg = ask.nft_type.pkg /\ e.type.name = "AccessConsumedEvent"
              /\ e.sender = ask.sender
              /\ ask.gate # AnyGate => FindString(e.json, "gate_id") = ask.gate
              /\ ts \in DOMAIN Decimal
              /\ Decimal[ts] \in (IF now > MaxAge THEN now - MaxAge ELSE 0) .. now + Skew

(* A consume is accepted only if the chain says so, and no older than allowed when it is
   accepted, however many attempts came before; no torn or partial answer decides. *)
AcceptedIsGenuine == [][verdict = "none" /\ verdict' = "valid" => known /\ Genuine(time)]_vars

(* A genuine consume is refused only if the node did not know it when the last attempt
   reached it, after all the pauses between the attempts. *)
LagTolerated ==
    [][verdict = "none" /\ verdict' = "invalid" =>
        \/ ~Genuine(time)
        \/ ~knew /\ time >= Start + (Attempts - 1) * RetryDelay]_vars

(* The check ends, within its attempts, their deadlines and the pauses between them. *)
Ends == <>(phase = "done")

(* A pause that blocks access is never read as an open gate, whatever the node renders. *)
PauseNotIgnored == [][answer' # answer /\ answer' = "open" => ~(gate.paused /\ gate.blocks)]_vars
=============================================================================
