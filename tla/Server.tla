-------------------------------- MODULE Server --------------------------------
(***************************************************************************)
(* The native server: startup, `serve` and `build_router` of               *)
(* gateway-rust/src/main.rs, with the Redis connection loop of             *)
(* challenge.rs.  The accept loop takes a connection permit, then accepts; *)
(* each connection is a task that reads request heads and runs handlers;   *)
(* the gated routes share a cap on concurrent requests that sheds.  On a   *)
(* signal the loop stops and the connections get a grace period.  What a   *)
(* handler does is the pipeline's business (module Gateway): here it ends  *)
(* whenever it likes, or never.                                            *)
(***************************************************************************)
EXTENDS Naturals, FiniteSets

CONSTANTS
    Conn,            \* client connections
    MaxConnections,  \* max_connections
    MaxInFlight,     \* max_concurrent_requests
    Grace,           \* shutdown_grace
    Redis,           \* TRUE: REDIS_URL is set
    Attempts         \* connection attempts at startup (6 in the code)

(* What the constants must be; every instance assumes it. *)
ServerConstants ==
    /\ {MaxConnections, Attempts} \subseteq Nat \ {0}
    /\ {MaxInFlight, Grace} \subseteq Nat
    /\ Redis \in BOOLEAN

VARIABLES
    phase,    \* "connect", "permit", "accept", "drain", "exited"; "aborted" or "unbound" at startup
    attempt,  \* connection attempt
    delay,    \* the next back-off, in units of 0.5 s
    waited,   \* time spent backing off
    signal,   \* a shutdown signal arrived
    permits,  \* free connection permits
    slots,    \* free slots of the concurrency limit
    conn,     \* conn[c]: "out", "backlog", "head" (reading a request head), "busy" or "shed"
    held,     \* connections whose handler holds a slot
    left      \* grace that is left once draining

vars == <<phase, attempt, delay, waited, signal, permits, slots, conn, held, left>>
startup == <<attempt, delay, waited>>

Serving == {"permit", "accept"}
Over == {"exited", "aborted", "unbound"}
Open == {c \in Conn : conn[c] \in {"head", "busy", "shed"}}

TypeOK ==
    /\ phase \in {"connect", "permit", "accept", "drain", "exited", "aborted", "unbound"}
    /\ attempt \in 1 .. Attempts /\ delay \in Nat /\ waited \in Nat
    /\ signal \in BOOLEAN
    /\ permits \in 0 .. MaxConnections
    /\ slots \in 0 .. MaxInFlight
    /\ conn \in [Conn -> {"out", "backlog", "head", "busy", "shed"}]
    /\ held \subseteq Conn
    /\ left \in 0 .. Grace

Init ==
    /\ phase = IF Redis THEN "connect" ELSE "permit"
    /\ attempt = 1 /\ delay = 1 /\ waited = 0
    /\ signal = FALSE
    /\ permits = MaxConnections
    /\ slots = MaxInFlight
    /\ conn = [c \in Conn |-> "out"]
    /\ held = {}
    /\ left = Grace

-----------------------------------------------------------------------------
(* Startup: `RedisNonceStore::connect`, then the listener is bound. *)

Connected ==
    /\ phase = "connect"
    /\ phase' \in {"permit", "unbound"}     \* binding the address may fail
    /\ UNCHANGED <<startup, signal, permits, slots, conn, held, left>>

(* Mutant of ConnectFails: the back-off does not grow. *)
ConnectFailsFlat ==
    /\ phase = "connect"
    /\ IF attempt < Attempts
       THEN /\ attempt' = attempt + 1
            /\ waited' = waited + delay
            /\ UNCHANGED <<delay, phase>>
       ELSE phase' = "aborted" /\ UNCHANGED startup
    /\ UNCHANGED <<signal, permits, slots, conn, held, left>>

ConnectFails ==
    /\ phase = "connect"
    /\ IF attempt < Attempts
       THEN /\ attempt' = attempt + 1
            /\ waited' = waited + delay
            /\ delay' = 2 * delay
            /\ UNCHANGED phase
       ELSE phase' = "aborted" /\ UNCHANGED startup
    /\ UNCHANGED <<signal, permits, slots, conn, held, left>>

(* SIGINT or SIGTERM.  Before `serve` polls `shutdown_signal` no handler is installed
   and the signal ends the process. *)
Signalled ==
    /\ ~signal /\ phase \notin Over
    /\ signal' = TRUE
    /\ phase' = IF phase = "connect" THEN "aborted" ELSE phase
    /\ UNCHANGED <<startup, permits, slots, conn, held, left>>

-----------------------------------------------------------------------------
(* The accept loop.  `select!` takes either branch when both are ready. *)

AcquirePermit ==
    /\ phase = "permit" /\ permits > 0
    /\ permits' = permits - 1
    /\ phase' = "accept"
    /\ UNCHANGED <<startup, signal, slots, conn, held, left>>

Accept(c) ==
    /\ phase = "accept" /\ conn[c] = "backlog"
    /\ conn' = [conn EXCEPT ![c] = "head"]
    /\ phase' = "permit"
    /\ UNCHANGED <<startup, signal, permits, slots, held, left>>

(* Mutant of AcceptFails: the permit of the failed round is not given back. *)
AcceptFailsLeaks ==
    /\ phase = "accept"
    /\ phase' = "permit"
    /\ UNCHANGED <<startup, signal, permits, slots, conn, held, left>>

(* Mutant of AcceptFails: the permit is given back twice. *)
AcceptFailsTwice ==
    /\ phase = "accept"
    /\ phase' = "permit"
    /\ permits' = permits + 2
    /\ UNCHANGED <<startup, signal, slots, conn, held, left>>

(* `continue` drops the permit of this round. *)
AcceptFails ==
    /\ phase = "accept"
    /\ phase' = "permit"
    /\ permits' = permits + 1
    /\ UNCHANGED <<startup, signal, slots, conn, held, left>>

(* Mutant of NoticeSignal: only the wait for a client is interrupted. *)
NoticeSignalInAccept ==
    /\ signal /\ phase = "accept"
    /\ permits' = permits + 1
    /\ phase' = "drain"
    /\ conn' = [c \in Conn |-> IF conn[c] = "backlog" THEN "out" ELSE conn[c]]
    /\ UNCHANGED <<startup, signal, slots, held, left>>

(* `break`, which drops the permit in hand; then the listener and its backlog go. *)
NoticeSignal ==
    /\ signal /\ phase \in Serving
    /\ permits' = IF phase = "accept" THEN permits + 1 ELSE permits
    /\ phase' = "drain"
    /\ conn' = [c \in Conn |-> IF conn[c] = "backlog" THEN "out" ELSE conn[c]]
    /\ UNCHANGED <<startup, signal, slots, held, left>>

-----------------------------------------------------------------------------
(* Connections and requests, which go on while the server drains. *)

Running == phase \in Serving \cup {"drain"}

ClientConnects(c) ==
    /\ phase \in Serving /\ conn[c] = "out"
    /\ conn' = [conn EXCEPT ![c] = "backlog"]
    /\ UNCHANGED <<phase, startup, signal, permits, slots, held, left>>

(* A head for a gated route.  `load_shed` answers 503 when no slot is free. *)
GatedRequest(c) ==
    /\ Running /\ conn[c] = "head"
    /\ IF slots > 0
       THEN /\ conn' = [conn EXCEPT ![c] = "busy"]
            /\ slots' = slots - 1
            /\ held' = held \cup {c}
       ELSE conn' = [conn EXCEPT ![c] = "shed"] /\ UNCHANGED <<slots, held>>
    /\ UNCHANGED <<phase, startup, signal, permits, left>>

(* `/healthz` and preflights never wait for a slot. *)
FreeRequest(c) ==
    /\ Running /\ conn[c] = "head"
    /\ conn' = [conn EXCEPT ![c] = "busy"]
    /\ UNCHANGED <<phase, startup, signal, permits, slots, held, left>>

(* Mutant of GiveBack: a slot is only returned by a handler that answers. *)
GiveBackOnAnswer(c, closes) ==
    /\ held' = held \ {c}
    /\ slots' = IF c \in held /\ ~closes THEN slots + 1 ELSE slots

(* What the end of a handler, finished or dropped, gives back. *)
GiveBack(c, closes) ==
    /\ held' = held \ {c}
    /\ slots' = IF c \in held THEN slots + 1 ELSE slots

(* The response is sent and the connection kept alive. *)
Answered(c) ==
    /\ Running /\ conn[c] \in {"busy", "shed"}
    /\ conn' = [conn EXCEPT ![c] = "head"]
    /\ GiveBack(c, FALSE)
    /\ UNCHANGED <<phase, startup, signal, permits, left>>

(* The task ends: the client left, the head did not arrive in time, or an error. *)
Closed(c) ==
    /\ Running /\ c \in Open
    /\ conn' = [conn EXCEPT ![c] = "out"]
    /\ permits' = permits + 1
    /\ GiveBack(c, TRUE)
    /\ UNCHANGED <<phase, startup, signal, left>>

-----------------------------------------------------------------------------
(* Draining. *)

Tick ==
    /\ phase = "drain" /\ left > 0
    /\ left' = left - 1
    /\ UNCHANGED <<phase, startup, signal, permits, slots, conn, held>>

(* Mutant of Exit: nobody waits for the connections. *)
ExitAtOnce ==
    /\ phase = "drain"
    /\ phase' = "exited"
    /\ conn' = [c \in Conn |-> "out"]
    /\ UNCHANGED <<startup, signal, permits, slots, held, left>>

(* All tasks joined, or the grace has elapsed and the rest is aborted. *)
Exit ==
    /\ phase = "drain"
    /\ Open = {} \/ left = 0
    /\ phase' = "exited"
    /\ conn' = [c \in Conn |-> "out"]
    /\ UNCHANGED <<startup, signal, permits, slots, held, left>>

Done ==
    /\ phase \in Over
    /\ UNCHANGED vars

Next ==
    \/ Connected \/ ConnectFails \/ Signalled
    \/ AcquirePermit \/ AcceptFails \/ NoticeSignal
    \/ \E c \in Conn :
          \/ ClientConnects(c) \/ Accept(c)
          \/ GatedRequest(c) \/ FreeRequest(c) \/ Answered(c) \/ Closed(c)
    \/ Tick \/ Exit \/ Done

(***************************************************************************)
(* `select!` picks its ready branch at random, so the shutdown branch is   *)
(* taken in the end; timers fire.  Nothing is assumed of the handlers, of  *)
(* the clients or of the listener.                                         *)
(***************************************************************************)
Spec == Init /\ [][Next]_vars /\ WF_vars(NoticeSignal) /\ WF_vars(Tick) /\ WF_vars(Exit)

-----------------------------------------------------------------------------
(* Every connection has its permit, and so does the round of the accept loop. *)
PermitsKept ==
    phase \notin Over =>
        permits + Cardinality(Open) + (IF phase = "accept" THEN 1 ELSE 0) = MaxConnections

(* Every slot taken is held by a handler that still runs. *)
SlotsKept ==
    phase # "exited" =>
        slots + Cardinality(held) = MaxInFlight /\ \A c \in held : conn[c] = "busy"

(* No path of the accept loop loses a permit or a slot, so no sequence of failed
   accepts, resets, sheds and handlers dropped half way narrows the server for good. *)
NothingLeaks == TypeOK /\ PermitsKept /\ SlotsKept

(* A request is turned away only by a full server: MaxInFlight others were being
   handled when its head arrived.  Health probes and preflights never are. *)
ShedWhenFull == [][\A c \in Conn :
    conn[c] = "head" /\ conn'[c] = "shed" => Cardinality(held) = MaxInFlight]_vars

(* A shutdown cuts a connection off only after the whole grace period, and lets
   nobody in. *)
GraceGiven ==
    [][/\ phase' = "exited" /\ Open # {} => left = 0
       /\ signal /\ phase = "drain" => \A c \in Conn : conn[c] = "out" => conn'[c] = "out"]_vars

(* The server is as hard on its clients as it has to be and no harder. *)
ServesFairly == ShedWhenFull /\ GraceGiven

(* The gateway gives up on Redis only after Attempts tries and the whole back-off
   between them: 0.5 s doubling, 15.5 s for the 6 attempts of the code. *)
GivesUpLate ==
    phase = "aborted" /\ ~signal => attempt = Attempts /\ waited = 2 ^ (Attempts - 1) - 1

(* A signal ends the process, however many connections wait for a permit, keep sending
   requests or never finish. *)
Terminates == signal ~> phase \in Over
=============================================================================
