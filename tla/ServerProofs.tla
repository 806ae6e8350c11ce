------------------------------ MODULE ServerProofs ------------------------------
(***************************************************************************)
(* The native server loses nothing, for any number of clients (finite or   *)
(* not), any caps and any grace: every connection permit and every slot of *)
(* the concurrency limit is accounted for, a request is shed only by a     *)
(* full server, and a shutdown gives its grace.  Then what holds of one    *)
(* forwarded request (Fwd) and of a deployment and its lock check (Lck),   *)
(* whose instances are in MCEndings.                                       *)
(***************************************************************************)
EXTENDS MCEndings, FiniteSetTheorems, TLAPS

(* What NothingLeaks needs to be inductive: cardinalities that mean something. *)
ServerInv == NothingLeaks /\ IsFiniteSet(Open) /\ IsFiniteSet(held)

Status == {"out", "backlog", "head", "busy", "shed"}

Spare == IF phase = "accept" THEN 1 ELSE 0

(* A set loses a member, or gains one. *)
LEMMA OneLess ==
    ASSUME NEW S, IsFiniteSet(S), NEW x \in S
    PROVE  IsFiniteSet(S \ {x}) /\ Cardinality(S \ {x}) \in Nat /\ Cardinality(S) = Cardinality(S \ {x}) + 1
  <1>1. IsFiniteSet(S \ {x}) /\ Cardinality(S \ {x}) = Cardinality(S) - 1
    BY FS_RemoveElement
  <1>2. Cardinality(S) \in Nat /\ Cardinality(S \ {x}) \in Nat
    BY <1>1, FS_CardinalityType
  <1>. QED
    BY <1>1, <1>2

LEMMA OneMore ==
    ASSUME NEW S, IsFiniteSet(S), NEW x, x \notin S
    PROVE  IsFiniteSet(S \cup {x}) /\ Cardinality(S) \in Nat /\ Cardinality(S \cup {x}) = Cardinality(S) + 1
  BY FS_AddElement, FS_CardinalityType

(* A step of a connection that stays open, or stays out. *)
LEMMA SameOpen ==
    ASSUME TypeOK, NEW c \in Conn, NEW p, conn' = [conn EXCEPT ![c] = p],
           p \in {"head", "busy", "shed"} <=> c \in Open
    PROVE  Open' = Open
  BY DEF TypeOK, Open

(* What the end of a handler gives back is what it held. *)
LEMMA GivesBack ==
    ASSUME ServerConstants, ServerInv, phase # "exited", NEW c \in Conn, NEW closes, GiveBack(c, closes)
    PROVE  /\ IsFiniteSet(held') /\ held' = held \ {c}
           /\ slots' \in 0 .. MaxInFlight /\ slots' + Cardinality(held') = MaxInFlight
  <1>1. /\ IsFiniteSet(held) /\ slots \in Nat /\ MaxInFlight \in Nat
        /\ slots + Cardinality(held) = MaxInFlight
    BY DEF ServerInv, NothingLeaks, SlotsKept, TypeOK, ServerConstants
  <1>2. Cardinality(held) \in Nat
    BY <1>1, FS_CardinalityType
  <1>3. CASE c \in held
    <2>1. IsFiniteSet(held \ {c}) /\ Cardinality(held \ {c}) \in Nat
          /\ Cardinality(held) = Cardinality(held \ {c}) + 1
      BY <1>1, <1>3, OneLess
    <2>2. held' = held \ {c} /\ slots' = slots + 1
      BY <1>3 DEF GiveBack
    <2>. QED
      BY <1>1, <2>1, <2>2
  <1>4. CASE c \notin held
    <2>1. held' = held /\ slots' = slots /\ held \ {c} = held
      BY <1>4 DEF GiveBack
    <2>. QED
      BY <1>1, <1>2, <2>1
  <1>. QED
    BY <1>3, <1>4

-----------------------------------------------------------------------------
(* The accept loop. *)

(* A step of the loop that leaves the connections and the slots as they are. *)
LEMMA LoopFrame ==
    ASSUME ServerInv, TypeOK', UNCHANGED <<slots, held, conn>>, phase # "exited", phase' # "exited",
           phase' \notin Over =>
              phase \notin Over /\ permits' + Spare' = permits + Spare
    PROVE  ServerInv'
  <1>1. Open' = Open
    BY DEF Open
  <1>2. SlotsKept'
    BY DEF ServerInv, NothingLeaks, SlotsKept
  <1>3. PermitsKept'
    <2> SUFFICES ASSUME phase' \notin Over
                 PROVE  permits' + Cardinality(Open') + Spare' = MaxConnections
      BY DEF PermitsKept, Spare
    <2>1. permits + Cardinality(Open) + Spare = MaxConnections
      BY DEF ServerInv, NothingLeaks, PermitsKept, Spare
    <2>2. Cardinality(Open) \in Nat
      BY FS_CardinalityType DEF ServerInv
    <2>3. {permits, permits', Spare, Spare'} \subseteq Int
      BY DEF ServerInv, NothingLeaks, TypeOK, Spare
    <2>. QED
      BY <1>1, <2>1, <2>2, <2>3
  <1>. QED
    BY <1>1, <1>2, <1>3 DEF ServerInv, NothingLeaks

LEMMA LoopStep ==
    ASSUME ServerConstants, ServerInv,
           Connected \/ ConnectFails \/ Signalled \/ AcquirePermit \/ AcceptFails
    PROVE  ServerInv'
  <1>1. TypeOK /\ MaxConnections \in Nat /\ Attempts \in Nat
    BY DEF ServerInv, NothingLeaks, ServerConstants
  <1>2. CASE Connected
    <2>1. TypeOK'
      BY <1>1, <1>2 DEF Connected, TypeOK, startup
    <2>. QED
      BY <1>2, <2>1, LoopFrame DEF Connected, Over, Spare
  <1>3. CASE ConnectFails
    <2>1. TypeOK'
      BY <1>1, <1>3 DEF ConnectFails, TypeOK, startup
    <2>. QED
      BY <1>3, <2>1, LoopFrame DEF ConnectFails, Over, Spare
  <1>4. CASE Signalled
    <2>1. TypeOK'
      BY <1>1, <1>4 DEF Signalled, TypeOK, startup
    <2>. QED
      BY <1>4, <2>1, LoopFrame DEF Signalled, Over, Spare
  <1>5. CASE AcquirePermit
    <2>1. TypeOK'
      BY <1>1, <1>5 DEF AcquirePermit, TypeOK, startup
    <2>2. permits' + Spare' = permits + Spare
      BY <1>1, <1>5 DEF AcquirePermit, TypeOK, Spare
    <2>. QED
      BY <1>5, <2>1, <2>2, LoopFrame DEF AcquirePermit, Over
  <1>6. CASE AcceptFails
    <2>1. permits + Cardinality(Open) + 1 = MaxConnections
      BY <1>6 DEF ServerInv, NothingLeaks, PermitsKept, AcceptFails, Over
    <2>2. Cardinality(Open) \in Nat
      BY FS_CardinalityType DEF ServerInv
    <2>3. TypeOK'
      BY <1>1, <1>6, <2>1, <2>2 DEF AcceptFails, TypeOK, startup
    <2>4. permits' + Spare' = permits + Spare
      BY <1>1, <1>6 DEF AcceptFails, TypeOK, Spare
    <2>. QED
      BY <1>6, <2>3, <2>4, LoopFrame DEF AcceptFails, Over
  <1>. QED
    BY <1>2, <1>3, <1>4, <1>5, <1>6

(* The permit in hand goes to the connection. *)
LEMMA AcceptStep ==
    ASSUME ServerConstants, ServerInv, NEW c \in Conn, Accept(c)
    PROVE  ServerInv'
  <1>1. TypeOK /\ c \notin Open /\ IsFiniteSet(Open) /\ c \notin held
    BY DEF ServerInv, NothingLeaks, SlotsKept, Accept, Open
  <1>2. TypeOK'
    BY <1>1 DEF Accept, TypeOK, startup
  <1>3. Open' = Open \cup {c}
    BY <1>1 DEF Accept, TypeOK, Open
  <1>4. IsFiniteSet(Open') /\ Cardinality(Open) \in Nat /\ Cardinality(Open') = Cardinality(Open) + 1
    BY <1>1, <1>3, OneMore
  <1>5. permits + Cardinality(Open) + 1 = MaxConnections /\ permits \in Nat
    BY DEF ServerInv, NothingLeaks, TypeOK, PermitsKept, Accept, Over
  <1>6. PermitsKept'
    BY <1>4, <1>5 DEF PermitsKept, Accept
  <1>7. SlotsKept'
    BY <1>1 DEF ServerInv, NothingLeaks, SlotsKept, TypeOK, Accept
  <1>. QED
    BY <1>2, <1>4, <1>6, <1>7 DEF ServerInv, NothingLeaks, Accept

LEMMA NoticeStep ==
    ASSUME ServerConstants, ServerInv, NoticeSignal
    PROVE  ServerInv'
  <1>1. TypeOK /\ IsFiniteSet(Open) /\ IsFiniteSet(held)
    BY DEF ServerInv, NothingLeaks
  <1>2. conn' \in [Conn -> Status] /\ Open' = Open
    BY <1>1 DEF NoticeSignal, TypeOK, Open, Status
  <1>3. Cardinality(Open) \in Nat
    BY <1>1, FS_CardinalityType
  <1>4. /\ permits + Cardinality(Open) + Spare = MaxConnections
        /\ permits \in Nat /\ Spare \in Nat /\ permits' = permits + Spare /\ MaxConnections \in Nat
    BY DEF ServerInv, NothingLeaks, TypeOK, PermitsKept, NoticeSignal, Serving, Over, Spare, ServerConstants
  <1>5. permits' \in 0 .. MaxConnections /\ permits' + Cardinality(Open) + 0 = MaxConnections
    BY <1>3, <1>4
  <1>6. TypeOK'
    BY <1>1, <1>2, <1>5 DEF NoticeSignal, TypeOK, startup, Status
  <1>7. PermitsKept'
    BY <1>2, <1>5 DEF PermitsKept, NoticeSignal
  <1>8. SlotsKept'
    BY <1>1 DEF ServerInv, NothingLeaks, SlotsKept, TypeOK, NoticeSignal, Serving
  <1>. QED
    BY <1>1, <1>2, <1>6, <1>7, <1>8 DEF ServerInv, NothingLeaks, NoticeSignal

-----------------------------------------------------------------------------
(* Connections and requests. *)

(* A step that opens and closes no connection. *)
LEMMA OpenFrame ==
    ASSUME ServerInv, TypeOK', Open' = Open, IsFiniteSet(held'), SlotsKept', UNCHANGED <<phase, permits>>
    PROVE  ServerInv'
  BY DEF ServerInv, NothingLeaks, PermitsKept

LEMMA RequestStep ==
    ASSUME ServerConstants, ServerInv, NEW c \in Conn,
           ClientConnects(c) \/ GatedRequest(c) \/ FreeRequest(c) \/ Answered(c)
    PROVE  ServerInv'
  <1>1. /\ TypeOK /\ IsFiniteSet(held) /\ MaxInFlight \in Nat
        /\ phase # "exited" => slots + Cardinality(held) = MaxInFlight /\ \A d \in held : conn[d] = "busy"
    BY DEF ServerInv, NothingLeaks, SlotsKept, ServerConstants
  <1>2. phase # "exited" /\ UNCHANGED <<phase, permits, startup, signal, left>>
    BY DEF ClientConnects, GatedRequest, FreeRequest, Answered, Running, Serving
  <1>3. CASE ClientConnects(c)
    <2>1. conn' = [conn EXCEPT ![c] = "backlog"] /\ c \notin Open /\ UNCHANGED <<slots, held>> /\ c \notin held
      BY <1>1, <1>2, <1>3 DEF ClientConnects, Open
    <2>2. TypeOK'
      BY <1>1, <1>2, <2>1 DEF TypeOK, startup
    <2>3. Open' = Open
      BY <1>1, <2>1, SameOpen
    <2>4. SlotsKept'
      BY <1>1, <1>2, <2>1 DEF SlotsKept, TypeOK
    <2>. QED
      BY <1>1, <1>2, <2>1, <2>2, <2>3, <2>4, OpenFrame
  <1>4. CASE GatedRequest(c) /\ slots > 0
    <2>1. /\ conn' = [conn EXCEPT ![c] = "busy"] /\ conn[c] = "head" /\ c \in Open /\ c \notin held
          /\ slots' = slots - 1 /\ held' = held \cup {c}
      BY <1>1, <1>2, <1>4 DEF GatedRequest, Open
    <2>2. TypeOK'
      BY <1>1, <1>2, <1>4, <2>1 DEF TypeOK, startup
    <2>3. Open' = Open
      BY <1>1, <2>1, SameOpen
    <2>4. IsFiniteSet(held') /\ Cardinality(held) \in Nat /\ Cardinality(held') = Cardinality(held) + 1
      BY <1>1, <2>1, OneMore
    <2>5. slots' + Cardinality(held') = MaxInFlight
      BY <1>1, <1>2, <2>1, <2>4 DEF TypeOK
    <2>6. SlotsKept'
      BY <1>1, <1>2, <2>1, <2>5 DEF SlotsKept, TypeOK
    <2>. QED
      BY <1>2, <2>2, <2>3, <2>4, <2>6, OpenFrame
  <1>5. CASE (GatedRequest(c) /\ ~(slots > 0)) \/ FreeRequest(c)
    <2>1. PICK p \in {"busy", "shed"} : conn' = [conn EXCEPT ![c] = p]
      BY <1>5 DEF GatedRequest, FreeRequest
    <2>2. conn[c] = "head" /\ c \in Open /\ c \notin held /\ UNCHANGED <<slots, held>>
      BY <1>1, <1>2, <1>5 DEF GatedRequest, FreeRequest, Open
    <2>3. TypeOK'
      BY <1>1, <1>2, <2>1, <2>2 DEF TypeOK, startup
    <2>4. Open' = Open
      BY <1>1, <2>1, <2>2, SameOpen
    <2>5. SlotsKept'
      BY <1>1, <1>2, <2>1, <2>2 DEF SlotsKept, TypeOK
    <2>. QED
      BY <1>1, <1>2, <2>2, <2>3, <2>4, <2>5, OpenFrame
  <1>6. CASE Answered(c)
    <2>1. conn' = [conn EXCEPT ![c] = "head"] /\ c \in Open /\ GiveBack(c, FALSE)
      BY <1>6 DEF Answered, Open
    <2>2. /\ IsFiniteSet(held') /\ held' = held \ {c}
          /\ slots' \in 0 .. MaxInFlight /\ slots' + Cardinality(held') = MaxInFlight
      BY <1>2, <2>1, GivesBack
    <2>3. TypeOK'
      BY <1>1, <1>2, <2>1, <2>2 DEF TypeOK, startup
    <2>4. Open' = Open
      BY <1>1, <2>1, SameOpen
    <2>5. SlotsKept'
      BY <1>1, <1>2, <2>1, <2>2 DEF SlotsKept, TypeOK
    <2>. QED
      BY <1>2, <2>2, <2>3, <2>4, <2>5, OpenFrame
  <1>. QED
    BY <1>3, <1>4, <1>5, <1>6

(* The task of a connection ends: its permit is dropped, and so is what its handler held. *)
LEMMA ClosedStep ==
    ASSUME ServerConstants, ServerInv, NEW c \in Conn, Closed(c)
    PROVE  ServerInv'
  <1>1. /\ TypeOK /\ IsFiniteSet(Open) /\ c \in Open /\ conn' = [conn EXCEPT ![c] = "out"]
        /\ permits' = permits + 1 /\ GiveBack(c, TRUE) /\ phase \notin Over /\ MaxConnections \in Nat
        /\ UNCHANGED <<phase, startup, signal, left>>
    BY DEF ServerInv, NothingLeaks, Closed, Running, Serving, Over, ServerConstants
  <1>2. /\ IsFiniteSet(held') /\ held' = held \ {c}
        /\ slots' \in 0 .. MaxInFlight /\ slots' + Cardinality(held') = MaxInFlight
    BY <1>1, GivesBack DEF Over
  <1>3. Open' = Open \ {c}
    BY <1>1 DEF TypeOK, Open
  <1>4. IsFiniteSet(Open') /\ Cardinality(Open') \in Nat /\ Cardinality(Open) = Cardinality(Open') + 1
    BY <1>1, <1>3, OneLess
  <1>5. permits + Cardinality(Open) + Spare = MaxConnections /\ permits \in Nat /\ Spare \in Nat
    BY <1>1 DEF ServerInv, NothingLeaks, TypeOK, PermitsKept, Spare
  <1>6. permits' \in 0 .. MaxConnections /\ permits' + Cardinality(Open') + Spare = MaxConnections
    BY <1>1, <1>4, <1>5
  <1>7. TypeOK'
    BY <1>1, <1>2, <1>6 DEF TypeOK, startup
  <1>8. PermitsKept'
    BY <1>1, <1>6 DEF PermitsKept, Spare
  <1>9. SlotsKept'
    BY <1>1, <1>2 DEF ServerInv, NothingLeaks, SlotsKept, TypeOK, Over
  <1>. QED
    BY <1>2, <1>4, <1>7, <1>8, <1>9 DEF ServerInv, NothingLeaks

LEMMA DrainStep ==
    ASSUME ServerConstants, ServerInv, Tick \/ Exit \/ UNCHANGED vars
    PROVE  ServerInv'
  <1>1. TypeOK /\ Grace \in Nat
    BY DEF ServerInv, NothingLeaks, ServerConstants
  <1>2. CASE Tick \/ UNCHANGED vars
    <2>1. TypeOK'
      BY <1>1, <1>2 DEF Tick, vars, TypeOK, startup
    <2>2. Open' = Open /\ UNCHANGED <<phase, permits, slots, conn, held>>
      BY <1>2 DEF Tick, vars, Open
    <2>3. SlotsKept' /\ IsFiniteSet(held')
      BY <2>2 DEF ServerInv, NothingLeaks, SlotsKept
    <2>. QED
      BY <2>1, <2>2, <2>3, OpenFrame
  <1>3. CASE Exit
    <2>1. Open' = {}
      BY <1>3 DEF Exit, Open
    <2>2. IsFiniteSet(Open')
      BY <2>1, FS_EmptySet
    <2>3. TypeOK'
      BY <1>1, <1>3 DEF Exit, TypeOK, startup
    <2>. QED
      BY <1>3, <2>2, <2>3 DEF Exit, ServerInv, NothingLeaks, PermitsKept, SlotsKept, Over
  <1>. QED
    BY <1>2, <1>3

LEMMA ServerStep ==
    ASSUME ServerConstants, ServerInv, [Next]_vars
    PROVE  ServerInv'
  BY LoopStep, AcceptStep, NoticeStep, RequestStep, ClosedStep, DrainStep DEF Next, Done

LEMMA ServerInit ==
    ASSUME ServerConstants, Init
    PROVE  ServerInv
  <1>1. Open = {} /\ held = {}
    BY DEF Init, Open
  <1>2. IsFiniteSet({}) /\ Cardinality({}) = 0
    BY FS_EmptySet
  <1>3. TypeOK
    <2>1. MaxConnections \in Nat /\ Attempts \in Nat \ {0} /\ MaxInFlight \in Nat /\ Grace \in Nat
      BY DEF ServerConstants
    <2>2. 1 \in 1 .. Attempts /\ MaxConnections \in 0 .. MaxConnections
          /\ MaxInFlight \in 0 .. MaxInFlight /\ Grace \in 0 .. Grace
      BY <2>1
    <2>3. conn \in [Conn -> {"out", "backlog", "head", "busy", "shed"}]
      BY DEF Init
    <2>. QED
      BY <2>2, <2>3 DEF Init, TypeOK
  <1>4. PermitsKept /\ SlotsKept
    BY <1>1, <1>2 DEF Init, PermitsKept, SlotsKept, ServerConstants
  <1>. QED
    BY <1>1, <1>2, <1>3, <1>4 DEF ServerInv, NothingLeaks

LEMMA ServerKeepsCount ==
    ASSUME ServerConstants
    PROVE  Spec => []ServerInv
  <1>1. Init => ServerInv
    BY ServerInit
  <1>2. ServerInv /\ [Next]_vars => ServerInv'
    BY ServerStep
  <1>. QED
    BY <1>1, <1>2, PTL DEF Spec

-----------------------------------------------------------------------------
(* `serve` accounts for every permit and every slot, whichever way accepts,
   connections and handlers end. *)
THEOREM ServerLosesNothing ==
    ASSUME ServerConstants
    PROVE  Spec => []NothingLeaks
  <1>1. ServerInv => NothingLeaks
    BY DEF ServerInv
  <1>. QED
    BY <1>1, ServerKeepsCount, PTL

(* `load_shed` turns a request away only while MaxInFlight handlers run. *)
THEOREM ShedsOnlyWhenFull ==
    ASSUME ServerConstants
    PROVE  Spec => ShedWhenFull
  <1>1. ASSUME ServerInv, [Next]_vars, NEW c \in Conn, conn[c] = "head", conn'[c] = "shed"
        PROVE  Cardinality(held) = MaxInFlight
    <2>1. TypeOK /\ conn' # conn
      BY <1>1 DEF ServerInv, NothingLeaks
    <2>2. GatedRequest(c) /\ ~(slots > 0)
      BY <1>1, <2>1 DEF Next, Done, vars, startup, TypeOK, Connected, ConnectFails, Signalled, AcquirePermit,
            AcceptFails, NoticeSignal, ClientConnects, Accept, GatedRequest, FreeRequest, Answered, Closed,
            Tick, Exit
    <2>3. slots = 0 /\ slots + Cardinality(held) = MaxInFlight
      BY <1>1, <2>1, <2>2 DEF ServerInv, NothingLeaks, SlotsKept, TypeOK, GatedRequest, Running, Serving, ServerConstants
    <2>4. Cardinality(held) \in Nat
      BY <1>1, FS_CardinalityType DEF ServerInv
    <2>. QED
      BY <2>3, <2>4
  <1>2. ServerInv /\ [Next]_vars =>
           [\A c \in Conn : conn[c] = "head" /\ conn'[c] = "shed" => Cardinality(held) = MaxInFlight]_vars
    BY <1>1
  <1>. QED
    BY <1>2, ServerKeepsCount, PTL DEF Spec, ShedWhenFull

(* A shutdown aborts a connection only when the whole grace period has passed, and
   a draining server lets nobody in. *)
THEOREM GraceIsGiven ==
    ASSUME ServerConstants
    PROVE  Spec => GraceGiven
  <1>1. ASSUME NothingLeaks, [Next]_vars, phase' = "exited", Open # {}, vars' # vars
        PROVE  left = 0
    <2>1. Exit
      BY <1>1 DEF Next, Done, NothingLeaks, TypeOK, Connected, ConnectFails, Signalled, AcquirePermit,
            AcceptFails, NoticeSignal, ClientConnects, Accept, GatedRequest, FreeRequest, Answered, Closed,
            Tick, Running, Serving, Over
    <2>. QED
      BY <1>1, <2>1 DEF Exit
  <1>2. ASSUME NothingLeaks, [Next]_vars, phase = "drain", NEW c \in Conn, conn[c] = "out"
        PROVE  conn'[c] = "out"
    <2>1. TypeOK
      BY <1>2 DEF NothingLeaks
    <2>2. CASE \E d \in Conn : GatedRequest(d) \/ FreeRequest(d) \/ Answered(d) \/ Closed(d)
      <3>1. PICK d \in Conn, p \in Status : conn' = [conn EXCEPT ![d] = p] /\ (d = c => p = "out")
        BY <1>2, <2>2 DEF GatedRequest, FreeRequest, Answered, Closed, Open, Status
      <3>. QED
        BY <1>2, <2>1, <3>1 DEF TypeOK
    <2>3. CASE ~\E d \in Conn : GatedRequest(d) \/ FreeRequest(d) \/ Answered(d) \/ Closed(d)
      BY <1>2, <2>1, <2>3 DEF Next, Done, vars, TypeOK, Connected, ConnectFails, Signalled, AcquirePermit,
            AcceptFails, NoticeSignal, ClientConnects, Accept, Tick, Exit, Serving
    <2>. QED
      BY <2>2, <2>3
  <1>3. NothingLeaks /\ [Next]_vars =>
           [/\ phase' = "exited" /\ Open # {} => left = 0
            /\ signal /\ phase = "drain" => \A c \in Conn : conn[c] = "out" => conn'[c] = "out"]_vars
    BY <1>1, <1>2
  <1>. QED
    BY <1>3, ServerLosesNothing, PTL DEF Spec, GraceGiven

(* `serve` is as hard on its clients as it has to be: it sheds when full, and cuts off after
   the grace. *)
THEOREM ServerIsFair ==
    ASSUME ServerConstants
    PROVE  Spec => ServesFairly
  BY ShedsOnlyWhenFull, GraceIsGiven, PTL DEF ServesFairly

-----------------------------------------------------------------------------
(* Forwarding. *)

(* The typed constants, each on its own. *)
LEMMA ForwardTypes ==
    /\ MaxBody \in Nat /\ BodyTimeout \in Nat /\ UpstreamTimeout \in Nat
    /\ Platforms \subseteq {"native", "worker"}
  <1>1. \A x \in {MaxBody, BodyTimeout, UpstreamTimeout} : x \in Nat \ {0}
    BY Zenon, EndingConstants DEF Fwd!ForwardConstants
  <1>2. Platforms \subseteq {"native", "worker"}
    BY EndingConstants DEF Fwd!ForwardConstants
  <1>. QED
    BY <1>1, <1>2

(* The types an exchange has. *)
LEMMA ForwardState ==
    ASSUME Fwd!ForwardInv
    PROVE  /\ plat \in {"native", "worker"} /\ req \in Fwd!Exchange
           /\ stage \in {"start", "body", "exchange", "done"}
           /\ time \in Nat /\ timer \in Nat /\ got \in Nat /\ sent \in Nat
           /\ exceeded \in BOOLEAN /\ req.size \in Nat
           /\ reply \in {"success", "failure", "redirect", "broken", "none"}
  <1>1. req \in Fwd!Exchange
    BY DEF Fwd!ForwardInv, Fwd!TypeOK
  <1>2. req.size \in Nat
    BY <1>1, ForwardTypes DEF Fwd!Exchange
  <1>. QED
    BY <1>1, <1>2, ForwardTypes DEF Fwd!ForwardInv, Fwd!TypeOK, Fwd!Reply

(* What `preflight` refuses with. *)
LEMMA PreflightFacts ==
    ASSUME NEW status \in Fwd!Preflight
    PROVE  /\ status \in {405, 400, 413}
           /\ status = 413 => Fwd!DeclaredTooLarge
  BY DEF Fwd!Preflight

(* What the code that waited answers with. *)
LEMMA VerdictFacts ==
    ASSUME Fwd!ForwardInv, reply # "none"
    PROVE  /\ Fwd!Verdict \in {413, 504, 502, 200}
           /\ Fwd!Verdict = 413 => exceeded
           /\ Fwd!Verdict = 504 => timer >= UpstreamTimeout
           /\ Fwd!Verdict = 200 => reply \in {"success", "failure"} /\ ~exceeded
  <1>1. CASE exceeded
    BY <1>1 DEF Fwd!Verdict
  <1>2. CASE ~exceeded /\ reply = "broken"
    BY <1>2 DEF Fwd!Verdict
  <1>3. CASE ~exceeded /\ reply = "redirect"
    BY <1>3 DEF Fwd!Verdict
  <1>4. CASE ~exceeded /\ reply \in {"success", "failure"}
    BY <1>4 DEF Fwd!Verdict
  <1>. QED
    BY <1>1, <1>2, <1>3, <1>4, ForwardState

(* Every step keeps the clocks and the counts, and tells the truth when it is the last. *)
LEMMA ForwardStep ==
    ASSUME Fwd!ForwardInv, [Fwd!Next]_fwdVars
    PROVE  /\ Fwd!ForwardInv'
           /\ stage # "done" /\ stage' = "done" =>
                /\ answer' = 413 => req.size > MaxBody \/ (plat = "native" /\ cut /\ sent = 0)
                /\ answer' = 504 => timer = UpstreamTimeout
                /\ answer' = 408 => timer = BodyTimeout /\ sent = 0
                /\ answer' = 200 => reply \in {"success", "failure"} /\ ~exceeded
  <1> DEFINE Truth == stage # "done" /\ stage' = "done" =>
                /\ answer' = 413 => req.size > MaxBody \/ (plat = "native" /\ cut /\ sent = 0)
                /\ answer' = 504 => timer = UpstreamTimeout
                /\ answer' = 408 => timer = BodyTimeout /\ sent = 0
                /\ answer' = 200 => reply \in {"success", "failure"} /\ ~exceeded
  <1> USE DEF Fwd!ForwardInv, Fwd!Clocked, Fwd!Counted, Fwd!CapHolds, Fwd!InTime
  <1>1. CASE Fwd!Refuse
    <2>1. PICK status \in Fwd!Preflight : answer' = status /\ stage' = "done"
      BY <1>1 DEF Fwd!Refuse, Fwd!Done
    <2>2. stage = "start" /\ UNCHANGED <<plat, req, time, timer, got, cut, sent, exceeded, reply>>
      BY <1>1 DEF Fwd!Refuse
    <2>3. status \in {405, 400, 413} /\ (status = 413 => req.size > MaxBody)
      BY <2>1, PreflightFacts DEF Fwd!DeclaredTooLarge
    <2>4. Fwd!TypeOK'
      BY <2>1, <2>2, <2>3 DEF Fwd!TypeOK, Fwd!Answer
    <2>. QED
      BY <2>1, <2>2, <2>3, <2>4, ForwardState, ForwardTypes
  <1>2. CASE Fwd!Begin
    <2>1. /\ stage = "start" /\ stage' = (IF plat = "native" THEN "body" ELSE "exchange") /\ timer' = 0
          /\ UNCHANGED <<plat, req, time, got, cut, sent, exceeded, reply, answer>>
      BY <1>2 DEF Fwd!Begin
    <2>2. Fwd!TypeOK'
      BY <2>1 DEF Fwd!TypeOK
    <2>. QED
      BY <2>1, <2>2, ForwardState, ForwardTypes
  <1>3. CASE Fwd!Receive
    <2>1. /\ stage = "body" /\ got < req.size /\ ~cut /\ got' = got + 1
          /\ UNCHANGED <<plat, req, stage, time, timer, cut, sent, exceeded, reply, answer>>
      BY <1>3 DEF Fwd!Receive
    <2>2. Fwd!TypeOK'
      BY <2>1 DEF Fwd!TypeOK
    <2>. QED
      BY <2>1, <2>2, ForwardState, ForwardTypes
  <1>4. CASE Fwd!BodyRead
    <2>1. /\ stage = "body" /\ got = req.size /\ ~cut /\ got <= MaxBody /\ stage' = "exchange" /\ timer' = 0 /\ sent' = got
          /\ UNCHANGED <<plat, req, time, got, cut, exceeded, reply, answer>>
      BY <1>4 DEF Fwd!BodyRead
    <2>2. Fwd!TypeOK'
      BY <2>1 DEF Fwd!TypeOK
    <2>. QED
      BY <2>1, <2>2, ForwardState, ForwardTypes
  <1>5. CASE Fwd!BodyTooLarge
    <2>1. /\ stage = "body" /\ (got > MaxBody \/ cut) /\ stage' = "done" /\ answer' = 413
          /\ UNCHANGED <<plat, req, time, timer, got, cut, sent, exceeded, reply>>
      BY <1>5 DEF Fwd!BodyTooLarge, Fwd!Done
    <2>2. Fwd!TypeOK'
      BY <2>1 DEF Fwd!TypeOK, Fwd!Answer
    <2>. QED
      BY <2>1, <2>2, ForwardState, ForwardTypes
  <1>6. CASE Fwd!BodyTimedOut
    <2>1. /\ stage = "body" /\ timer >= BodyTimeout /\ stage' = "done" /\ answer' = 408
          /\ UNCHANGED <<plat, req, time, timer, got, cut, sent, exceeded, reply>>
      BY <1>6 DEF Fwd!BodyTimedOut, Fwd!Done
    <2>2. Fwd!TypeOK'
      BY <2>1 DEF Fwd!TypeOK, Fwd!Answer
    <2>. QED
      BY <2>1, <2>2, ForwardState, ForwardTypes
  <1>7. CASE Fwd!Stream
    <2>1. /\ plat = "worker" /\ stage \in {"exchange", "done"} /\ got < req.size /\ ~exceeded
          /\ got' = got + 1 /\ exceeded' = (got' > MaxBody)
          /\ sent' = (IF got' > MaxBody THEN sent ELSE sent + 1)
          /\ UNCHANGED <<plat, req, stage, time, timer, cut, reply, answer>>
      BY <1>7 DEF Fwd!Stream
    <2>2. got' \in Nat /\ sent' \in Nat /\ exceeded' \in BOOLEAN
      BY <2>1, ForwardState
    <2>3. Fwd!TypeOK'
      BY <2>1, <2>2 DEF Fwd!TypeOK
    <2>4. sent = got /\ got <= MaxBody /\ got + 1 \in Nat /\ MaxBody \in Nat /\ req.size \in Nat
      BY <2>1, ForwardState, ForwardTypes
    <2>5. /\ exceeded' <=> got' > MaxBody
          /\ ~exceeded' => sent' = got'
          /\ sent' <= MaxBody /\ got' <= req.size
      <3>1. CASE got' > MaxBody
        <4>1. exceeded'
          BY <2>1, <3>1
        <4>2. sent' = sent /\ got' = got + 1
          BY <2>1, <3>1
        <4>. QED
          BY <2>1, <2>4, <3>1, <4>1, <4>2, ForwardState
      <3>2. CASE ~(got' > MaxBody)
        BY <2>1, <2>4, <3>2, ForwardState
      <3>. QED
        BY <3>1, <3>2
    <2>. QED
      BY <2>1, <2>2, <2>3, <2>5, ForwardState, ForwardTypes
  <1>8. CASE Fwd!UpstreamReplies
    <2>1. /\ stage = "exchange" /\ reply = "none" /\ reply' \in Fwd!Reply
          /\ UNCHANGED <<plat, req, stage, time, timer, got, cut, sent, exceeded, answer>>
      BY <1>8 DEF Fwd!UpstreamReplies, Fwd!Reply
    <2>2. Fwd!TypeOK'
      BY <2>1 DEF Fwd!TypeOK
    <2>. QED
      BY <2>1, <2>2, ForwardState, ForwardTypes
  <1>9. CASE Fwd!Resume
    <2>1. /\ stage = "exchange" /\ reply # "none" /\ stage' = "done" /\ answer' = Fwd!Verdict
          /\ UNCHANGED <<plat, req, time, timer, got, cut, sent, exceeded, reply>>
      BY <1>9 DEF Fwd!Resume, Fwd!Done
    <2>2. /\ answer' \in {413, 504, 502, 200} /\ (answer' = 413 => exceeded)
          /\ answer' = 504 => timer >= UpstreamTimeout
          /\ answer' = 200 => reply \in {"success", "failure"} /\ ~exceeded
      BY <2>1, VerdictFacts
    <2>3. Fwd!TypeOK'
      BY <2>1, <2>2 DEF Fwd!TypeOK, Fwd!Answer
    <2>4. exceeded => req.size > MaxBody
      BY ForwardState, ForwardTypes
    <2>. QED
      BY <2>1, <2>2, <2>3, <2>4, ForwardState, ForwardTypes
  <1>10. CASE Fwd!Tick
    <2>1. /\ stage \in {"body", "exchange"} /\ timer < (IF stage = "body" THEN BodyTimeout ELSE UpstreamTimeout)
          /\ time' = time + 1 /\ timer' = timer + 1
          /\ UNCHANGED <<plat, req, stage, got, cut, sent, exceeded, reply, answer>>
      BY <1>10 DEF Fwd!Tick
    <2>2. Fwd!TypeOK'
      BY <2>1 DEF Fwd!TypeOK
    <2>. QED
      BY <2>1, <2>2, ForwardState, ForwardTypes
  <1>11. CASE Fwd!BodyBreaks
    <2>1. /\ stage = "body" \/ (plat = "worker" /\ stage = "exchange")
          /\ cut' = TRUE
          /\ UNCHANGED <<plat, req, stage, time, timer, got, sent, exceeded, reply, answer>>
      BY <1>11 DEF Fwd!BodyBreaks
    <2>2. Fwd!TypeOK'
      BY <2>1 DEF Fwd!TypeOK
    <2>. QED
      BY <2>1, <2>2, ForwardState, ForwardTypes
  <1>12. CASE UNCHANGED fwdVars
    BY <1>12 DEF fwdVars, Fwd!TypeOK
  <1>. QED
    BY <1>1, <1>2, <1>3, <1>4, <1>5, <1>6, <1>7, <1>8, <1>9, <1>10, <1>11, <1>12 DEF Fwd!Next

(* A forward keeps its deadlines and its cap and names what went wrong, on either platform. *)
THEOREM ForwardIsHonest == PartsSpec => ForwardHolds
  <1>1. PartsInit => Fwd!ForwardInv
    <2> SUFFICES ASSUME Fwd!Init PROVE Fwd!ForwardInv
      BY DEF PartsInit
    <2>1. req.size \in Nat
      BY ForwardTypes DEF Fwd!Init, Fwd!Exchange
    <2>2. Fwd!TypeOK
      BY DEF Fwd!Init, Fwd!TypeOK
    <2>3. Fwd!Clocked
      BY ForwardTypes DEF Fwd!Init, Fwd!Clocked, Fwd!InTime
    <2>4. Fwd!Counted /\ Fwd!CapHolds
      BY <2>1, ForwardTypes DEF Fwd!Init, Fwd!Counted, Fwd!CapHolds
    <2>. QED
      BY <2>2, <2>3, <2>4 DEF Fwd!ForwardInv
  <1>2. [PartsNext]_allVars => [Fwd!Next]_fwdVars
    BY DEF PartsNext, Redeeming, AtServer, Forwarding, Locking, allVars
  <1>3. Fwd!ForwardInv /\ [PartsNext]_allVars => Fwd!ForwardInv'
    BY <1>2, ForwardStep
  <1>4. Fwd!ForwardInv /\ [PartsNext]_allVars =>
           [stage # "done" /\ stage' = "done" =>
                /\ answer' = 413 => req.size > MaxBody \/ (plat = "native" /\ cut /\ sent = 0)
                /\ answer' = 504 => timer = UpstreamTimeout
                /\ answer' = 408 => timer = BodyTimeout /\ sent = 0
                /\ answer' = 200 => reply \in {"success", "failure"} /\ ~exceeded]_(Fwd!vars)
    BY <1>2, ForwardStep
  <1>. QED
    BY <1>1, <1>3, <1>4, PTL DEF PartsSpec, ForwardHolds, Fwd!ToldTheTruth
-----------------------------------------------------------------------------
(* The deployment and the lock check. *)

(* A step that leaves the deployment alone, though operators may change what Access guards. *)
LEMMA DeployKept ==
    ASSUME Lck!LockInv, UNCHANGED <<secret, checkUrl, step, runs, probed, versions, live>>
    PROVE  Lck!DeployKnows' /\ Lck!SwitchTogether' /\ Lck!RefusedNotDeployed'
  BY DEF Lck!LockInv, Lck!DeployKnows, Lck!SwitchTogether, Lck!RefusedNotDeployed, Lck!Version

(* A step that leaves the lock check alone. *)
LEMMA LockKept ==
    ASSUME Lck!LockInv, UNCHANGED Lck!lockVars
    PROVE  Lck!LockCounts' /\ Lck!OpenIsReported'
  BY DEF Lck!LockInv, Lck!LockCounts, Lck!OpenIsReported, Lck!lockVars

(* What is known of a run's probe by what it met: the origin took the secret, or the zone
   challenged. *)
LEMMA ProbePasses ==
    ASSUME NEW r \in Lck!ByZone \cup {Lck!Lost} \cup (IF accepted THEN Lck!ByOrigin ELSE Lck!ByAccess)
    PROVE  Lck!ReportOriginCheck(r) => r.challenge \/ r.status = 200
  BY DEF Lck!ByZone, Lck!Lost, Lck!ByOrigin, Lck!ByAccess, Lck!Response, Lck!ReportOriginCheck

(* A run of the deployment: which steps follow, and what the version that gets the traffic is. *)
LEMMA DeployStep ==
    ASSUME Lck!LockInv,
           \/ Lck!StartDeploy \/ Lck!CheckSecret \/ Lck!ProbeOrigin \/ Lck!Upload
           \/ Lck!PutSecret \/ Lck!Switch \/ Lck!StepFails
    PROVE  Lck!LockInv'
  <1>0. Lck!TypeOK /\ Lck!DeployKnows /\ Lck!SwitchTogether /\ Lck!RefusedNotDeployed
    BY DEF Lck!LockInv
  <1>1. Lck!LockCounts' /\ Lck!OpenIsReported'
    <2>1. UNCHANGED Lck!lockVars
      BY DEF Lck!StartDeploy, Lck!CheckSecret, Lck!ProbeOrigin, Lck!Upload, Lck!PutSecret, Lck!Switch, Lck!StepFails
    <2>. QED
      BY <2>1, LockKept
  <1> DEFINE Goal == Lck!TypeOK' /\ Lck!DeployKnows' /\ Lck!SwitchTogether' /\ Lck!RefusedNotDeployed'
  <1> USE DEF Lck!DeployKnows, Lck!SwitchTogether, Lck!RefusedNotDeployed, Lck!Goto, Lck!lockVars
  <1>2. runs \in Nat /\ live.run \in Nat /\ live.run <= runs
    BY <1>0 DEF Lck!TypeOK
  <1>3. CASE Lck!StartDeploy
    <2>1. Lck!TypeOK'
      BY <1>0, <1>3 DEF Lck!TypeOK, Lck!StartDeploy
    <2>. QED
      BY <1>0, <1>1, <1>2, <1>3, <2>1 DEF Lck!StartDeploy, Lck!LockInv
  <1>4. CASE Lck!CheckSecret
    <2>1. Lck!TypeOK'
      BY <1>0, <1>4 DEF Lck!TypeOK, Lck!CheckSecret
    <2>. QED
      BY <1>0, <1>1, <1>2, <1>4, <2>1 DEF Lck!CheckSecret, Lck!CheckUpstreamAuth, Lck!LockInv
  <1>5. CASE Lck!ProbeOrigin
    <2>1. PICK r \in Lck!ByZone \cup {Lck!Lost} \cup (IF accepted THEN Lck!ByOrigin ELSE Lck!ByAccess) :
             /\ probed' = IF r.challenge THEN "challenged" ELSE IF r.status = 200 THEN "accepted" ELSE "refused"
             /\ step' = IF Lck!ReportOriginCheck(r) THEN "upload" ELSE "failed"
      BY <1>5 DEF Lck!ProbeOrigin
    <2>2. /\ step = "probe" /\ step' \in {"upload", "failed"}
          /\ UNCHANGED <<secret, checkUrl, accepted, guarded, changes, runs, versions, live, Lck!lockVars>>
          /\ probed' \in {"accepted", "challenged", "refused"}
      BY <1>5, <2>1 DEF Lck!ProbeOrigin
    <2>3. step' = "upload" => probed' \in {"accepted", "challenged"}
      BY <2>1, ProbePasses
    <2>4. Lck!TypeOK'
      BY <1>0, <2>2 DEF Lck!TypeOK
    <2>. QED
      BY <1>0, <1>1, <1>2, <2>2, <2>3, <2>4 DEF Lck!LockInv
  <1>6. CASE Lck!Upload
    <2> DEFINE v == Lck!Version(runs, "new", "old")
    <2>1. /\ step = "upload" /\ versions' = versions \cup {v} /\ live' = (IF secret = "unset" THEN v ELSE live)
          /\ step' = (IF secret = "unset" THEN "done" ELSE "put")
          /\ UNCHANGED <<secret, checkUrl, accepted, guarded, changes, runs, probed, Lck!lockVars>>
      BY <1>6 DEF Lck!Upload
    <2>2. v.run = runs /\ v.code = "new" /\ v.secret = "old"
      BY DEF Lck!Version
    <2> HIDE DEF v
    <2>3. Lck!TypeOK'
      BY <1>0, <2>1 DEF Lck!TypeOK
    <2>. QED
      BY <1>0, <1>1, <1>2, <2>1, <2>2, <2>3 DEF Lck!LockInv
  <1>7. CASE Lck!PutSecret
    <2>1. Lck!TypeOK'
      BY <1>0, <1>7 DEF Lck!TypeOK, Lck!PutSecret
    <2>. QED
      BY <1>0, <1>1, <1>2, <1>7, <2>1 DEF Lck!PutSecret, Lck!LockInv
  <1>8. CASE Lck!Switch
    <2> DEFINE v == Lck!Version(runs, "new", "new")
    <2>1. /\ step = "switch" /\ live' = v /\ step' = "done"
          /\ UNCHANGED <<secret, checkUrl, accepted, guarded, changes, runs, probed, versions, Lck!lockVars>>
      BY <1>8 DEF Lck!Switch
    <2>2. v.run = runs /\ v.code = "new" /\ v.secret = "new" /\ v \in versions
      BY <1>0, <2>1 DEF Lck!Version
    <2> HIDE DEF v
    <2>3. Lck!TypeOK'
      BY <1>0, <2>1, <2>2 DEF Lck!TypeOK
    <2>. QED
      BY <1>0, <1>1, <1>2, <2>1, <2>2, <2>3 DEF Lck!LockInv
  <1>9. CASE Lck!StepFails
    <2>1. Lck!TypeOK'
      BY <1>0, <1>9 DEF Lck!TypeOK, Lck!StepFails
    <2>. QED
      BY <1>0, <1>1, <1>2, <1>9, <2>1 DEF Lck!StepFails, Lck!LockInv
  <1>. QED
    BY <1>3, <1>4, <1>5, <1>6, <1>7, <1>8, <1>9

(* Whoever is not Access or the zone counts as a failure of the lock. *)
LEMMA OpenCounts ==
    ASSUME NEW p, NEW r \in Lck!ByZone \cup (IF Lck!PathOf(p) \in guarded THEN Lck!ByAccess ELSE Lck!ByOrigin)
    PROVE  /\ Lck!ClassifyOriginResponse(r) \in {"inconclusive", "locked", "open"}
           /\ r.from \notin {"access", "zone"} => Lck!ClassifyOriginResponse(r) = "open"
  <1>1. CASE r \in Lck!ByZone
    BY <1>1 DEF Lck!ByZone, Lck!Response, Lck!ClassifyOriginResponse
  <1>2. CASE r \in Lck!ByAccess
    BY <1>2 DEF Lck!ByAccess, Lck!Response, Lck!ClassifyOriginResponse, Lck!LocationIsAccess
  <1>3. CASE r \in Lck!ByOrigin
    BY <1>3 DEF Lck!ByOrigin, Lck!Response, Lck!ClassifyOriginResponse, Lck!LocationIsAccess
  <1>. QED
    BY <1>1, <1>2, <1>3

(* The lock check: what is counted by each probe. *)
LEMMA LockStep ==
    ASSUME Lck!LockInv, Lck!StartLockCheck \/ Lck!Probe \/ Lck!ProbeLost \/ Lck!Conclude
    PROVE  Lck!LockInv'
  <1>0. Lck!TypeOK /\ Lck!LockCounts /\ Lck!OpenIsReported
    BY DEF Lck!LockInv
  <1>1. /\ UNCHANGED <<secret, checkUrl, accepted, guarded, changes, step, runs, probed, versions, live>>
        /\ Lck!DeployKnows' /\ Lck!SwitchTogether' /\ Lck!RefusedNotDeployed'
    <2>1. UNCHANGED <<secret, checkUrl, accepted, guarded, changes, step, runs, probed, versions, live>>
      BY DEF Lck!StartLockCheck, Lck!Probe, Lck!ProbeLost, Lck!Conclude, Lck!deployVars
    <2>. QED
      BY <2>1, DeployKept
  <1>2. /\ probe \in 0 .. 4 /\ try \in 1 .. 3 /\ failures \in Nat /\ inconclusive \in Nat
        /\ verdict \in {"none", "holds", "failed"}
    BY <1>0 DEF Lck!TypeOK
  <1> DEFINE Counts == /\ probe' \in 0 .. 4 /\ try' \in 1 .. 3 /\ failures' \in Nat /\ inconclusive' \in Nat
                       /\ verdict' \in {"none", "holds", "failed"}
                       /\ Lck!LockCounts' /\ Lck!OpenIsReported'
  <1> USE DEF Lck!LockCounts, Lck!OpenIsReported
  <1>3. ASSUME Lck!StartLockCheck PROVE Counts
    BY <1>0, <1>2, <1>3 DEF Lck!StartLockCheck
  <1>4. ASSUME Lck!Probe PROVE Counts
    <2>1. PICK r \in Lck!ByZone \cup (IF Lck!PathOf(probe) \in guarded THEN Lck!ByAccess ELSE Lck!ByOrigin) :
             /\ inconclusive' = inconclusive + (IF Lck!ClassifyOriginResponse(r) = "inconclusive" THEN 1 ELSE 0)
             /\ failures' = failures + (IF Lck!ClassifyOriginResponse(r) = "open" THEN 1 ELSE 0)
             /\ met' = met \cup {r.from}
      BY <1>4 DEF Lck!Probe
    <2>2. probe \in 1 .. 3 /\ probe' = probe + 1 /\ try' = 1 /\ verdict' = verdict
      BY <1>4 DEF Lck!Probe
    <2>3. r.from \notin {"access", "zone"} => Lck!ClassifyOriginResponse(r) = "open"
      BY <2>1, OpenCounts
    <2>4. failures' \in Nat /\ inconclusive' \in Nat /\ failures' + inconclusive' <= failures + inconclusive + 1
      BY <1>2, <2>1
    <2>5. failures' = 0 => failures = 0 /\ met' \subseteq {"access", "zone"}
      BY <1>0, <1>2, <2>1, <2>3
    <2>6. verdict' # "holds"
      BY <1>0, <1>2, <2>2
    <2>7. failures' + inconclusive' <= (IF probe' = 0 THEN 0 ELSE probe' - 1)
      <3>1. failures + inconclusive <= probe - 1
        BY <1>0, <1>2, <2>2
      <3>2. ASSUME NEW a \in Nat, NEW b \in Nat, NEW c \in Nat, NEW e \in Nat, NEW n \in 1 .. 3, NEW m,
                   m = n + 1, a + b <= c + e + 1, c + e <= n - 1
            PROVE  a + b <= (IF m = 0 THEN 0 ELSE m - 1)
        BY <3>2, SMT
      <3>. QED
        BY ONLY <1>2, <2>2, <2>4, <3>1, <3>2
    <2>8. probe' \in 0 .. 4 /\ try' \in 1 .. 3 /\ verdict' \in {"none", "holds", "failed"}
      BY <1>2, <2>2
    <2>. QED
      BY <2>4, <2>5, <2>6, <2>7, <2>8
  <1>5. ASSUME Lck!ProbeLost PROVE Counts
    <2>1. probe \in 1 .. 3 /\ inconclusive' = inconclusive /\ verdict' = verdict
      BY <1>5 DEF Lck!ProbeLost
    <2>2. \/ try < 3 /\ try' = try + 1 /\ probe' = probe /\ failures' = failures /\ met' = met
          \/ try = 3 /\ try' = 1 /\ probe' = probe + 1 /\ failures' = failures + 1
      BY <1>5 DEF Lck!ProbeLost
    <2>. QED
      BY <1>0, <1>2, <2>1, <2>2
  <1>6. ASSUME Lck!Conclude PROVE Counts
    BY <1>0, <1>2, <1>6 DEF Lck!Conclude
  <1>7. Counts
    BY <1>3, <1>4, <1>5, <1>6
  <1>8. Lck!TypeOK'
    BY <1>0, <1>1, <1>7 DEF Lck!TypeOK
  <1>. QED
    BY <1>1, <1>7, <1>8 DEF Lck!LockInv

(* Code and secret switch together, a refused secret gets no traffic, and an open lock is
   reported, whatever step or request fails. *)
THEOREM DeploymentIsSafe == PartsSpec => []DeploymentHolds
  <1>1. PartsInit => Lck!LockInv
    <2> SUFFICES ASSUME Lck!Init PROVE Lck!LockInv
      BY DEF PartsInit
    <2>1. Lck!TypeOK
      BY DEF Lck!Init, Lck!TypeOK
    <2>2. live.run = 0 /\ live.code = "old" /\ live.secret = "old"
      BY DEF Lck!Init, Lck!Version
    <2>. QED
      BY <2>1, <2>2 DEF Lck!Init, Lck!LockInv, Lck!DeployKnows, Lck!LockCounts, Lck!SwitchTogether,
         Lck!RefusedNotDeployed, Lck!OpenIsReported
  <1>2. Lck!LockInv /\ [Lck!Next]_lckVars => Lck!LockInv'
    <2> SUFFICES ASSUME Lck!LockInv, [Lck!Next]_lckVars PROVE Lck!LockInv'
      OBVIOUS
    <2>1. CASE Lck!Change
      <3>1. /\ changes' = changes + 1 /\ guarded' \subseteq Lck!Paths /\ accepted' \in BOOLEAN
            /\ UNCHANGED <<secret, checkUrl, Lck!deployVars, Lck!lockVars>>
        BY <2>1 DEF Lck!Change, Lck!LockInv, Lck!TypeOK
      <3>2. Lck!TypeOK'
        BY <3>1 DEF Lck!LockInv, Lck!TypeOK, Lck!deployVars, Lck!lockVars
      <3>3. UNCHANGED <<secret, checkUrl, step, runs, probed, versions, live>>
        BY <3>1 DEF Lck!deployVars
      <3>. QED
        BY <3>1, <3>2, <3>3, DeployKept, LockKept DEF Lck!LockInv
    <2>2. CASE UNCHANGED lckVars
      <3>1. UNCHANGED <<secret, checkUrl, step, runs, probed, versions, live>> /\ UNCHANGED Lck!lockVars
        BY <2>2 DEF lckVars, Lck!lockVars
      <3>2. Lck!TypeOK'
        BY <2>2 DEF lckVars, Lck!LockInv, Lck!TypeOK
      <3>. QED
        BY <3>1, <3>2, DeployKept, LockKept DEF Lck!LockInv
    <2>. QED
      BY <2>1, <2>2, DeployStep, LockStep DEF Lck!Next
  <1>3. [PartsNext]_allVars => [Lck!Next]_lckVars
    BY DEF PartsNext, Redeeming, AtServer, Forwarding, Locking, allVars
  <1>. QED
    BY <1>1, <1>2, <1>3, PTL DEF PartsSpec, DeploymentHolds
=============================================================================
