----------------------------- MODULE GatewayProofs -----------------------------
(***************************************************************************)
(* For every number of requests, every set of nonces, every cap of the     *)
(* table and every TTL, with calls that fail, are lost or are applied      *)
(* late: a challenge nonce admits one request, nobody reaches the upstream *)
(* without what the pipeline asks for, and a nonce that was handed out is  *)
(* gone early only by a sound proof or at the cap.                         *)
(***************************************************************************)
EXTENDS Gateway, FiniteSetTheorems, TLAPS

-----------------------------------------------------------------------------
(* The operators of the nonce table only ever remove other nonces. *)

LEMMA PruneFacts ==
    ASSUME NEW table \in [Nonce -> Nat], NEW t \in Nat
    PROVE  /\ Prune(table, t) \in [Nonce -> Nat]
           /\ \A m \in Nonce : Prune(table, t)[m] = table[m] \/ Prune(table, t)[m] = Absent
  BY DEF Prune, Absent

LEMMA IssueFacts ==
    ASSUME NEW table \in [Nonce -> Nat], NEW n \in Nonce, NEW t \in Nat, NEW ttl \in Nat, NEW max,
           NEW tab \in Issue(table, n, t, ttl, max)
    PROVE  /\ tab \in [Nonce -> Nat]
           /\ \A m \in Nonce \ {n} : tab[m] = table[m] \/ tab[m] = Absent
  <1> DEFINE kept == Prune(table, t)
             room == IF Oldest(kept, max) = {} THEN {kept}
                     ELSE {[kept EXCEPT ![v] = Absent] : v \in Oldest(kept, max)}
  <1>1. /\ kept \in [Nonce -> Nat]
        /\ \A m \in Nonce : kept[m] = table[m] \/ kept[m] = Absent
    BY PruneFacts
  <1>2. PICK base \in room : tab = [base EXCEPT ![n] = t + ttl]
    BY DEF Issue
  <1>3. /\ base \in [Nonce -> Nat]
        /\ \A m \in Nonce : base[m] = table[m] \/ base[m] = Absent
    <2>1. CASE base = kept
      BY <2>1, <1>1
    <2>2. CASE base # kept
      <3>1. PICK v \in Oldest(kept, max) : base = [kept EXCEPT ![v] = Absent]
        BY <1>2, <2>2
      <3> HIDE DEF kept
      <3>. QED
        BY <3>1, <1>1 DEF Absent
    <2>. QED
      BY <2>1, <2>2
  <1>. QED
    BY <1>2, <1>3

(* What an abandoned call leaves in limbo. *)
LEMMA OrphanFacts ==
    ASSUME TypeOK, NEW r \in Request, Orphan(r)
    PROVE  /\ limbo' \subseteq [op : {"issue", "take"}, req : Request]
           /\ \A s \in Request, op \in {"issue", "take"} :
                 Call(op, s) \in limbo' =>
                    \/ Call(op, s) \in limbo
                    \/ s = r /\ op = "issue" /\ pc[r] = "issuing"
                    \/ s = r /\ op = "take" /\ pc[r] = "taking"
  <1>1. PICK left \in SUBSET Outstanding(r) : limbo' = limbo \cup left
    BY DEF Orphan
  <1>2. CASE pc[r] = "issuing"
    <2>1. left \subseteq {Call("issue", r)}
      BY <1>1, <1>2 DEF Outstanding
    <2>. QED
      BY <1>1, <1>2, <2>1 DEF Call, TypeOK
  <1>3. CASE pc[r] = "taking"
    <2>1. left \subseteq {Call("take", r)}
      BY <1>1, <1>3 DEF Outstanding
    <2>. QED
      BY <1>1, <1>3, <2>1 DEF Call, TypeOK
  <1>4. CASE pc[r] \notin {"issuing", "taking"}
    <2>1. left = {}
      BY <1>1, <1>4 DEF Outstanding
    <2>. QED
      BY <1>1, <2>1 DEF TypeOK
  <1>. QED
    BY <1>2, <1>3, <1>4

-----------------------------------------------------------------------------
(* Every action keeps the types; the calls in flight name nonces. *)

LEMMA ConstantFacts ==
    ChallengeTtl \in Nat /\ NoNonce \notin Nonce
  BY GatewayTypes

LEMMA ArriveTypes ==
    ASSUME TypeOK, UNCHANGED single_use, NEW r \in Request, NEW h \in Head, NEW n \in Nonce, NEW ok \in BOOLEAN,
           Arrive(r, h, n, ok)
    PROVE  TypeOK'
  <1>1. Route(h) \in Charging \cup Ended
    BY DEF Route, Charging, Ended
  <1>2. pc' \in [Request -> {"idle"} \cup InFlight \cup Ended]
    BY <1>1 DEF Arrive, Goto, TypeOK, InFlight
  <1>3. /\ nonce' \in [Request -> Nonce \cup {NoNonce}]
        /\ sound' \in [Request -> BOOLEAN]
        /\ head' \in [Request -> Head \cup {NoHead}]
        /\ sawOpen' \in [Request -> BOOLEAN]
    BY DEF Arrive, TypeOK
  <1>. QED
    BY <1>2, <1>3 DEF Arrive, TypeOK, chain

LEMMA ChargeTypes ==
    ASSUME TypeOK, UNCHANGED single_use, NEW r \in Request, Charge(r)
    PROVE  TypeOK'
  <1>1. AfterCharge(r) \in InFlight \cup Ended
    BY DEF Charge, AfterCharge, Charging, InFlight, Ended
  <1>2. pc' \in [Request -> {"idle"} \cup InFlight \cup Ended]
    BY <1>1 DEF Charge, Goto, TypeOK, Ended
  <1>3. /\ nonce' \in [Request -> Nonce \cup {NoNonce}]
        /\ drawn' \subseteq Nonce
    BY DEF Charge, TypeOK
  <1>. QED
    BY <1>2, <1>3 DEF Charge, TypeOK, chain, history

LEMMA ApplyTypes ==
    ASSUME TypeOK, NEW r \in Request, nonce[r] \in Nonce, ApplyIssue(r) \/ ApplyTake(r)
    PROVE  nonces' \in [Nonce -> Nat] /\ recorded' \in [Nonce -> Nat]
  <1>1. now + ChallengeTtl \in Nat
    BY ConstantFacts DEF TypeOK
  <1>2. CASE ApplyIssue(r)
    BY <1>1, <1>2, ConstantFacts, IssueFacts DEF ApplyIssue, TypeOK
  <1>3. CASE ApplyTake(r)
    BY <1>3 DEF ApplyTake, Take, Absent, TypeOK
  <1>. QED
    BY <1>2, <1>3

LEMMA TypeStep ==
    ASSUME TypeOK, CallsHaveNonces, [Next]_vars
    PROVE  TypeOK'
  <1> USE DEF chain, history
  <1>0. UNCHANGED single_use
    BY DEF Next, vars
  <1> USE <1>0
  <1>1. ASSUME NEW r \in Request, IssueNonce(r) PROVE TypeOK'
    <2>1. nonces' \in [Nonce -> Nat] /\ recorded' \in [Nonce -> Nat]
      BY <1>1, ApplyTypes DEF IssueNonce, CallsHaveNonces
    <2>. QED
      BY <1>1, <2>1 DEF IssueNonce, Goto, TypeOK, Ended
  <1>2. ASSUME NEW r \in Request, TakeNonce(r) PROVE TypeOK'
    <2>1. nonce[r] \in Nonce
      BY <1>2 DEF TakeNonce, CallsHaveNonces
    <2>2. nonces' \in [Nonce -> Nat] /\ recorded' \in [Nonce -> Nat]
      BY <1>2, <2>1, ApplyTypes DEF TakeNonce
    <2>3. /\ pc' \in [Request -> {"idle"} \cup InFlight \cup Ended]
          /\ passed' \in [Nonce -> SUBSET Request]
      BY <1>2, <2>1 DEF TakeNonce, Goto, TypeOK, InFlight, Ended
    <2>. QED
      BY <1>2, <2>2, <2>3 DEF TakeNonce, TypeOK
  <1>3. ASSUME NEW r \in Request, CheckPause(r) PROVE TypeOK'
    BY <1>3 DEF CheckPause, AfterPause, Goto, TypeOK, InFlight, Ended
  <1>4. ASSUME NEW r \in Request, CheckChain(r) PROVE TypeOK'
    BY <1>4 DEF CheckChain, Goto, TypeOK, InFlight, Charging, Ended
  <1>5. ASSUME NEW r \in Request, CallError(r) \/ Abandon(r) PROVE TypeOK'
    <2>1. limbo' \subseteq [op : {"issue", "take"}, req : Request]
      BY <1>5, OrphanFacts DEF CallError, Abandon
    <2>2. pc' \in [Request -> {"idle"} \cup InFlight \cup Ended]
      BY <1>5 DEF CallError, Abandon, AfterError, Goto, TypeOK, Ended
    <2>. QED
      BY <1>5, <2>1, <2>2 DEF CallError, Abandon, TypeOK
  <1>6. ASSUME NEW call \in limbo, LateCall(call) PROVE TypeOK'
    <2>1. call \in [op : {"issue", "take"}, req : Request]
      BY DEF TypeOK
    <2>2. call = Call(call.op, call.req) /\ call.req \in Request /\ call.op \in {"issue", "take"}
      BY <2>1 DEF Call
    <2>3. nonce[call.req] \in Nonce
      BY <2>2 DEF CallsHaveNonces
    <2>4. nonces' \in [Nonce -> Nat] /\ recorded' \in [Nonce -> Nat]
      BY <1>6, <2>2, <2>3, ApplyTypes DEF LateCall
    <2>. QED
      BY <1>6, <2>4 DEF LateCall, TypeOK
  <1>7. CASE PruneNonces
    <2>1. nonces' \in [Nonce -> Nat]
      BY <1>7, PruneFacts DEF PruneNonces, TypeOK
    <2>. QED
      BY <1>7, <2>1 DEF PruneNonces, TypeOK
  <1>8. CASE TogglePause
    BY <1>8 DEF TogglePause, TypeOK
  <1>9. CASE Tick
    BY <1>9 DEF Tick, TypeOK
  <1>10. CASE UNCHANGED vars
    BY <1>10 DEF vars, TypeOK
  <1>. QED
    BY <1>1, <1>2, <1>3, <1>4, <1>5, <1>6, <1>7, <1>8, <1>9, <1>10, ArriveTypes, ChargeTypes
       DEF Next, Work, Step

-----------------------------------------------------------------------------
(* The life of a nonce, step by step. *)

(* Everything of NonceInv but the types. *)
Life == /\ CallsHaveNonces /\ OneIssuePerNonce /\ IssueComesFirst
        /\ DrawnFirst /\ PassedIsGone /\ NonceAdmitsOnce

(* A request moves on, or ends and leaves its call in limbo; the table stands still. *)
LEMMA MoveStep ==
    ASSUME NonceInv, NEW r \in Request, NEW p, pc[r] \in InFlight, Goto(r, p),
           p # "issuing", p \in {"preauth", "taking"} => nonce[r] \in Nonce,
           \A s \in Request, op \in {"issue", "take"} :
              Call(op, s) \in limbo' =>
                 \/ Call(op, s) \in limbo
                 \/ s = r /\ op = "issue" /\ pc[r] = "issuing" /\ p \in Ended
                 \/ s = r /\ op = "take" /\ pc[r] = "taking" /\ p \in Ended,
           UNCHANGED <<nonces, drawn, nonce, passed>>
    PROVE  Life'
  <1> USE DEF NonceInv
  <1>1. /\ pc'[r] = p
        /\ \A s \in Request \ {r} : pc'[s] = pc[s]
    BY DEF Goto, TypeOK
  <1>2. \A op \in {"issue", "take"} : Call(op, r) \notin limbo
    BY DEF CallsHaveNonces, InFlight, Ended, Charging
  <1>3. CallsHaveNonces'
    BY <1>1, <1>2 DEF CallsHaveNonces
  <1>4. \A s \in Request : Issuing(s)' => Issuing(s)
    BY <1>1 DEF Issuing
  <1>5. OneIssuePerNonce' /\ IssueComesFirst'
    BY <1>4 DEF OneIssuePerNonce, IssueComesFirst
  <1>6. DrawnFirst' /\ PassedIsGone' /\ NonceAdmitsOnce'
    BY DEF DrawnFirst, PassedIsGone, NonceAdmitsOnce
  <1>. QED
    BY <1>3, <1>5, <1>6 DEF Life

(* Nonces leave the table, other than by a request that passes. *)
LEMMA ForgetStep ==
    ASSUME NonceInv,
           \A n \in Nonce : nonces'[n] = nonces[n] \/ nonces'[n] = Absent,
           UNCHANGED <<drawn, pc, nonce, limbo, passed>>
    PROVE  Life'
  <1> USE DEF NonceInv
  <1>1. CallsHaveNonces' /\ OneIssuePerNonce'
    BY DEF CallsHaveNonces, OneIssuePerNonce, Issuing
  <1>2. IssueComesFirst'
    BY DEF IssueComesFirst, Issuing, TypeOK
  <1>3. DrawnFirst' /\ PassedIsGone' /\ NonceAdmitsOnce'
    BY DEF DrawnFirst, PassedIsGone, NonceAdmitsOnce
  <1>. QED
    BY <1>1, <1>2, <1>3 DEF Life

LEMMA ArriveStep ==
    ASSUME NonceInv, NEW r \in Request, NEW h \in Head, NEW n \in Nonce, NEW ok \in BOOLEAN,
           Arrive(r, h, n, ok)
    PROVE  Life'
  <1> USE DEF NonceInv
  <1>1. Route(h) \in {"508", "challenge", "public", "405", "401", "preauth"}
    BY DEF Route
  <1>2. /\ pc[r] = "idle" /\ pc'[r] = Route(h)
        /\ \A s \in Request \ {r} : pc'[s] = pc[s] /\ nonce'[s] = nonce[s]
        /\ Route(h) = "preauth" => nonce'[r] = n
        /\ UNCHANGED <<nonces, drawn, limbo, passed>>
    BY DEF Arrive, Goto, TypeOK
  <1>3. \A op \in {"issue", "take"} : Call(op, r) \notin limbo
    BY <1>2 DEF CallsHaveNonces, Ended
  <1>4. CallsHaveNonces'
    BY <1>1, <1>2, <1>3 DEF CallsHaveNonces
  <1>5. \A s \in Request : Issuing(s)' => s # r /\ Issuing(s)
    BY <1>1, <1>2, <1>3 DEF Issuing
  <1>6. OneIssuePerNonce' /\ IssueComesFirst'
    BY <1>2, <1>5 DEF OneIssuePerNonce, IssueComesFirst
  <1>7. DrawnFirst' /\ PassedIsGone' /\ NonceAdmitsOnce'
    BY <1>2 DEF DrawnFirst, PassedIsGone, NonceAdmitsOnce
  <1>. QED
    BY <1>4, <1>6, <1>7 DEF Life

(* A fresh nonce is drawn for a challenge request. *)
LEMMA DrawStep ==
    ASSUME NonceInv, NEW r \in Request, NEW n \in Nonce \ drawn, pc[r] = "challenge",
           Goto(r, "issuing"), nonce' = [nonce EXCEPT ![r] = n], drawn' = drawn \cup {n},
           UNCHANGED <<nonces, limbo, passed>>
    PROVE  Life'
  <1> USE DEF NonceInv
  <1>1. /\ pc'[r] = "issuing" /\ nonce'[r] = n
        /\ \A s \in Request \ {r} : pc'[s] = pc[s] /\ nonce'[s] = nonce[s]
    BY DEF Goto, TypeOK
  <1>2. \A op \in {"issue", "take"} : Call(op, r) \notin limbo
    BY DEF CallsHaveNonces, Ended
  <1>3. CallsHaveNonces'
    BY <1>1, <1>2 DEF CallsHaveNonces
  <1>4. \A s \in Request \ {r} : (Issuing(s)' <=> Issuing(s)) /\ (Issuing(s) => nonce[s] # n)
    BY <1>1 DEF Issuing, IssueComesFirst
  <1>5. OneIssuePerNonce'
    BY <1>1, <1>4 DEF OneIssuePerNonce
  <1>6. IssueComesFirst'
    BY <1>1, <1>4 DEF IssueComesFirst, DrawnFirst
  <1>7. DrawnFirst' /\ PassedIsGone' /\ NonceAdmitsOnce'
    BY DEF DrawnFirst, PassedIsGone, NonceAdmitsOnce
  <1>. QED
    BY <1>3, <1>5, <1>6, <1>7 DEF Life

(* The store applies an issue, heard or unheard: the only way into the table. *)
LEMMA IssueStep ==
    ASSUME NonceInv, NEW r \in Request, nonce[r] \in Nonce, Issuing(r), ApplyIssue(r),
           \A s \in Request : Issuing(s)' => s # r /\ Issuing(s),
           CallsHaveNonces', UNCHANGED <<drawn, nonce, passed>>
    PROVE  Life'
  <1> USE DEF NonceInv
  <1>1. \A m \in Nonce \ {nonce[r]} : nonces'[m] = nonces[m] \/ nonces'[m] = Absent
    <2>1. nonces \in [Nonce -> Nat] /\ now \in Nat
      BY DEF TypeOK
    <2>2. nonces' \in Issue(nonces, nonce[r], now, ChallengeTtl, Cap)
      BY DEF ApplyIssue
    <2>. QED
      BY <2>1, <2>2, ConstantFacts, IssueFacts
  <1>2. nonce[r] \in drawn /\ passed[nonce[r]] = {}
    BY DEF IssueComesFirst
  <1>3. \A s \in Request : Issuing(s)' => nonce[s] # nonce[r]
    BY DEF OneIssuePerNonce
  <1>4. OneIssuePerNonce'
    BY DEF OneIssuePerNonce
  <1>5. IssueComesFirst'
    <2>1. \A s \in Request : Issuing(s) => nonce[s] \in Nonce
      BY DEF Issuing, CallsHaveNonces
    <2>. QED
      BY <1>1, <1>3, <2>1 DEF IssueComesFirst
  <1>6. DrawnFirst' /\ PassedIsGone' /\ NonceAdmitsOnce'
    BY <1>1, <1>2 DEF DrawnFirst, PassedIsGone, NonceAdmitsOnce
  <1>. QED
    BY <1>4, <1>5, <1>6 DEF Life

(* A take answers: only a nonce in the table passes, and then it is gone. *)
LEMMA TakeStep ==
    ASSUME NonceInv, NEW r \in Request, TakeNonce(r)
    PROVE  Life'
  <1> USE DEF NonceInv
  <1>1. /\ pc[r] = "taking" /\ nonce[r] \in Nonce
        /\ nonces' = [nonces EXCEPT ![nonce[r]] = Absent]
        /\ pc'[r] \in {"pause", "403"}
        /\ \A s \in Request \ {r} : pc'[s] = pc[s]
        /\ UNCHANGED <<drawn, nonce, limbo>>
    BY DEF TakeNonce, ApplyTake, Take, Goto, TypeOK, CallsHaveNonces
  <1>2. /\ nonces'[nonce[r]] = Absent
        /\ \A m \in Nonce \ {nonce[r]} : nonces'[m] = nonces[m]
    BY <1>1 DEF TypeOK
  <1>3. \/ passed' = passed
        \/ nonces[nonce[r]] # Absent /\ passed' = [passed EXCEPT ![nonce[r]] = @ \cup {r}]
    BY <1>1 DEF TakeNonce, Alive, Absent, TypeOK
  <1>4. \A op \in {"issue", "take"} : Call(op, r) \notin limbo
    BY <1>1 DEF CallsHaveNonces, Ended
  <1>5. CallsHaveNonces'
    BY <1>1, <1>4 DEF CallsHaveNonces
  <1>6. \A s \in Request : Issuing(s)' => Issuing(s)
    BY <1>1 DEF Issuing
  <1>7. OneIssuePerNonce'
    BY <1>1, <1>6 DEF OneIssuePerNonce
  <1>8. CASE passed' = passed
    <2>1. IssueComesFirst'
      BY <1>1, <1>2, <1>6, <1>8 DEF IssueComesFirst, TypeOK
    <2>2. DrawnFirst' /\ PassedIsGone' /\ NonceAdmitsOnce'
      BY <1>1, <1>2, <1>8 DEF DrawnFirst, PassedIsGone, NonceAdmitsOnce
    <2>. QED
      BY <1>5, <1>7, <2>1, <2>2 DEF Life
  <1>9. CASE nonces[nonce[r]] # Absent /\ passed' = [passed EXCEPT ![nonce[r]] = @ \cup {r}]
    <2>1. passed[nonce[r]] = {} /\ passed'[nonce[r]] = {r}
      BY <1>1, <1>9 DEF PassedIsGone, TypeOK
    <2>2. \A m \in Nonce \ {nonce[r]} : passed'[m] = passed[m]
      BY <1>1, <1>9 DEF TypeOK
    <2>3. IssueComesFirst'
      <3>1. \A s \in Request : Issuing(s) => nonce[s] # nonce[r]
        BY <1>9 DEF IssueComesFirst
      <3>2. \A s \in Request : Issuing(s) => nonce[s] \in Nonce
        BY DEF Issuing, CallsHaveNonces
      <3>. QED
        BY <1>1, <1>2, <1>6, <2>2, <3>1, <3>2 DEF IssueComesFirst
    <2>4. nonce[r] \in drawn
      BY <1>1, <1>9 DEF DrawnFirst
    <2>5. DrawnFirst' /\ PassedIsGone' /\ NonceAdmitsOnce'
      BY <1>1, <1>2, <2>1, <2>2, <2>4 DEF DrawnFirst, PassedIsGone, NonceAdmitsOnce
    <2>. QED
      BY <1>5, <1>7, <2>3, <2>5 DEF Life
  <1>. QED
    BY <1>3, <1>8, <1>9

(* The store applies a call whose caller no longer waits. *)
LEMMA LateStep ==
    ASSUME NonceInv, NEW call \in limbo, LateCall(call)
    PROVE  Life'
  <1> USE DEF NonceInv
  <1>1. /\ call = Call(call.op, call.req) /\ call.req \in Request
        /\ call.op \in {"issue", "take"}
    BY DEF TypeOK, Call
  <1>2. PICK r \in Request, op \in {"issue", "take"} : call = Call(op, r)
    BY <1>1
  <1>3. /\ call.op = op /\ call.req = r
        /\ nonce[r] \in Nonce /\ pc[r] \in Ended
        /\ limbo' = limbo \ {Call(op, r)}
        /\ UNCHANGED <<drawn, pc, nonce, passed>>
    BY <1>2 DEF LateCall, Call, CallsHaveNonces
  <1>4. CallsHaveNonces'
    BY <1>3 DEF CallsHaveNonces
  <1>5. \A s \in Request : Issuing(s)' => Issuing(s)
    BY <1>3 DEF Issuing
  <1>6. CASE op = "issue"
    <2>1. ApplyIssue(r) /\ Issuing(r)
      BY <1>2, <1>3, <1>6 DEF LateCall, Issuing
    <2>2. ~Issuing(r)'
      BY <1>3, <1>6 DEF Issuing, Ended
    <2>. QED
      BY <1>3, <1>4, <1>5, <2>1, <2>2, IssueStep
  <1>7. CASE op = "take"
    <2>1. nonces' = [nonces EXCEPT ![nonce[r]] = Absent]
      BY <1>3, <1>7 DEF LateCall, ApplyTake, Take
    <2>2. \A m \in Nonce : nonces'[m] = nonces[m] \/ nonces'[m] = Absent
      BY <2>1 DEF TypeOK
    <2>3. OneIssuePerNonce'
      BY <1>3, <1>5 DEF OneIssuePerNonce
    <2>4. IssueComesFirst'
      BY <1>3, <1>5, <2>2 DEF IssueComesFirst, TypeOK
    <2>5. DrawnFirst' /\ PassedIsGone' /\ NonceAdmitsOnce'
      BY <1>3, <2>2 DEF DrawnFirst, PassedIsGone, NonceAdmitsOnce
    <2>. QED
      BY <1>4, <2>3, <2>4, <2>5 DEF Life
  <1>. QED
    BY <1>6, <1>7

LEMMA ChargeStep ==
    ASSUME NonceInv, NEW r \in Request, Charge(r)
    PROVE  Life'
  <1> USE DEF NonceInv
  <1>1. pc[r] \in Charging /\ pc[r] \in InFlight /\ UNCHANGED <<nonces, limbo, passed>>
    BY DEF Charge, InFlight
  <1>2. CASE pc[r] = "challenge" /\ drawn' # drawn
    <2>1. Goto(r, "issuing")
      BY <1>2 DEF Charge, AfterCharge
    <2>2. PICK n \in Nonce \ drawn : nonce' = [nonce EXCEPT ![r] = n] /\ drawn' = drawn \cup {n}
      BY <1>2 DEF Charge
    <2>. QED
      BY <1>1, <1>2, <2>1, <2>2, DrawStep
  <1>3. CASE ~(pc[r] = "challenge" /\ drawn' # drawn)
    <2>1. /\ UNCHANGED <<nonce, drawn>>
          /\ \E p \in {"upstream", "taking", "403", "redeem", "429", "503"} :
                Goto(r, p) /\ (p = "taking" => pc[r] = "preauth")
      BY <1>1, <1>3 DEF Charge, AfterCharge, Charging
    <2>2. PICK p \in {"upstream", "taking", "403", "redeem", "429", "503"} :
             Goto(r, p) /\ (p = "taking" => pc[r] = "preauth")
      BY <2>1
    <2>3. p = "taking" => nonce[r] \in Nonce
      BY <2>2 DEF CallsHaveNonces
    <2>. QED
      BY <1>1, <2>1, <2>2, <2>3, MoveStep
  <1>. QED
    BY <1>2, <1>3

LEMMA CheckStep ==
    ASSUME NonceInv, NEW r \in Request, CheckPause(r) \/ CheckChain(r)
    PROVE  Life'
  <1>1. /\ pc[r] \in InFlight
        /\ UNCHANGED <<nonces, drawn, nonce, limbo, passed>>
        /\ \E p \in {"403", "consume", "owns", "address"} : Goto(r, p)
    BY DEF CheckPause, CheckChain, AfterPause, InFlight
  <1>2. PICK p \in {"403", "consume", "owns", "address"} : Goto(r, p)
    BY <1>1
  <1>. QED
    BY <1>1, <1>2, MoveStep

LEMMA FailStep ==
    ASSUME NonceInv, NEW r \in Request, CallError(r) \/ Abandon(r)
    PROVE  Life'
  <1>1. /\ pc[r] \in InFlight /\ Orphan(r)
        /\ UNCHANGED <<nonces, drawn, nonce, passed>>
        /\ \E p \in {"502", "503", "gone"} : Goto(r, p)
    BY DEF CallError, Abandon, AfterError
  <1>2. PICK p \in {"502", "503", "gone"} : Goto(r, p)
    BY <1>1
  <1>3. p \in Ended /\ TypeOK
    BY <1>2 DEF Ended, NonceInv
  <1>. QED
    BY <1>1, <1>2, <1>3, OrphanFacts, MoveStep

LEMMA InitEstablishesInv ==
    ASSUME Init
    PROVE  NonceInv
  <1>1. TypeOK
    BY DEF Init, TypeOK, Absent
  <1>2. Life
    BY DEF Init, Life, CallsHaveNonces, OneIssuePerNonce, IssueComesFirst, Issuing, DrawnFirst,
           PassedIsGone, NonceAdmitsOnce
  <1>. QED
    BY <1>1, <1>2 DEF Life, NonceInv

LEMMA LifeStep ==
    ASSUME NonceInv, [Next]_vars
    PROVE  Life'
  <1>1. ASSUME NEW r \in Request, IssueNonce(r) PROVE Life'
    <2>1. /\ pc[r] = "issuing" /\ pc'[r] = "issued"
          /\ \A s \in Request \ {r} : pc'[s] = pc[s]
          /\ UNCHANGED <<drawn, nonce, limbo, passed>>
      BY <1>1 DEF IssueNonce, Goto, NonceInv, TypeOK
    <2>2. nonce[r] \in Nonce /\ \A op \in {"issue", "take"} : Call(op, r) \notin limbo
      BY <2>1 DEF NonceInv, CallsHaveNonces, Ended
    <2>3. Issuing(r) /\ \A s \in Request : Issuing(s)' => s # r /\ Issuing(s)
      BY <2>1, <2>2 DEF Issuing
    <2>4. CallsHaveNonces'
      BY <2>1, <2>2 DEF NonceInv, CallsHaveNonces
    <2>5. ApplyIssue(r)
      BY <1>1 DEF IssueNonce
    <2>. QED
      BY <2>1, <2>2, <2>3, <2>4, <2>5, IssueStep
  <1>2. CASE PruneNonces
    <2>1. \A n \in Nonce : nonces'[n] = nonces[n] \/ nonces'[n] = Absent
      BY <1>2, PruneFacts DEF PruneNonces, NonceInv, TypeOK
    <2>. QED
      BY <1>2, <2>1, ForgetStep DEF PruneNonces
  <1>3. CASE TogglePause \/ Tick \/ UNCHANGED vars
    BY <1>3, ForgetStep DEF TogglePause, Tick, vars
  <1>. QED
    BY <1>1, <1>2, <1>3, ArriveStep, ChargeStep, TakeStep, CheckStep, FailStep, LateStep
       DEF Next, Work, Step

-----------------------------------------------------------------------------
(* Every nonce goes through its life in order: `issue_nonce` draws it, one store
   call records it, one `take_if_valid` passes with it. *)
THEOREM NonceLife == Spec => []NonceInv
  <1>1. Init => NonceInv
    BY InitEstablishesInv
  <1>2. NonceInv /\ [Next]_vars => NonceInv'
    <2> SUFFICES ASSUME NonceInv, [Next]_vars PROVE NonceInv'
      OBVIOUS
    <2>1. TypeOK'
      BY TypeStep DEF NonceInv
    <2>2. Life'
      BY LifeStep
    <2>. QED
      BY <2>1, <2>2 DEF Life, NonceInv
  <1>. QED
    BY <1>1, <1>2, PTL DEF Spec

(* "A replay presents an already-used nonce and is rejected": `take_if_valid`
   answers "valid" at most once for a nonce, over all requests and all schedules. *)
THEOREM NonceIsSingleUse == Spec => []NonceAdmitsOnce
  BY NonceLife, PTL DEF NonceInv

-----------------------------------------------------------------------------
(* The pipeline: no request is further along than its evidence. *)

(* A request that does not move keeps what it has shown. *)
LEMMA OthersKeep ==
    ASSUME TypeOK, NEW s \in Request, Stage(s),
           pc'[s] = pc[s], head'[s] = head[s], nonce'[s] = nonce[s], sawOpen'[s] = sawOpen[s],
           blocked' = blocked, vouched \subseteq vouched',
           \A n \in Nonce : passed[n] \subseteq passed'[n]
    PROVE  Stage(s)'
  BY DEF Stage, PublicRead, Authorised

(* A request that ends without reaching the upstream has nothing to show. *)
LEMMA EndKeeps ==
    ASSUME TypeOK, NEW r \in Request, PipelineInv, NEW p \in Ended \ {"upstream", "redeem"}, Goto(r, p),
           UNCHANGED <<head, nonce, sawOpen, blocked, vouched, passed>>
    PROVE  PipelineInv'
  <1>1. pc'[r] = p /\ \A s \in Request \ {r} : pc'[s] = pc[s]
    BY DEF Goto, TypeOK
  <1>2. Stage(r)'
    BY <1>1 DEF Stage, InFlight, Charging, Ended
  <1>. QED
    BY <1>1, <1>2, OthersKeep DEF PipelineInv

LEMMA ArriveGuarded ==
    ASSUME TypeOK, PipelineInv, NEW r \in Request, NEW h \in Head, NEW n \in Nonce,
           NEW ok \in BOOLEAN, Arrive(r, h, n, ok)
    PROVE  PipelineInv'
  <1>1. /\ pc'[r] = Route(h) /\ head'[r] = h /\ sawOpen'[r] = ~blocked
        /\ \A s \in Request \ {r} : /\ pc'[s] = pc[s] /\ head'[s] = head[s]
                                    /\ nonce'[s] = nonce[s] /\ sawOpen'[s] = sawOpen[s]
        /\ UNCHANGED <<blocked, vouched, passed>>
    BY DEF Arrive, Goto, TypeOK, chain
  <1>2. /\ Route(h) \in {"508", "challenge", "public", "405", "401", "preauth"}
        /\ Route(h) = "public" => h.path = "public" /\ h.method \in {"GET", "HEAD"}
    BY DEF Route
  <1>3. Stage(r)'
    BY <1>1, <1>2 DEF Stage, PublicRead
  <1>. QED
    BY <1>1, <1>3, OthersKeep DEF PipelineInv

LEMMA ChargeGuarded ==
    ASSUME TypeOK, PipelineInv, NEW r \in Request, Charge(r)
    PROVE  PipelineInv'
  <1>1. /\ pc[r] \in Charging
        /\ pc'[r] \in {AfterCharge(r), "429", "503"}
        /\ \A s \in Request \ {r} : pc'[s] = pc[s] /\ nonce'[s] = nonce[s]
        /\ pc[r] # "challenge" => nonce'[r] = nonce[r]
        /\ UNCHANGED <<head, sawOpen, blocked, vouched, passed>>
    BY DEF Charge, Goto, TypeOK, chain, history
  <1>2. Stage(r)'
    <2>1. CASE pc[r] = "challenge"
      BY <1>1, <2>1 DEF AfterCharge, Stage, PipelineInv, InFlight
    <2>2. CASE pc[r] = "public"
      BY <1>1, <2>2 DEF AfterCharge, Stage, PipelineInv, PublicRead, InFlight, Charging
    <2>3. CASE pc[r] = "preauth"
      BY <1>1, <2>3 DEF AfterCharge, Stage, PipelineInv, InFlight
    <2>4. CASE pc[r] = "address"
      BY <1>1, <2>4 DEF AfterCharge, Stage, PipelineInv, Authorised, InFlight, Charging
    <2>. QED
      BY <1>1, <2>1, <2>2, <2>3, <2>4 DEF Charging
  <1>. QED
    BY <1>1, <1>2, OthersKeep DEF PipelineInv

LEMMA TakeGuarded ==
    ASSUME TypeOK, CallsHaveNonces, PipelineInv, NEW r \in Request, TakeNonce(r)
    PROVE  PipelineInv'
  <1>1. /\ pc[r] = "taking" /\ nonce[r] \in Nonce
        /\ \A s \in Request \ {r} : pc'[s] = pc[s]
        /\ \A n \in Nonce : passed[n] \subseteq passed'[n]
        /\ \/ pc'[r] = "403"
           \/ pc'[r] = "pause" /\ r \in passed'[nonce[r]]
        /\ UNCHANGED <<head, nonce, sawOpen, blocked, vouched>>
    BY DEF TakeNonce, Goto, TypeOK, chain, history, CallsHaveNonces
  <1>2. Stage(r)'
    BY <1>1 DEF Stage, PipelineInv, InFlight
  <1>. QED
    BY <1>1, <1>2, OthersKeep DEF PipelineInv

LEMMA CheckGuarded ==
    ASSUME TypeOK, PipelineInv, NEW r \in Request, CheckPause(r) \/ CheckChain(r)
    PROVE  PipelineInv'
  <1>1. /\ \A s \in Request \ {r} : pc'[s] = pc[s]
        /\ vouched \subseteq vouched'
        /\ \/ pc'[r] = "403"
           \/ pc[r] = "pause" /\ ~blocked /\ pc'[r] \in {"consume", "owns"}
           \/ pc[r] \in {"consume", "owns"} /\ pc'[r] = "address" /\ r \in vouched'
        /\ UNCHANGED <<head, nonce, sawOpen, blocked, passed>>
    BY DEF CheckPause, CheckChain, AfterPause, Goto, TypeOK, chain, history
  <1>2. Stage(r)'
    BY <1>1 DEF Stage, PipelineInv, InFlight, Charging
  <1>. QED
    BY <1>1, <1>2, OthersKeep DEF PipelineInv

LEMMA ToggleGuarded ==
    ASSUME TypeOK, PipelineInv, TogglePause
    PROVE  PipelineInv'
  <1> SUFFICES ASSUME NEW r \in Request PROVE Stage(r)'
    BY DEF PipelineInv
  <1>1. /\ sawOpen'[r] <=> (sawOpen[r] \/ (blocked /\ pc[r] \in InFlight))
        /\ blocked' = ~blocked
        /\ UNCHANGED <<pc, head, nonce, passed, vouched>>
    BY DEF TogglePause, TypeOK
  <1>. QED
    BY <1>1 DEF PipelineInv, Stage, PublicRead, Authorised

LEMMA PipelineStep ==
    ASSUME TypeOK, CallsHaveNonces, PipelineInv, [Next]_vars
    PROVE  PipelineInv'
  <1>1. ASSUME NEW r \in Request, IssueNonce(r) PROVE PipelineInv'
    <2>1. "issued" \in Ended \ {"upstream", "redeem"}
      BY DEF Ended
    <2>. QED
      BY <1>1, <2>1, EndKeeps DEF IssueNonce, chain, history
  <1>2. ASSUME NEW r \in Request, CallError(r) \/ Abandon(r) PROVE PipelineInv'
    <2>1. /\ \E p \in {"502", "503", "gone"} : Goto(r, p)
          /\ UNCHANGED <<head, nonce, sawOpen, blocked, vouched, passed>>
      BY <1>2 DEF CallError, Abandon, AfterError, chain, history
    <2>2. {"502", "503", "gone"} \subseteq Ended \ {"upstream", "redeem"}
      BY DEF Ended
    <2>. QED
      BY <2>1, <2>2, EndKeeps
  <1>3. CASE (\E call \in limbo : LateCall(call)) \/ PruneNonces \/ Tick \/ UNCHANGED vars
    <2>1. UNCHANGED <<pc, head, nonce, sawOpen, blocked, vouched, passed>>
      BY <1>3 DEF LateCall, PruneNonces, Tick, vars, chain, history
    <2>. QED
      BY <2>1 DEF PipelineInv, Stage, PublicRead, Authorised
  <1>. QED
    BY <1>1, <1>2, <1>3, ArriveGuarded, ChargeGuarded, TakeGuarded, CheckGuarded, ToggleGuarded
       DEF Next, Work, Step

(* `Gateway::handle` never lets a request past a check it has not made, whatever
   the other requests, the store and the gate do between its awaits. *)
THEOREM PipelineIsGuarded == Spec => []PipelineInv
  <1>1. Init => PipelineInv
    BY DEF Init, PipelineInv, Stage, InFlight, Charging
  <1>2. NonceInv /\ PipelineInv /\ [Next]_vars => PipelineInv'
    BY PipelineStep DEF NonceInv
  <1>. QED
    BY <1>1, <1>2, NonceLife, PTL DEF Spec

(* What `handle` forwards is a public read, or it took a live nonce, the chain
   vouched for it, and the gate was open at some moment since it arrived. *)
THEOREM UpstreamOnlyIfAuthorised == Spec => []UpstreamIsAuthorised
  <1>1. PipelineInv => UpstreamIsAuthorised
    BY DEF PipelineInv, Stage, UpstreamIsAuthorised
  <1>. QED
    BY <1>1, PipelineIsGuarded, PTL

-----------------------------------------------------------------------------
(* Nonces that were handed out. *)

Recorded == {n \in Nonce : recorded[n] # 0}

LEMMA CapFacts == Cap \in Nat /\ Cap > 0 /\ ChallengeTtl \in Nat /\ ChallengeTtl > 0
  BY GatewayTypes DEF Cap

(* What an issue removes before its time: a nonce that expires no later than any of a full table. *)
LEMMA IssueEvicts ==
    ASSUME NEW table \in [Nonce -> Nat], NEW n \in Nonce, NEW t \in Nat, NEW ttl \in Nat, ttl > 0,
           NEW max \in Nat, NEW tab \in Issue(table, n, t, ttl, max)
    PROVE  /\ tab[n] = t + ttl
           /\ \A v \in Nonce : table[v] > t /\ tab[v] = Absent =>
                 /\ v \in Held(Prune(table, t))
                 /\ ~(Cardinality(Held(Prune(table, t))) < max)
                 /\ \A m \in Held(Prune(table, t)) : table[v] <= table[m] /\ m \in Held(table)
  <1> DEFINE kept == Prune(table, t)
             room == IF Oldest(kept, max) = {} THEN {kept}
                     ELSE {[kept EXCEPT ![v] = Absent] : v \in Oldest(kept, max)}
  <1>1. /\ kept \in [Nonce -> Nat]
        /\ \A m \in Nonce : kept[m] = IF table[m] > t THEN table[m] ELSE Absent
    BY DEF Prune, Absent
  <1>2. PICK base \in room : tab = [base EXCEPT ![n] = t + ttl]
    BY DEF Issue
  <1>3. base \in [Nonce -> Nat] /\ (base = kept \/ \E v \in Oldest(kept, max) : base = [kept EXCEPT ![v] = Absent])
    <2> HIDE DEF kept
    <2>. QED
      BY <1>1, <1>2 DEF Absent
  <1>4. tab[n] = t + ttl /\ t + ttl # Absent
    BY <1>2, <1>3 DEF Absent
  <1>5. ASSUME NEW v \in Nonce, table[v] > t, tab[v] = Absent
        PROVE  v \in Oldest(kept, max)
    <2>1. v # n /\ base[v] = Absent
      BY <1>2, <1>3, <1>4, <1>5
    <2>2. kept[v] # Absent
      BY <1>1, <1>5 DEF Absent
    <2> HIDE DEF kept
    <2>. QED
      BY <1>1, <1>3, <2>1, <2>2
  <1>6. \A m \in Held(kept) : m \in Nonce /\ table[m] > t /\ kept[m] = table[m]
    BY <1>1 DEF Held
  <1> HIDE DEF kept
  <1>7. ASSUME NEW v \in Oldest(kept, max)
        PROVE  /\ v \in Held(kept) /\ ~(Cardinality(Held(kept)) < max)
               /\ \A m \in Held(kept) : kept[v] <= kept[m]
    BY <1>7 DEF Oldest
  <1>8. \A m \in Held(kept) : m \in Held(table)
    BY <1>6 DEF Held, Absent
  <1>. QED
    BY <1>4, <1>5, <1>6, <1>7, <1>8 DEF kept

(* A step of r that leaves the store alone. *)
LEMMA RecordFrame ==
    ASSUME NonceInv, RecordInv, NEW r \in Request, SoundTakers',
           UNCHANGED <<now, nonces, recorded>>, drawn \subseteq drawn',
           \A n \in Nonce : passed[n] # {} => passed'[n] # {},
           pc[r] \notin Ended, pc'[r] # "issued",
           \A s \in Request \ {r} :
               /\ pc'[s] = pc[s] /\ nonce'[s] = nonce[s] /\ sound'[s] = sound[s]
               /\ Issuing(s)' => Issuing(s),
           Issuing(r)' => recorded[nonce'[r]] = 0
    PROVE  RecordInv'
  <1>1. RecordedOnce'
    <2>1. ASSUME NEW s \in Request
          PROVE  /\ Issuing(s)' => recorded[nonce'[s]] = 0
                 /\ pc'[s] = "issued" => nonce'[s] \in Nonce /\ recorded[nonce'[s]] # 0
      BY DEF RecordInv, RecordedOnce
    <2>2. \A n \in Nonce \ drawn' : recorded[n] = 0
      BY DEF RecordInv, RecordedOnce
    <2>. QED
      BY <2>1, <2>2 DEF RecordInv, RecordedOnce
  <1>2. TableIsRecorded'
    BY DEF RecordInv, TableIsRecorded
  <1>3. ASSUME NEW n \in Nonce, TakenSoundly(n) PROVE TakenSoundly(n)'
    BY <1>3 DEF TakenSoundly, Ended
  <1>4. \A n \in Nonce : Displaced(n)' <=> Displaced(n)
    BY DEF Displaced
  <1>5. GoneForAReason'
    BY <1>3, <1>4 DEF RecordInv, GoneForAReason
  <1>. QED
    BY <1>1, <1>2, <1>5 DEF RecordInv

LEMMA RecordArrive ==
    ASSUME NonceInv, RecordInv, NEW r \in Request, NEW h \in Head, NEW n \in Nonce,
           NEW ok \in BOOLEAN, Arrive(r, h, n, ok)
    PROVE  RecordInv'
  <1>1. /\ pc[r] = "idle" /\ pc'[r] = Route(h)
        /\ \A s \in Request \ {r} : pc'[s] = pc[s] /\ nonce'[s] = nonce[s] /\ sound'[s] = sound[s]
        /\ UNCHANGED <<now, nonces, drawn, limbo, recorded, passed>>
    BY DEF Arrive, Goto, NonceInv, TypeOK
  <1>2. Route(h) \notin {"taking", "issuing", "issued", "503", "gone"}
    BY DEF Route
  <1>3. pc[r] \notin Ended /\ \A op \in {"issue", "take"} : Call(op, r) \notin limbo
    BY <1>1 DEF NonceInv, CallsHaveNonces, Ended
  <1>4. SoundTakers'
    BY <1>1, <1>2, <1>3 DEF RecordInv, SoundTakers
  <1>5. ~Issuing(r)' /\ \A s \in Request \ {r} : Issuing(s)' => Issuing(s)
    BY <1>1, <1>2, <1>3 DEF Issuing
  <1>. QED
    BY <1>1, <1>2, <1>3, <1>4, <1>5, RecordFrame

LEMMA RecordCharge ==
    ASSUME NonceInv, RecordInv, NEW r \in Request, Charge(r)
    PROVE  RecordInv'
  <1>1. /\ pc[r] \in Charging
        /\ UNCHANGED <<now, nonces, sound, limbo, recorded, passed>>
        /\ \A s \in Request \ {r} : pc'[s] = pc[s] /\ nonce'[s] = nonce[s]
        /\ pc'[r] \in {AfterCharge(r), "429", "503"}
    BY DEF Charge, Goto, NonceInv, TypeOK
  <1>2. pc[r] \notin Ended /\ \A op \in {"issue", "take"} : Call(op, r) \notin limbo
    BY <1>1 DEF NonceInv, CallsHaveNonces, Ended, Charging
  <1>3. /\ pc'[r] # "issued"
        /\ pc'[r] = "taking" => sound[r]
        /\ pc'[r] = "issuing" => pc[r] = "challenge"
    BY <1>1 DEF AfterCharge, Charging
  <1>4. /\ drawn \subseteq drawn'
        /\ pc'[r] = "issuing" => nonce'[r] \in Nonce \ drawn
    BY <1>1, <1>3 DEF Charge, Goto, NonceInv, TypeOK
  <1>5. SoundTakers'
    BY <1>1, <1>2, <1>3 DEF RecordInv, SoundTakers
  <1>6. Issuing(r)' => recorded[nonce'[r]] = 0
    BY <1>1, <1>2, <1>4 DEF Issuing, RecordInv, RecordedOnce
  <1>7. \A s \in Request \ {r} : Issuing(s)' => Issuing(s)
    BY <1>1 DEF Issuing
  <1>. QED
    BY <1>1, <1>2, <1>3, <1>4, <1>5, <1>6, <1>7, RecordFrame

LEMMA RecordCheck ==
    ASSUME NonceInv, RecordInv, NEW r \in Request, CheckPause(r) \/ CheckChain(r)
    PROVE  RecordInv'
  <1>1. /\ pc[r] \in {"pause", "consume", "owns"} /\ pc'[r] \in {"403", "consume", "owns", "address"}
        /\ \A s \in Request \ {r} : pc'[s] = pc[s]
        /\ UNCHANGED <<now, nonces, drawn, nonce, sound, limbo, recorded, passed>>
    BY DEF CheckPause, CheckChain, AfterPause, Goto, NonceInv, TypeOK
  <1>2. pc[r] \notin Ended /\ \A op \in {"issue", "take"} : Call(op, r) \notin limbo
    BY <1>1 DEF NonceInv, CallsHaveNonces, Ended
  <1>3. SoundTakers'
    BY <1>1, <1>2 DEF RecordInv, SoundTakers
  <1>4. ~Issuing(r)' /\ \A s \in Request \ {r} : Issuing(s)' => Issuing(s)
    BY <1>1, <1>2 DEF Issuing
  <1>. QED
    BY <1>1, <1>2, <1>3, <1>4, RecordFrame

LEMMA RecordFail ==
    ASSUME NonceInv, RecordInv, NEW r \in Request, CallError(r) \/ Abandon(r)
    PROVE  RecordInv'
  <1>1. /\ pc[r] \in InFlight /\ Orphan(r) /\ pc'[r] \in {"502", "503", "gone"}
        /\ pc[r] = "taking" => pc'[r] \in {"503", "gone"}
        /\ \A s \in Request \ {r} : pc'[s] = pc[s]
        /\ UNCHANGED <<now, nonces, drawn, nonce, sound, recorded, passed>>
    BY DEF CallError, Abandon, AfterError, Goto, NonceInv, TypeOK
  <1>2. pc[r] \notin Ended /\ \A op \in {"issue", "take"} : Call(op, r) \notin limbo
    BY <1>1 DEF NonceInv, CallsHaveNonces, Ended, InFlight, Charging
  <1>3. \A s \in Request, op \in {"issue", "take"} :
           Call(op, s) \in limbo' =>
              \/ Call(op, s) \in limbo
              \/ s = r /\ op = "issue" /\ pc[r] = "issuing"
              \/ s = r /\ op = "take" /\ pc[r] = "taking"
    BY <1>1, OrphanFacts DEF NonceInv
  <1>4. SoundTakers'
    BY <1>1, <1>2, <1>3 DEF RecordInv, SoundTakers
  <1>5. \A s \in Request : Issuing(s)' => Issuing(s)
    BY <1>1, <1>3 DEF Issuing
  <1>6. Issuing(r)' => recorded[nonce'[r]] = 0
    BY <1>1, <1>5 DEF RecordInv, RecordedOnce
  <1>. QED
    BY <1>1, <1>2, <1>4, <1>5, <1>6, RecordFrame

(* The store applies an issue: what it displaces is older than a full table. *)
LEMMA RecordIssue ==
    ASSUME NonceInv, RecordInv, NEW r \in Request, nonce[r] \in Nonce, Issuing(r), ApplyIssue(r),
           SoundTakers', UNCHANGED <<now, drawn, nonce, sound, passed>>,
           \A s \in Request : Issuing(s)' => s # r /\ Issuing(s),
           \A s \in Request \ {r} : pc'[s] = pc[s],
           pc'[r] = pc[r] \/ (pc[r] = "issuing" /\ pc'[r] = "issued")
    PROVE  RecordInv'
  <1> DEFINE n == nonce[r]
             new == now + ChallengeTtl
  <1>1. /\ n \in Nonce /\ now \in Nat /\ new \in Nat /\ new > now /\ new # 0
        /\ nonces \in [Nonce -> Nat] /\ recorded \in [Nonce -> Nat]
        /\ \A m \in Nonce : recorded[m] <= new
    BY CapFacts DEF NonceInv, TypeOK, RecordInv, TableIsRecorded
  <1>2. recorded' \in [Nonce -> Nat] /\ recorded'[n] = new /\ \A m \in Nonce \ {n} : recorded'[m] = recorded[m]
    BY <1>1 DEF ApplyIssue
  <1>3. /\ nonces' \in [Nonce -> Nat] /\ nonces'[n] = new
        /\ \A m \in Nonce \ {n} : nonces'[m] = nonces[m] \/ nonces'[m] = Absent
        /\ \A v \in Nonce : nonces[v] > now /\ nonces'[v] = Absent =>
              /\ v \in Held(Prune(nonces, now))
              /\ ~(Cardinality(Held(Prune(nonces, now))) < Cap)
              /\ \A m \in Held(Prune(nonces, now)) : nonces[v] <= nonces[m] /\ m \in Held(nonces)
    BY <1>1, CapFacts, IssueFacts, IssueEvicts DEF ApplyIssue
  <1>4. n \in drawn /\ nonces[n] = Absent /\ recorded[n] = 0
    BY DEF NonceInv, IssueComesFirst, RecordInv, RecordedOnce
  <1>5. IsFiniteSet(Recorded) /\ Recorded' = Recorded \cup {n} /\ n \notin Recorded /\ IsFiniteSet(Recorded')
    <2>1. IsFiniteSet(Recorded)
      BY DEF RecordInv, RecordedOnce, Recorded
    <2>2. Recorded' = Recorded \cup {n} /\ n \notin Recorded
      BY <1>1, <1>2, <1>4 DEF Recorded
    <2>. QED
      BY <2>1, <2>2, FS_AddElement
  <1>6. RecordedOnce'
    <2>1. ASSUME NEW s \in Request
          PROVE  /\ Issuing(s)' => recorded'[nonce'[s]] = 0
                 /\ pc'[s] = "issued" => nonce'[s] \in Nonce /\ recorded'[nonce'[s]] # 0
      <3>1. ASSUME Issuing(s)' PROVE recorded'[nonce'[s]] = 0
        <4>1. Issuing(s) /\ s # r
          BY <3>1
        <4>2. nonce[s] \in Nonce /\ nonce[s] # n
          BY <4>1 DEF NonceInv, OneIssuePerNonce, CallsHaveNonces, Issuing
        <4>. QED
          BY <1>2, <4>1, <4>2 DEF RecordInv, RecordedOnce
      <3>2. ASSUME pc'[s] = "issued" PROVE nonce'[s] \in Nonce /\ recorded'[nonce'[s]] # 0
        <4>1. CASE s = r
          BY <1>1, <1>2, <4>1
        <4>2. CASE s # r
          <5>1. nonce[s] \in Nonce /\ recorded[nonce[s]] # 0
            BY <3>2, <4>2 DEF RecordInv, RecordedOnce
          <5>. QED
            BY <1>1, <1>2, <5>1
        <4>. QED
          BY <4>1, <4>2
      <3>. QED
        BY <3>1, <3>2
    <2>2. \A m \in Nonce \ drawn' : recorded'[m] = 0
      BY <1>2, <1>4 DEF RecordInv, RecordedOnce
    <2>3. IsFiniteSet({m \in Nonce : recorded'[m] # 0})
      BY <1>5 DEF Recorded
    <2>. QED
      BY <2>1, <2>2, <2>3 DEF RecordedOnce
  <1>7. TableIsRecorded'
    <2> SUFFICES ASSUME NEW m \in Nonce
                 PROVE  nonces'[m] \in {Absent, recorded'[m]} /\ recorded'[m] <= now + ChallengeTtl
      BY DEF TableIsRecorded
    <2>1. CASE m = n
      BY <1>1, <1>2, <1>3, <2>1
    <2>2. CASE m # n
      BY <1>1, <1>2, <1>3, <2>2 DEF RecordInv, TableIsRecorded
    <2>. QED
      BY <2>1, <2>2
  <1>8. ASSUME NEW m \in Nonce, TakenSoundly(m) PROVE TakenSoundly(m)'
    <2>1. \A s \in Request : pc[s] \in {"503", "gone"} => pc'[s] = pc[s]
      OBVIOUS
    <2>. QED
      BY <1>8, <2>1 DEF TakenSoundly
  <1>9. ASSUME NEW v \in Nonce, v # n, recorded[v] # 0,
               NEW S \in SUBSET (Nonce \ {v}), ~(Cardinality(S) < Cap), IsFiniteSet(S),
               \A m \in S : recorded'[m] >= recorded'[v]
        PROVE  Displaced(v)'
    <2> DEFINE fresh == {m \in Nonce \ {v} : recorded'[m] >= recorded'[v]}
    <2>1. S \subseteq fresh
      BY <1>9
    <2>2. fresh \subseteq Recorded'
      BY <1>1, <1>2, <1>9 DEF Recorded
    <2>3. IsFiniteSet(fresh) /\ Cardinality(fresh) \in Nat /\ Cardinality(S) \in Nat
          /\ Cardinality(S) <= Cardinality(fresh)
      BY <1>5, <1>9, <2>1, <2>2, FS_Subset, FS_CardinalityType
    <2>. QED
      BY <1>9, <2>3, CapFacts DEF Displaced, Cap
  <1>10. GoneForAReason'
    <2> SUFFICES ASSUME NEW v \in Nonce, recorded'[v] > now, nonces'[v] = Absent
                 PROVE  TakenSoundly(v)' \/ Displaced(v)'
      BY DEF GoneForAReason
    <2>1. v # n /\ recorded'[v] = recorded[v] /\ recorded[v] # 0
      BY <1>1, <1>2, <1>3 DEF Absent
    <2>2. CASE nonces[v] = Absent
      <3>1. CASE TakenSoundly(v)
        BY <1>8, <3>1
      <3>2. CASE Displaced(v)
        <4> DEFINE S == {m \in Nonce \ {v} : recorded[m] >= recorded[v]}
        <4>1. S \subseteq Recorded
          BY <1>1, <2>1 DEF Recorded
        <4>2. IsFiniteSet(S) /\ Cardinality(S) \in Nat
          BY <1>5, <4>1, FS_Subset, FS_CardinalityType
        <4>3. ~(Cardinality(S) < Cap)
          BY <3>2, <4>2, CapFacts DEF Displaced
        <4>4. \A m \in S : recorded'[m] >= recorded'[v]
          BY <1>1, <1>2, <2>1
        <4>. QED
          BY <1>9, <2>1, <4>2, <4>3, <4>4
      <3>. QED
        BY <2>1, <2>2, <3>1, <3>2 DEF RecordInv, GoneForAReason
    <2>3. CASE nonces[v] # Absent
      <3> DEFINE full == Held(Prune(nonces, now))
                 S == (full \ {v}) \cup {n}
      <3>1. nonces[v] = recorded[v]
        BY <2>3 DEF RecordInv, TableIsRecorded
      <3>2. /\ v \in full /\ ~(Cardinality(full) < Cap)
            /\ \A m \in full : nonces[v] <= nonces[m] /\ m \in Held(nonces)
        BY <1>3, <2>1, <3>1
      <3>3. \A m \in full : m \in Nonce /\ m # n /\ nonces[m] = recorded[m] /\ m \in Recorded
        <4>1. ASSUME NEW m \in full PROVE m \in Nonce /\ nonces[m] # Absent
          BY <1>1, <3>2, <4>1 DEF Held
        <4>. QED
          BY <1>4, <4>1 DEF RecordInv, TableIsRecorded, Recorded, Absent
      <3>4. IsFiniteSet(full) /\ Cardinality(full) \in Nat
        BY <1>5, <3>3, FS_Subset, FS_CardinalityType
      <3>5. IsFiniteSet(full \ {v}) /\ Cardinality(full \ {v}) = Cardinality(full) - 1 /\ n \notin full \ {v}
        BY <3>2, <3>3, <3>4, FS_RemoveElement
      <3>6. IsFiniteSet(S) /\ Cardinality(S) = Cardinality(full)
        <4>1. IsFiniteSet(S) /\ Cardinality(S) = Cardinality(full \ {v}) + 1
          BY <3>5, FS_AddElement
        <4>. QED
          BY <3>4, <3>5, <4>1
      <3>7. S \in SUBSET (Nonce \ {v})
        BY <1>1, <2>1, <3>3
      <3>8. \A m \in S : recorded'[m] >= recorded'[v]
        <4> SUFFICES ASSUME NEW m \in S PROVE recorded'[m] >= recorded'[v]
          OBVIOUS
        <4>1. CASE m = n
          BY <1>1, <1>2, <2>1, <4>1
        <4>2. CASE m # n
          <5>1. m \in full
            BY <4>2
          <5>2. recorded'[m] = recorded[m] /\ nonces[m] = recorded[m] /\ nonces[v] <= nonces[m]
            BY <1>2, <3>2, <3>3, <4>2, <5>1
          <5>. QED
            BY <1>1, <2>1, <3>1, <3>3, <5>1, <5>2
        <4>. QED
          BY <4>1, <4>2
      <3> HIDE DEF S
      <3>9. ~(Cardinality(S) < Cap)
        BY <3>2, <3>6
      <3>. QED
        BY <1>9, <2>1, <3>6, <3>7, <3>8, <3>9
    <2>. QED
      BY <2>2, <2>3
  <1>. QED
    BY <1>6, <1>7, <1>10 DEF RecordInv

(* A step that records nothing: what leaves the table had expired, or a sound proof took it. *)
LEMMA RecordShrink ==
    ASSUME NonceInv, RecordInv, SoundTakers', now' \in Nat, now' >= now,
           UNCHANGED <<drawn, nonce, sound, recorded>>,
           \A s \in Request :
               /\ Issuing(s)' => Issuing(s)
               /\ pc'[s] = "issued" => pc[s] = "issued"
               /\ pc[s] \in {"503", "gone"} => pc'[s] = pc[s],
           \A n \in Nonce : passed[n] # {} => passed'[n] # {},
           \A n \in Nonce :
               \/ nonces'[n] = nonces[n]
               \/ nonces'[n] = Absent /\ (nonces[n] > now' => TakenSoundly(n)')
    PROVE  RecordInv'
  <1>1. /\ now \in Nat /\ ChallengeTtl \in Nat
        /\ nonces \in [Nonce -> Nat] /\ recorded \in [Nonce -> Nat]
    BY CapFacts DEF NonceInv, TypeOK
  <1>2. RecordedOnce'
    BY DEF RecordInv, RecordedOnce
  <1>3. TableIsRecorded'
    <2> SUFFICES ASSUME NEW n \in Nonce
                 PROVE  nonces'[n] \in {Absent, recorded[n]} /\ recorded[n] <= now' + ChallengeTtl
      BY DEF TableIsRecorded
    <2>1. nonces[n] \in {Absent, recorded[n]} /\ recorded[n] <= now + ChallengeTtl
      BY DEF RecordInv, TableIsRecorded
    <2>2. recorded[n] \in Nat
      BY <1>1
    <2>. QED
      BY <1>1, <2>1, <2>2
  <1>4. GoneForAReason'
    <2> SUFFICES ASSUME NEW n \in Nonce, recorded[n] > now', nonces'[n] = Absent
                 PROVE  TakenSoundly(n)' \/ Displaced(n)'
      BY DEF GoneForAReason
    <2>1. TakenSoundly(n) => TakenSoundly(n)'
      BY DEF TakenSoundly
    <2>2. Displaced(n) => Displaced(n)'
      BY DEF Displaced
    <2>3. recorded[n] \in Nat /\ recorded[n] > now
      BY <1>1
    <2>4. CASE nonces[n] = Absent
      BY <2>1, <2>2, <2>3, <2>4 DEF RecordInv, GoneForAReason
    <2>5. CASE nonces[n] # Absent
      <3>1. nonces[n] = recorded[n]
        BY <2>5 DEF RecordInv, TableIsRecorded
      <3>. QED
        BY <2>5, <3>1
    <2>. QED
      BY <2>4, <2>5
  <1>. QED
    BY <1>2, <1>3, <1>4 DEF RecordInv

LEMMA RecordTake ==
    ASSUME NonceInv, RecordInv, NEW r \in Request, TakeNonce(r)
    PROVE  RecordInv'
  <1>1. /\ pc[r] = "taking" /\ nonce[r] \in Nonce
        /\ nonces' = [nonces EXCEPT ![nonce[r]] = Absent]
        /\ pc'[r] \in {"pause", "403"}
        /\ \A s \in Request \ {r} : pc'[s] = pc[s]
        /\ UNCHANGED <<now, drawn, nonce, sound, recorded, limbo>>
    BY DEF TakeNonce, ApplyTake, Take, Goto, NonceInv, TypeOK, CallsHaveNonces
  <1>2. \A n \in Nonce : passed[n] # {} => passed'[n] # {}
    BY <1>1 DEF TakeNonce, NonceInv, TypeOK
  <1>3. nonces[nonce[r]] > now => passed'[nonce[r]] # {}
    BY <1>1 DEF TakeNonce, Alive, NonceInv, TypeOK
  <1>4. \A op \in {"issue", "take"} : Call(op, r) \notin limbo
    BY <1>1 DEF NonceInv, CallsHaveNonces, Ended
  <1>5. SoundTakers'
    BY <1>1, <1>4 DEF RecordInv, SoundTakers
  <1>6. \A s \in Request :
           /\ Issuing(s)' => Issuing(s)
           /\ pc'[s] = "issued" => pc[s] = "issued"
           /\ pc[s] \in {"503", "gone"} => pc'[s] = pc[s]
    BY <1>1 DEF Issuing
  <1>7. \A n \in Nonce : \/ nonces'[n] = nonces[n]
                         \/ nonces'[n] = Absent /\ (nonces[n] > now' => TakenSoundly(n)')
    BY <1>1, <1>3 DEF TakenSoundly, NonceInv, TypeOK
  <1>8. now' \in Nat /\ now' >= now
    BY <1>1 DEF NonceInv, TypeOK
  <1>. QED
    BY <1>1, <1>2, <1>5, <1>6, <1>7, <1>8, RecordShrink

(* A late take was sent by a sound proof whose caller is gone or was told 503. *)
LEMMA RecordLate ==
    ASSUME NonceInv, RecordInv, NEW call \in limbo, LateCall(call)
    PROVE  RecordInv'
  <1>1. /\ call = Call(call.op, call.req) /\ call.req \in Request
        /\ call.op \in {"issue", "take"}
    BY DEF NonceInv, TypeOK, Call
  <1>2. PICK r \in Request, op \in {"issue", "take"} : call = Call(op, r)
    BY <1>1
  <1>3. /\ call.op = op /\ call.req = r
        /\ nonce[r] \in Nonce /\ pc[r] \in Ended
        /\ limbo' = limbo \ {Call(op, r)}
        /\ UNCHANGED <<now, drawn, pc, nonce, sound, passed>>
    BY <1>2 DEF LateCall, Call, NonceInv, CallsHaveNonces
  <1>4. SoundTakers'
    BY <1>3 DEF RecordInv, SoundTakers
  <1>5. \A s \in Request : Issuing(s)' => Issuing(s)
    BY <1>3 DEF Issuing
  <1>6. CASE op = "issue"
    <2>1. ApplyIssue(r) /\ Issuing(r)
      BY <1>2, <1>3, <1>6 DEF LateCall, Issuing
    <2>2. ~Issuing(r)'
      BY <1>3, <1>6 DEF Issuing, Ended
    <2>. QED
      BY <1>3, <1>4, <1>5, <2>1, <2>2, RecordIssue
  <1>7. CASE op = "take"
    <2>1. nonces' = [nonces EXCEPT ![nonce[r]] = Absent] /\ recorded' = recorded
      BY <1>3, <1>7 DEF LateCall, ApplyTake, Take
    <2>2. sound[r] /\ pc[r] \in {"503", "gone"}
      BY <1>2, <1>7 DEF RecordInv, SoundTakers
    <2>3. TakenSoundly(nonce[r])'
      BY <1>3, <2>2 DEF TakenSoundly
    <2>4. \A n \in Nonce : \/ nonces'[n] = nonces[n]
                           \/ nonces'[n] = Absent /\ (nonces[n] > now' => TakenSoundly(n)')
      BY <1>3, <2>1, <2>3 DEF NonceInv, TypeOK
    <2>5. now' \in Nat /\ now' >= now
      BY <1>3 DEF NonceInv, TypeOK
    <2>. QED
      BY <1>3, <1>4, <1>5, <2>1, <2>4, <2>5, RecordShrink
  <1>. QED
    BY <1>6, <1>7

LEMMA RecordIssueNonce ==
    ASSUME NonceInv, RecordInv, NEW r \in Request, IssueNonce(r)
    PROVE  RecordInv'
  <1>1. /\ pc[r] = "issuing" /\ nonce[r] \in Nonce /\ ApplyIssue(r) /\ Issuing(r)
        /\ pc'[r] = "issued" /\ \A s \in Request \ {r} : pc'[s] = pc[s]
        /\ UNCHANGED <<now, drawn, nonce, sound, limbo, passed>>
    BY DEF IssueNonce, Goto, Issuing, NonceInv, TypeOK, CallsHaveNonces
  <1>2. \A op \in {"issue", "take"} : Call(op, r) \notin limbo
    BY <1>1 DEF NonceInv, CallsHaveNonces, Ended
  <1>3. SoundTakers'
    BY <1>1, <1>2 DEF RecordInv, SoundTakers
  <1>4. \A s \in Request : Issuing(s)' => s # r /\ Issuing(s)
    BY <1>1, <1>2 DEF Issuing
  <1>. QED
    BY <1>1, <1>3, <1>4, RecordIssue

LEMMA RecordStep ==
    ASSUME NonceInv, RecordInv, [Next]_vars
    PROVE  RecordInv'
  <1>1. CASE PruneNonces \/ TogglePause \/ Tick \/ UNCHANGED vars
    <2>1. /\ UNCHANGED <<drawn, pc, nonce, sound, limbo, recorded, passed>>
          /\ now' \in Nat /\ now' >= now
      BY <1>1 DEF PruneNonces, TogglePause, Tick, vars, NonceInv, TypeOK
    <2>2. SoundTakers' /\ \A s \in Request : Issuing(s)' => Issuing(s)
      BY <2>1 DEF RecordInv, SoundTakers, Issuing
    <2>3. \A n \in Nonce : \/ nonces'[n] = nonces[n]
                           \/ nonces'[n] = Absent /\ ~(nonces[n] > now')
      BY <1>1 DEF PruneNonces, TogglePause, Tick, vars, NonceInv, TypeOK, Prune, Absent
    <2>. QED
      BY <2>1, <2>2, <2>3, RecordShrink
  <1>. QED
    BY <1>1, RecordArrive, RecordCharge, RecordCheck, RecordFail, RecordTake, RecordLate,
       RecordIssueNonce DEF Next, Work, Step

(* The record of the store is kept: a nonce is recorded once, before its caller is
   told, stays in the table with that expiry, and leaves early only for a reason. *)
THEOREM RecordsAreKept == Spec => []RecordInv
  <1>1. Init => RecordInv
    <2> SUFFICES ASSUME Init PROVE RecordInv
      OBVIOUS
    <2>1. {n \in Nonce : recorded[n] # 0} = {}
      BY DEF Init
    <2>2. IsFiniteSet({n \in Nonce : recorded[n] # 0})
      BY <2>1, FS_EmptySet
    <2>3. RecordedOnce
      BY <2>2 DEF Init, RecordedOnce, Issuing
    <2>4. SoundTakers
      BY DEF Init, SoundTakers
    <2>5. TableIsRecorded /\ GoneForAReason
      BY CapFacts DEF Init, TableIsRecorded, GoneForAReason, Absent
    <2>. QED
      BY <2>3, <2>4, <2>5 DEF RecordInv
  <1>2. NonceInv /\ RecordInv /\ [Next]_vars => RecordInv'
    BY RecordStep
  <1>. QED
    BY <1>1, <1>2, NonceLife, PTL DEF Spec

(* A nonce the challenge route handed out verifies until the expiry the client was
   told, unless a sound proof took it or a full table of nonces as fresh displaced it. *)
THEOREM HandedOutNoncesWork == Spec => []HandedOutNonceWorks
  <1>1. RecordInv => HandedOutNonceWorks
    <2> SUFFICES ASSUME RecordInv, NEW r \in Request, pc[r] = "issued"
                 PROVE  /\ recorded[nonce[r]] # 0
                        /\ recorded[nonce[r]] > now /\ nonces[nonce[r]] = Absent =>
                              TakenSoundly(nonce[r]) \/ Displaced(nonce[r])
      BY DEF HandedOutNonceWorks
    <2>1. nonce[r] \in Nonce /\ recorded[nonce[r]] # 0
      BY DEF RecordInv, RecordedOnce
    <2>. QED
      BY <2>1 DEF RecordInv, GoneForAReason
  <1>. QED
    BY <1>1, RecordsAreKept, PTL

-----------------------------------------------------------------------------
(* Who may burn a live nonce. *)

Burns(n) == Alive(nonces, n, now) /\ nonces'[n] = Absent

TakerOf(n) ==
    \E r \in Request : nonce[r] = n /\ sound[r] /\ (pc[r] = "taking" \/ Call("take", r) \in limbo)

(* The store applies an issue: it burns a live nonce only when the table is full. *)
LEMMA IssueBurns ==
    ASSUME NonceInv, RecordInv, NEW r \in Request, Issuing(r), ApplyIssue(r),
           NEW n \in Nonce, Burns(n)
    PROVE  recorded' # recorded /\ Cardinality(Held(nonces)) >= Cap
  <1>1. /\ nonce[r] \in Nonce /\ recorded[nonce[r]] = 0
    BY DEF NonceInv, CallsHaveNonces, Issuing, RecordInv, RecordedOnce
  <1>2. /\ now \in Nat /\ nonces \in [Nonce -> Nat] /\ recorded \in [Nonce -> Nat]
        /\ now + ChallengeTtl # 0
    BY CapFacts DEF NonceInv, TypeOK
  <1>3. recorded' # recorded
    BY <1>1, <1>2 DEF ApplyIssue
  <1> DEFINE full == Held(Prune(nonces, now))
  <1>4. /\ ~(Cardinality(full) < Cap)
        /\ \A m \in full : m \in Held(nonces)
    BY <1>1, <1>2, CapFacts, IssueEvicts DEF ApplyIssue, Burns, Alive
  <1>5. Held(nonces) \subseteq Recorded
    BY <1>2 DEF RecordInv, TableIsRecorded, Recorded, Held, Absent
  <1>6. IsFiniteSet(Recorded)
    BY DEF RecordInv, RecordedOnce, Recorded
  <1>7. IsFiniteSet(Held(nonces))
    BY <1>5, <1>6, FS_Subset
  <1> HIDE DEF full
  <1>8. /\ Cardinality(full) \in Nat /\ Cardinality(Held(nonces)) \in Nat
        /\ Cardinality(full) <= Cardinality(Held(nonces))
    BY <1>4, <1>7, FS_Subset, FS_CardinalityType
  <1>. QED
    BY <1>3, <1>4, <1>8, CapFacts

LEMMA StepBurns ==
    ASSUME NonceInv, RecordInv, [Next]_vars, NEW n \in Nonce, Burns(n)
    PROVE  TakerOf(n) \/ (recorded' # recorded /\ Cardinality(Held(nonces)) >= Cap)
  <1>1. nonces[n] > now /\ nonces'[n] # nonces[n] /\ now \in Nat /\ nonces \in [Nonce -> Nat]
    BY DEF Burns, Alive, Absent, NonceInv, TypeOK
  <1>2. ~PruneNonces
    BY <1>1 DEF PruneNonces, Prune
  <1>3. nonces' # nonces
    BY <1>1
  <1>4. CASE \E r \in Request : IssueNonce(r)
    BY <1>4, IssueBurns DEF IssueNonce, Issuing
  <1>5. CASE \E r \in Request : TakeNonce(r)
    <2>1. PICK r \in Request : TakeNonce(r)
      BY <1>5
    <2>2. nonce[r] = n /\ pc[r] = "taking"
      BY <1>1, <2>1 DEF TakeNonce, ApplyTake, Take
    <2>3. sound[r]
      BY <2>2 DEF RecordInv, SoundTakers
    <2>. QED
      BY <2>2, <2>3 DEF TakerOf
  <1>6. CASE \E call \in limbo : LateCall(call)
    <2>1. PICK call \in limbo : LateCall(call)
      BY <1>6
    <2>2. call = Call(call.op, call.req) /\ call.req \in Request
      BY DEF NonceInv, TypeOK, Call
    <2>3. CASE call.op = "issue" /\ ApplyIssue(call.req)
      BY <2>2, <2>3, IssueBurns DEF Issuing
    <2>4. CASE call.op = "take" /\ ApplyTake(call.req)
      <3>1. nonce[call.req] = n
        BY <1>1, <2>4 DEF ApplyTake, Take
      <3>2. Call("take", call.req) \in limbo
        BY <2>2, <2>4
      <3>3. sound[call.req]
        BY <2>2, <3>2 DEF RecordInv, SoundTakers
      <3>. QED
        BY <2>2, <3>1, <3>2, <3>3 DEF TakerOf
    <2>. QED
      BY <2>1, <2>3, <2>4 DEF LateCall
  <1>7. CASE ~((\E r \in Request : IssueNonce(r) \/ TakeNonce(r)) \/ \E call \in limbo : LateCall(call))
    <2>1. nonces' = nonces
      BY <1>2, <1>7 DEF Next, Work, Step, Arrive, Charge, CheckPause, CheckChain, CallError, Abandon,
                        TogglePause, Tick, vars
    <2>. QED
      BY <1>3, <2>1
  <1>. QED
    BY <1>4, <1>5, <1>6, <1>7

(* The store gives a live nonce up to a proof whose signature verifies, heard or
   unheard, or to make room in a full table; nothing else burns it. *)
THEOREM OnlySoundProofsBurn == Spec => OnlySoundProofBurnsNonce
  <1>1. NonceInv /\ RecordInv /\ [Next]_vars =>
           [\A n \in Nonce :
               Alive(nonces, n, now) /\ nonces'[n] = Absent =>
                   \/ \E r \in Request : nonce[r] = n /\ sound[r]
                         /\ (pc[r] = "taking" \/ Call("take", r) \in limbo)
                   \/ recorded' # recorded /\ Cardinality(Held(nonces)) >= Cap]_vars
    BY StepBurns DEF Burns, TakerOf
  <1>. QED
    BY <1>1, NonceLife, RecordsAreKept, PTL DEF Spec, OnlySoundProofBurnsNonce
(* The three together: through every branch of `handle`, in either mode, nobody is ahead of
   what it has shown, and no nonce ahead of its life. *)
THEOREM NobodyIsAhead == Spec => []NobodyAheadOfEvidence
  BY NonceLife, RecordsAreKept, PipelineIsGuarded, PTL DEF NobodyAheadOfEvidence

=============================================================================
