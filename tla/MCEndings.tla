------------------------------- MODULE MCEndings -------------------------------
(***************************************************************************)
(* What must end: redemptions, the server after a signal, one forwarded    *)
(* request, and the helpers around a deployment.  The four share nothing;  *)
(* `part` says which one a behaviour is about, and the others stay in an   *)
(* initial state.                                                          *)
(***************************************************************************)
EXTENDS Server

CONSTANTS
    NoToken, r1, r2, c1,                                \* of Redemption
    Platforms, MaxBody, BodyTimeout, UpstreamTimeout,   \* of Forwarding
    MaxChanges, MaxRuns                                 \* of OriginLock

VARIABLES part,
    now, stamp, rows, pc, key, due, limbo, winners, paidAt,
    plat, req, stage, time, timer, got, cut, sent, exceeded, reply, answer,
    secret, checkUrl, accepted, guarded, changes, step, runs, probed, versions, live,
    probe, try, failures, inconclusive, met, verdict

redVars == <<now, stamp, rows, pc, key, due, limbo, winners, paidAt>>
fwdVars == <<plat, req, stage, time, timer, got, cut, sent, exceeded, reply, answer>>
lckVars == <<secret, checkUrl, accepted, guarded, changes, step, runs, probed, versions, live,
             probe, try, failures, inconclusive, met, verdict>>
allVars == <<part, vars, redVars, fwdVars, lckVars>>

(* Two requests with one consume, a store that loses calls. *)
Red == INSTANCE Redemption WITH
    Request <- {r1, r2}, Consume <- {c1}, LeaseTtl <- 4, Retention <- 4, MaxAge <- 1, Skew <- 1,
    ForwardMax <- 1, CallMax <- 1, LeaseGap <- 1, MaxEntries <- 2, Unreliable <- TRUE,
    Stamps <- {1}, LastArrival <- 3, LastLate <- 6, MaxTime <- 11

Fwd == INSTANCE Forwarding WITH phase <- stage

Lck == INSTANCE OriginLock WITH attempt <- try

ASSUME EndingConstants == ServerConstants /\ Red!ConfigValid /\ Fwd!ForwardConstants /\ Lck!LockConstants

PartsInit ==
    /\ part \in {"redemption", "server", "forwarding", "lock"}
    /\ Init /\ Red!Init
    /\ Fwd!Init /\ (part # "forwarding" => plat = "native" /\ req = CHOOSE r \in Fwd!Exchange : TRUE)
    /\ Lck!Init /\ (part # "lock" => secret = CHOOSE s \in Lck!Secrets : TRUE)
    /\ part # "lock" => checkUrl /\ accepted /\ guarded = {}

Redeeming(A) == part = "redemption" /\ A /\ UNCHANGED <<part, vars, fwdVars, lckVars>>
AtServer(A) == part = "server" /\ A /\ UNCHANGED <<part, redVars, fwdVars, lckVars>>
Forwarding(A) == part = "forwarding" /\ A /\ UNCHANGED <<part, vars, redVars, lckVars>>
Locking(A) == part = "lock" /\ A /\ UNCHANGED <<part, vars, redVars, fwdVars>>

PartsNext == Redeeming(Red!Next) \/ AtServer(Next) \/ Forwarding(Fwd!Next) \/ Locking(Lck!Next)

(* The fairness of Redemption's FairSpec and of each module's Spec, for the part that runs. *)
Fairness ==
    /\ WF_allVars(Redeeming(Red!Tick)) /\ \A r \in {r1, r2} : WF_allVars(Redeeming(Red!Answer(r)))
    /\ WF_allVars(AtServer(NoticeSignal)) /\ WF_allVars(AtServer(Tick)) /\ WF_allVars(AtServer(Exit))
    /\ WF_allVars(Forwarding(Fwd!Refuse)) /\ WF_allVars(Forwarding(Fwd!Begin))
    /\ WF_allVars(Forwarding(Fwd!BodyRead)) /\ WF_allVars(Forwarding(Fwd!BodyTooLarge))
    /\ WF_allVars(Forwarding(Fwd!BodyTimedOut)) /\ WF_allVars(Forwarding(Fwd!Resume))
    /\ WF_allVars(Forwarding(Fwd!Tick)) /\ WF_allVars(Forwarding(Fwd!Overdue))
    /\ WF_allVars(Locking(Lck!StartLockCheck)) /\ WF_allVars(Locking(Lck!Conclude))
    /\ WF_allVars(Locking(Lck!Probe \/ Lck!ProbeLost))

PartsSpec == PartsInit /\ [][PartsNext]_allVars /\ Fairness

-----------------------------------------------------------------------------
(* Every request that redeems ends, and a lease whose request was dropped lapses. *)
RedemptionsEnd == Red!EveryRequestEnds /\ Red!AbandonedLeaseLapses

(* A signal ends the process, whatever clients and handlers do, and Redis is given up only after
   all attempts and the whole back-off; every forward is answered, though client and upstream may
   stop for good; and the check of the origin lock ends, though its probes may be lost. *)
ProcessesEnd ==
    /\ Terminates /\ []GivesUpLate
    /\ part = "forwarding" => Fwd!Answered
    /\ part = "lock" => Lck!LockCheckEnds

(* A forward takes no longer than its two deadlines; the status names the cause (too large or,
   natively, unreadable; too slow; no answer in time); and the upstream never receives more than
   MAX_BODY_BYTES, declared length or not, nor natively a part of a body that broke off. *)
ForwardHolds == [](part = "forwarding" => Fwd!ForwardInv) /\ Fwd!ToldTheTruth

(* Code and secret of the Worker switch together, though any step of the workflow may fail; a
   secret the origin refused gets no traffic; and the lock check fails if a probe reached an
   unguarded origin or nobody. *)
DeploymentHolds == part = "lock" => Lck!LockInv
=============================================================================
