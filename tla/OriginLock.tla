----------------------------- MODULE OriginLock -----------------------------
(***************************************************************************)
(* The helpers around a deployment (ci/src) in the workflows that call     *)
(* them: a cutover of the Worker's code and secret, checked before against *)
(* the origin (.github/workflows/deploy-worker-rust.yml), and the          *)
(* scheduled check that the origin refuses whoever comes past the Worker   *)
(* (scripts/check-origin-locked.sh).  Steps fail, requests are lost, the   *)
(* zone challenges the runner, and operators change what Access guards.    *)
(***************************************************************************)
EXTENDS Naturals, FiniteSets

CONSTANTS
    MaxChanges,  \* bound: changes of what Access guards and which secret it takes
    MaxRuns      \* bound: runs of the deployment

(* What the constants must be; every instance assumes it. *)
LockConstants == {MaxChanges, MaxRuns} \subseteq Nat

VARIABLES
    secret,    \* UPSTREAM_AUTH_HEADERS in GitHub
    checkUrl,  \* UPSTREAM_CHECK_URL is set
    accepted,  \* Access takes the new secret
    guarded,   \* the paths of the origin that Access guards
    changes,
    step,      \* of the deployment
    runs,
    probed,    \* what its probe of the origin met: "none", "accepted", "challenged", "refused"
    versions,  \* uploaded versions: run, code and secret
    live,      \* the version that has the traffic
    probe,     \* of the lock check: 0 before, 4 after
    attempt,
    failures, inconclusive,
    met,       \* what the probes met: who answered
    verdict    \* of the lock check: "none", "holds" or "failed"

deployVars == <<step, runs, probed, versions, live>>
lockVars == <<probe, attempt, failures, inconclusive, met, verdict>>
vars == <<secret, checkUrl, accepted, guarded, changes, deployVars, lockVars>>

Secrets == {"unset", "malformed", "no_headers", "bad_shape", "good"}
Paths == {"check", "root"}
Version(run, code, s) == [run |-> run, code |-> code, secret |-> s]

TypeOK ==
    /\ secret \in Secrets /\ {checkUrl, accepted} \subseteq BOOLEAN /\ guarded \subseteq Paths
    /\ step \in {"idle", "auth", "probe", "upload", "put", "switch", "done", "failed"}
    /\ probed \in {"none", "accepted", "challenged", "refused"}
    /\ live \in {Version(0, "old", "old")} \cup versions
    /\ runs \in Nat /\ changes \in Nat /\ failures \in Nat /\ inconclusive \in Nat
    /\ probe \in 0 .. 4 /\ attempt \in 1 .. 3
    /\ verdict \in {"none", "holds", "failed"}

Init ==
    /\ secret \in Secrets /\ checkUrl \in BOOLEAN /\ accepted \in BOOLEAN /\ guarded \in SUBSET Paths /\ changes = 0
    /\ step = "idle" /\ runs = 0 /\ probed = "none" /\ versions = {} /\ live = Version(0, "old", "old")
    /\ probe = 0 /\ attempt = 1 /\ failures = 0 /\ inconclusive = 0 /\ met = {} /\ verdict = "none"

-----------------------------------------------------------------------------
(* Answers: status, who made it, and what of its headers is read.  The blocks of a header
   dump are one answer each, of which the last counts. *)
Response(from, status, challenge, access, location) ==
    [from |-> from, status |-> status, challenge |-> challenge, access |-> access, location |-> location]

ByZone == {Response("zone", 403, TRUE, FALSE, "none")}

(* Access refuses with its own header, or redirects to its login: another host or a path. *)
ByAccess ==
    {Response("access", s, FALSE, TRUE, "none") : s \in {401, 403}}
    \cup {Response("access", 302, FALSE, FALSE, l) : l \in {"access_host", "access_path"}}

(* The origin's own answers, among them refusals and redirects. *)
ByOrigin ==
    {Response("origin", s, FALSE, FALSE, "none") : s \in {200, 401, 404, 500}}
    \cup {Response("origin", 302, FALSE, FALSE, "elsewhere")}

Lost == Response("nobody", 0, FALSE, FALSE, "none")

-----------------------------------------------------------------------------
(* `check_upstream_auth`: an error without headers, a failure if an Access header has
   another shape. *)
CheckUpstreamAuth(s) == s = "good"

(* Mutant of ReportOriginCheck: only server errors fail. *)
ReportLenient(r) == r.challenge \/ r.status \in 200 .. 499

(* `report_origin_check`: a challenge proves nothing; else a success is needed. *)
ReportOriginCheck(r) == r.challenge \/ r.status \in 200 .. 299

LocationIsAccess(l) == l \in {"access_host", "access_path"}

(* Mutant of ClassifyOriginResponse: every refusal is taken for Access's. *)
ClassifyAnyRefusal(r) ==
    IF r.challenge THEN "inconclusive"
    ELSE IF r.status \in {401, 403} \/ LocationIsAccess(r.location) THEN "locked"
    ELSE "open"

(* `classify_origin_response`. *)
ClassifyOriginResponse(r) ==
    CASE r.challenge -> "inconclusive"
      [] ~r.challenge /\ r.status \in {401, 403} -> IF r.access THEN "locked" ELSE "open"
      [] ~r.challenge /\ r.status \in 300 .. 399 -> IF LocationIsAccess(r.location) THEN "locked" ELSE "open"
      [] OTHER -> "open"

-----------------------------------------------------------------------------
(* The deployment. *)
Goto(s) == step' = s

StartDeploy ==
    /\ step \in {"idle", "failed"} /\ runs < MaxRuns
    /\ runs' = runs + 1 /\ probed' = "none"
    /\ Goto(IF secret = "unset" THEN "upload" ELSE "auth")
    /\ UNCHANGED <<secret, checkUrl, accepted, guarded, changes, versions, live, lockVars>>

CheckSecret ==
    /\ step = "auth"
    /\ Goto(IF ~CheckUpstreamAuth(secret) THEN "failed" ELSE IF checkUrl THEN "probe" ELSE "upload")
    /\ UNCHANGED <<secret, checkUrl, accepted, guarded, changes, runs, probed, versions, live, lockVars>>

(* curl with the secret; without an answer its status is 0. *)
ProbeOrigin ==
    /\ step = "probe"
    /\ \E r \in ByZone \cup {Lost} \cup (IF accepted THEN ByOrigin ELSE ByAccess) :
          /\ probed' = IF r.challenge THEN "challenged" ELSE IF r.status = 200 THEN "accepted" ELSE "refused"
          /\ Goto(IF ReportOriginCheck(r) THEN "upload" ELSE "failed")
    /\ UNCHANGED <<secret, checkUrl, accepted, guarded, changes, runs, versions, live, lockVars>>

(* Mutant of Upload: the code takes the traffic at once. *)
UploadLive ==
    /\ step = "upload"
    /\ LET v == Version(runs, "new", "old")
       IN  versions' = versions \cup {v} /\ live' = v /\ Goto(IF secret = "unset" THEN "done" ELSE "put")
    /\ UNCHANGED <<secret, checkUrl, accepted, guarded, changes, runs, probed, lockVars>>

(* `wrangler deploy` without a secret, else `versions upload`. *)
Upload ==
    /\ step = "upload"
    /\ LET v == Version(runs, "new", "old")
       IN  /\ versions' = versions \cup {v}
           /\ live' = IF secret = "unset" THEN v ELSE live
           /\ Goto(IF secret = "unset" THEN "done" ELSE "put")
    /\ UNCHANGED <<secret, checkUrl, accepted, guarded, changes, runs, probed, lockVars>>

(* `versions secret put`: another version, tagged with the run. *)
PutSecret ==
    /\ step = "put"
    /\ versions' = versions \cup {Version(runs, "new", "new")}
    /\ Goto("switch")
    /\ UNCHANGED <<secret, checkUrl, accepted, guarded, changes, runs, probed, live, lockVars>>

(* `versions deploy` by the tag. *)
Switch ==
    /\ step = "switch"
    /\ live' = Version(runs, "new", "new")
    /\ Goto("done")
    /\ UNCHANGED <<secret, checkUrl, accepted, guarded, changes, runs, probed, versions, lockVars>>

(* A step of wrangler fails or the runner is lost; what is uploaded stays. *)
StepFails ==
    /\ step \in {"upload", "put", "switch"}
    /\ Goto("failed")
    /\ UNCHANGED <<secret, checkUrl, accepted, guarded, changes, runs, probed, versions, live, lockVars>>

-----------------------------------------------------------------------------
(* The lock check: three probes without the token, three attempts each. *)
StartLockCheck ==
    /\ probe = 0 /\ verdict = "none"
    /\ \/ checkUrl /\ probe' = 1 /\ UNCHANGED verdict
       \/ ~checkUrl /\ verdict' = "failed" /\ UNCHANGED probe
    /\ UNCHANGED <<secret, checkUrl, accepted, guarded, changes, deployVars, attempt, failures, inconclusive, met>>

PathOf(p) == IF p = 2 THEN "root" ELSE "check"

Probe ==
    /\ probe \in 1 .. 3
    /\ \E r \in ByZone \cup (IF PathOf(probe) \in guarded THEN ByAccess ELSE ByOrigin) :
          LET state == ClassifyOriginResponse(r)
          IN  /\ inconclusive' = inconclusive + (IF state = "inconclusive" THEN 1 ELSE 0)
              /\ failures' = failures + (IF state = "open" THEN 1 ELSE 0)
              /\ met' = met \cup {r.from}
    /\ probe' = probe + 1 /\ attempt' = 1
    /\ UNCHANGED <<secret, checkUrl, accepted, guarded, changes, deployVars, verdict>>

(* Mutant of ProbeLost: again and again. *)
ProbeLostForever ==
    /\ probe \in 1 .. 3
    /\ attempt' = (attempt % 3) + 1
    /\ UNCHANGED <<secret, checkUrl, accepted, guarded, changes, deployVars, probe, failures, inconclusive, met, verdict>>

(* No answer: again, and after the third time a failure. *)
ProbeLost ==
    /\ probe \in 1 .. 3
    /\ \/ attempt < 3 /\ attempt' = attempt + 1 /\ UNCHANGED <<probe, failures, met>>
       \/ attempt = 3 /\ attempt' = 1 /\ probe' = probe + 1 /\ failures' = failures + 1 /\ met' = met \cup {"nobody"}
    /\ UNCHANGED <<secret, checkUrl, accepted, guarded, changes, deployVars, inconclusive, verdict>>

Conclude ==
    /\ probe = 4 /\ verdict = "none"
    /\ verdict' = IF failures > 0 THEN "failed" ELSE "holds"
    /\ UNCHANGED <<secret, checkUrl, accepted, guarded, changes, deployVars, probe, attempt, failures, inconclusive, met>>

(* Operators change the Access policy or the token. *)
Change ==
    /\ changes < MaxChanges /\ changes' = changes + 1
    /\ \/ guarded' \in SUBSET Paths /\ UNCHANGED accepted
       \/ accepted' = ~accepted /\ UNCHANGED guarded
    /\ UNCHANGED <<secret, checkUrl, deployVars, lockVars>>

Next ==
    \/ StartDeploy \/ CheckSecret \/ ProbeOrigin \/ Upload \/ PutSecret \/ Switch \/ StepFails
    \/ StartLockCheck \/ Probe \/ ProbeLost \/ Conclude
    \/ Change

(* curl has a deadline and the probes are counted. *)
Spec ==
    /\ Init /\ [][Next]_vars
    /\ WF_lockVars(StartLockCheck) /\ WF_lockVars(Probe \/ ProbeLost) /\ WF_lockVars(Conclude)

-----------------------------------------------------------------------------
(* `Code and secret switch together`: no traffic meets the new code with the old secret or
   the reverse, whichever step fails; without a secret the code alone is new. *)
SwitchTogether == (live.code = "new" <=> live.secret = "new") \/ secret = "unset"

(* A secret that the origin refused, or that is malformed, never gets the traffic in the
   run that found out; a challenge by the zone proves nothing and lets it pass. *)
RefusedNotDeployed ==
    live.secret = "new" /\ live.run = runs =>
        /\ secret = "good"
        /\ checkUrl => probed \in {"accepted", "challenged"}

(* The lock is not said to hold if some probe was answered by the origin itself, though it
   refuse or redirect like Access, or by nobody. *)
OpenIsReported == verdict = "holds" => met \subseteq {"access", "zone"}

(* The check ends with a verdict. *)
LockCheckEnds == <>(verdict # "none")

(***************************************************************************)
(* The inductive invariant: what a run of the deployment has found out by  *)
(* each step, and what the lock check has counted by each probe.           *)
(***************************************************************************)
DeployKnows ==
    /\ live.run \in 0 .. runs
    /\ live.secret = "new" /\ live.run = runs => step = "done"
    /\ step \in {"auth", "probe"} => secret # "unset"
    /\ step = "probe" \/ (step \in {"upload", "put", "switch"} /\ secret # "unset") => secret = "good"
    /\ step \in {"put", "switch"} => secret # "unset"
    /\ step \in {"upload", "put", "switch"} /\ secret # "unset" /\ checkUrl => probed \in {"accepted", "challenged"}
    /\ step = "switch" => Version(runs, "new", "new") \in versions

LockCounts ==
    /\ failures + inconclusive <= (IF probe = 0 THEN 0 ELSE probe - 1)
    /\ failures = 0 => met \subseteq {"access", "zone"}
    /\ verdict = "holds" => failures = 0 /\ probe = 4

LockInv == TypeOK /\ DeployKnows /\ LockCounts /\ SwitchTogether /\ RefusedNotDeployed /\ OpenIsReported
=============================================================================
