------------------------------ MODULE Forwarding ------------------------------
(***************************************************************************)
(* One forwarded request on either platform: the policy of                 *)
(* core/src/forward.rs around the native exchange (gateway-rust/src/       *)
(* proxy.rs, http_client.rs), which reads the whole body and then talks to *)
(* the upstream, and around the Worker's (worker/src/upstream.rs), which   *)
(* streams: the client's chunks, the byte counter, the upstream's answer,  *)
(* the deadline and the code that waits for `fetch` are all interleaved.   *)
(***************************************************************************)
EXTENDS Naturals

CONSTANTS
    Platforms,        \* subset of {"native", "worker"}
    MaxBody,          \* MAX_BODY_BYTES
    BodyTimeout,      \* BODY_READ_TIMEOUT_SECS
    UpstreamTimeout   \* UPSTREAM_TIMEOUT_SECS

(* What the constants must be; every instance assumes it. *)
ForwardConstants ==
    /\ {MaxBody, BodyTimeout, UpstreamTimeout} \subseteq Nat \ {0}
    /\ Platforms \subseteq {"native", "worker"}

VARIABLES
    plat,      \* the platform
    req,       \* the request: method and path acceptable, carries a body by its method
               \* (POST, PUT), length declared, body size
    phase,     \* "start", "body" (native), "exchange", "done"
    time,      \* time since the request arrived
    timer,     \* time since the current deadline was set
    got,       \* body units that arrived from the client
    cut,       \* the client's body broke off: its connection or its encoding failed
    sent,      \* body units the upstream has received
    exceeded,  \* the counter tripped
    reply,     \* what the exchange came to: "none", "success", "failure", "redirect" or "broken"
    answer     \* the status the gateway gives, or "passed" for the upstream's own

vars == <<plat, req, phase, time, timer, got, cut, sent, exceeded, reply, answer>>

Exchange == [method : BOOLEAN, path : BOOLEAN, upload : BOOLEAN, declared : BOOLEAN,
            size : 0 .. MaxBody + 2]
Reply == {"success", "failure", "redirect", "broken"}
Answer == {405, 400, 413, 408, 504, 502}

TypeOK ==
    /\ plat \in Platforms
    /\ req \in Exchange
    /\ phase \in {"start", "body", "exchange", "done"}
    /\ time \in Nat /\ timer \in Nat /\ got \in Nat /\ sent \in Nat
    /\ cut \in BOOLEAN /\ exceeded \in BOOLEAN
    /\ reply \in Reply \cup {"none"}
    /\ answer \in Answer \cup {0, 200}

Init ==
    /\ plat \in Platforms
    /\ req \in Exchange
    /\ phase = "start"
    /\ time = 0 /\ timer = 0 /\ got = 0 /\ sent = 0
    /\ cut = FALSE /\ exceeded = FALSE
    /\ reply = "none"
    /\ answer = 0

-----------------------------------------------------------------------------
(* `declared_too_large`: a missing length is left to the capped read.  The Worker drops
   the body of a GET or HEAD and does not look at its length. *)
DeclaredTooLarge ==
    /\ plat = "native" \/ req.upload
    /\ req.declared /\ req.size > MaxBody

(* The refusals `preflight` may give, in order; {} lets the request pass. *)
Preflight ==
    IF ~req.method THEN {405}
    ELSE IF ~req.path THEN {400}
    ELSE IF DeclaredTooLarge THEN {413}
    ELSE {}

Done(status) == answer' = status /\ phase' = "done"

Refuse ==
    /\ phase = "start"
    /\ \E status \in Preflight : Done(status)
    /\ UNCHANGED <<plat, req, time, timer, got, cut, sent, exceeded, reply>>

(* The native gateway reads the body first, under its own deadline. *)
Begin ==
    /\ phase = "start" /\ Preflight = {}
    /\ phase' = IF plat = "native" THEN "body" ELSE "exchange"
    /\ timer' = 0
    /\ UNCHANGED <<plat, req, time, got, cut, sent, exceeded, reply, answer>>

-----------------------------------------------------------------------------
(* Native: `to_bytes` within the body deadline, then one buffered exchange. *)

Receive ==
    /\ phase = "body" /\ got < req.size /\ ~cut
    /\ got' = got + 1
    /\ UNCHANGED <<plat, req, phase, time, timer, cut, sent, exceeded, reply, answer>>

(* Mutant of BodyRead: the cap is applied to what was read, one unit late. *)
BodyReadLate ==
    /\ phase = "body" /\ got = req.size /\ ~cut /\ got <= MaxBody + 1
    /\ phase' = "exchange" /\ timer' = 0
    /\ sent' = got
    /\ UNCHANGED <<plat, req, time, got, cut, exceeded, reply, answer>>

BodyRead ==
    /\ phase = "body" /\ got = req.size /\ ~cut /\ got <= MaxBody
    /\ phase' = "exchange" /\ timer' = 0
    /\ sent' = got
    /\ UNCHANGED <<plat, req, time, got, cut, exceeded, reply, answer>>

(* Every error of the read is answered alike: a body over the cap, and one that broke off. *)
BodyTooLarge ==
    /\ phase = "body" /\ (got > MaxBody \/ cut)
    /\ Done(413)
    /\ UNCHANGED <<plat, req, time, timer, got, cut, sent, exceeded, reply>>

(* Mutant of BodyTimedOut: a body that keeps trickling is waited for. *)
BodyTimedOutIdle ==
    /\ phase = "body" /\ timer >= BodyTimeout /\ got = 0
    /\ Done(408)
    /\ UNCHANGED <<plat, req, time, timer, got, cut, sent, exceeded, reply>>

BodyTimedOut ==
    /\ phase = "body" /\ timer >= BodyTimeout
    /\ Done(408)
    /\ UNCHANGED <<plat, req, time, timer, got, cut, sent, exceeded, reply>>

-----------------------------------------------------------------------------
(* The Worker streams: the counter lets a chunk through or cuts the request off.  It
   keeps counting after the answer, until the client is done. *)
Stream ==
    /\ plat = "worker" /\ phase \in {"exchange", "done"} /\ answer \in {0, 200}
    /\ req.upload /\ got < req.size /\ ~cut /\ ~exceeded
    /\ got' = got + 1
    /\ exceeded' = (got' > MaxBody)
    /\ sent' = IF got' > MaxBody THEN sent ELSE sent + 1
    /\ UNCHANGED <<plat, req, phase, time, timer, cut, reply, answer>>

(* The client's body breaks off, on either platform, also after its last unit (a malformed
   end).  The Worker notices only through `fetch`, whose request body failed. *)
BodyBreaks ==
    /\ \/ phase = "body"
       \/ plat = "worker" /\ phase = "exchange" /\ req.upload /\ ~exceeded
    /\ ~cut
    /\ cut' = TRUE
    /\ UNCHANGED <<plat, req, phase, time, timer, got, sent, exceeded, reply, answer>>

-----------------------------------------------------------------------------
(* The upstream answers, early or late, or the connection breaks; an aborted or
   overdue exchange can only break.  A response over the cap is broken as well. *)
UpstreamReplies ==
    /\ phase = "exchange" /\ reply = "none"
    /\ reply' \in IF exceeded \/ timer >= UpstreamTimeout THEN {"broken"} ELSE Reply
    /\ UNCHANGED <<plat, req, phase, time, timer, got, cut, sent, exceeded, answer>>

(* Mutant of Verdict: the redirect is handed to the client. *)
VerdictFollows ==
    CASE exceeded -> 413
      [] ~exceeded /\ reply = "broken" -> IF timer >= UpstreamTimeout THEN 504 ELSE 502
      [] OTHER -> 200

(* What the code that waited makes of it: the counter first, then the deadline, then
   the response.  200 stands for the upstream's own status. *)
Verdict ==
    CASE exceeded -> 413
      [] ~exceeded /\ reply = "broken" -> IF timer >= UpstreamTimeout THEN 504 ELSE 502
      [] ~exceeded /\ reply = "redirect" -> 502
      [] OTHER -> 200

(* The waiting code resumes; the counter may have tripped since the answer arrived. *)
Resume ==
    /\ phase = "exchange" /\ reply # "none"
    /\ Done(Verdict)
    /\ UNCHANGED <<plat, req, time, timer, got, cut, sent, exceeded, reply>>

(* Mutant of Tick: the upstream deadline is not armed. *)
TickUnarmed ==
    /\ phase \in {"body", "exchange"} /\ reply = "none"
    /\ phase = "body" => timer < BodyTimeout
    /\ time < 2 * (BodyTimeout + UpstreamTimeout)
    /\ time' = time + 1
    /\ timer' = timer + 1
    /\ UNCHANGED <<plat, req, phase, got, cut, sent, exceeded, reply, answer>>

(* Time passes only while someone waits, and never past the armed deadline. *)
Tick ==
    /\ phase \in {"body", "exchange"} /\ reply = "none"
    /\ timer < IF phase = "body" THEN BodyTimeout ELSE UpstreamTimeout
    /\ time' = time + 1
    /\ timer' = timer + 1
    /\ UNCHANGED <<plat, req, phase, got, cut, sent, exceeded, reply, answer>>

Next ==
    \/ Refuse \/ Begin
    \/ Receive \/ BodyRead \/ BodyTooLarge \/ BodyTimedOut
    \/ Stream \/ BodyBreaks \/ UpstreamReplies \/ Resume \/ Tick

(***************************************************************************)
(* The gateway's own steps are taken and its timers fire.  An overdue      *)
(* exchange is broken off; before that the upstream, and the client at all *)
(* times, may stay silent for ever.                                        *)
(***************************************************************************)
Overdue == timer >= UpstreamTimeout /\ UpstreamReplies

Spec ==
    /\ Init /\ [][Next]_vars
    /\ WF_vars(Refuse) /\ WF_vars(Begin) /\ WF_vars(BodyRead) /\ WF_vars(BodyTooLarge)
    /\ WF_vars(BodyTimedOut) /\ WF_vars(Resume) /\ WF_vars(Tick) /\ WF_vars(Overdue)

-----------------------------------------------------------------------------
(* The upstream never receives more of a body than the cap, declared or not, and the
   native gateway never bothers it with a body it has not read to its end. *)
CapHolds ==
    /\ sent <= MaxBody
    /\ plat = "native" /\ reply # "none" => sent = req.size /\ ~cut

(* What the client is told is what went wrong: 413 for a body over the cap and, natively,
   for any other body that could not be read, none of which the upstream saw; 408 only once
   the client had its whole time and 504 only once the upstream had; and the upstream's own
   status only for a response that is no redirect to a request that the cap did not cut. *)
ToldTheTruth ==
    [][phase # "done" /\ phase' = "done" =>
        /\ answer' = 413 => req.size > MaxBody \/ (plat = "native" /\ cut /\ sent = 0)
        /\ answer' = 504 => timer = UpstreamTimeout
        /\ answer' = 408 => timer = BodyTimeout /\ sent = 0
        /\ answer' = 200 => reply \in {"success", "failure"} /\ ~exceeded]_vars

(* Every request is answered, and within the two deadlines: the span a redemption lease
   must outlive (config.rs refuses a shorter one). *)
InTime == time <= BodyTimeout + UpstreamTimeout
Answered == <>(phase = "done")

(***************************************************************************)
(* The inductive invariant: the clocks of each phase, and what was         *)
(* counted, read and sent in it.                                           *)
(***************************************************************************)
Clocked ==
    /\ phase = "start" => time = 0
    /\ phase = "body" => time = timer /\ timer <= BodyTimeout
    /\ phase = "exchange" => time <= BodyTimeout + timer /\ timer <= UpstreamTimeout
    /\ InTime

Counted ==
    /\ got <= req.size
    /\ phase \in {"start", "body"} => sent = 0 /\ reply = "none"
    /\ phase = "start" => got = 0
    /\ phase = "body" => plat = "native"
    /\ plat = "native" => ~exceeded /\ (phase = "exchange" => sent = req.size /\ sent <= MaxBody /\ ~cut)
    /\ plat = "worker" => (exceeded <=> got > MaxBody) /\ (~exceeded => sent = got)

ForwardInv == TypeOK /\ Clocked /\ Counted /\ CapHolds
=============================================================================
