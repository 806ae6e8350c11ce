----------------------------- MODULE AccessProof -----------------------------
(***************************************************************************)
(* What a proof proves: wallets sign access messages, and anyone who has   *)
(* seen a signature presents it, respelled or relabelled, to any gateway   *)
(* with any nonce and digest (core/src/proof.rs, core/src/sig.rs and the   *)
(* first half of `verify_access_request`, core/src/decision.rs).  Text is  *)
(* a sequence of words; signatures are symbolic: a key verifies what it    *)
(* signed and nothing else.                                                *)
(***************************************************************************)
EXTENDS Naturals, Sequences, FiniteSets

CONSTANTS
    Gateway,     \* configurations: origin, gate, network, single_use
    Key,         \* wallets' keys: flag and public key
    Nonce,       \* the nonces gateways issue
    Digest,      \* consume digests: a transaction digest, or another text
    TxDigest,    \* those that decode to 32 bytes
    MaxSigned    \* bound: messages signed

(* What the constants must be; every instance assumes it. *)
ProofConstants ==
    /\ TxDigest \subseteq Digest /\ MaxSigned \in Nat
    /\ \A k \in Key : k.flag \in {"ed25519", "secp256k1", "secp256r1"}

VARIABLES
    open,      \* nonces issued and not taken, per gateway
    issued,    \* nonces issued by any
    signed,    \* what was signed: key and intent; everyone has the signatures
    admitted   \* proofs accepted: gateway, address, nonce, digest, signature

vars == <<open, issued, signed, admitted>>

None == "none"
NewLine == "newline"

(* What may stand for a nonce: one issued, or one followed by a line of its own. *)
NonceText == {<<n>> : n \in Nonce} \cup {<<n, NewLine, "consume:", d>> : n \in Nonce, d \in TxDigest}

Context == {[origin |-> g.origin, gate |-> g.gate, network |-> g.network] : g \in Gateway}

Intent == [context : Context, nonce : NonceText, digest : Digest \cup {None}]

TypeOK ==
    /\ open \in [Gateway -> SUBSET Nonce] /\ issued \subseteq Nonce
    /\ \A g, h \in Gateway : open[g] \subseteq issued /\ (g # h => open[g] \cap open[h] = {})
    /\ signed \subseteq [key : Key, intent : Intent] /\ Cardinality(signed) <= MaxSigned
    /\ \A a \in admitted : a.gateway \in Gateway

Init == open = [g \in Gateway |-> {}] /\ issued = {} /\ signed = {} /\ admitted = {}

-----------------------------------------------------------------------------
(* `is_nonce`: one word, so that it cannot add a line. *)
IsNonce(text) == Len(text) = 1 /\ text[1] # NewLine

IsTxDigest(d) == d \in TxDigest

Line(key, text) == <<NewLine, key>> \o text

(* Mutant of PersonalMessage: the origin is not part of it. *)
PersonalMessageAnywhere(c, nonce, digest) ==
    <<"nft-gate:access:v2">> \o Line("gate:", <<c.gate>>) \o Line("network:", <<c.network>>)
        \o Line("nonce:", nonce) \o (IF digest = None THEN << >> ELSE Line("consume:", <<digest>>))

(* `personal_message`: the text a wallet signs and a gateway expects. *)
PersonalMessage(c, nonce, digest) ==
    <<"nft-gate:access:v2">> \o Line("origin:", <<c.origin>>) \o Line("gate:", <<c.gate>>)
        \o Line("network:", <<c.network>>) \o Line("nonce:", nonce)
        \o (IF digest = None THEN << >> ELSE Line("consume:", <<digest>>))

(* Its checks; both sides make them. *)
MessageOK(nonce, digest) == IsNonce(nonce) /\ (digest # None => IsTxDigest(digest))

-----------------------------------------------------------------------------
(* An address: whose, and how it is written.  "short" has other case and no leading
   zeros, "0X" breaks the grammar. *)
AddressForm == {"canonical", "short", "0X"}

(* A signature as sent: scheme flag, key, message, whether it is the high-S twin, and its
   base64: padded, without padding, or other text. *)
Signature(s) ==
    LET raw == [flag |-> s.key.flag, key |-> s.key, high |-> FALSE, base64 |-> "padded",
                message |-> PersonalMessage(s.intent.context, s.intent.nonce, s.intent.digest)]
    IN  {raw, [raw EXCEPT !.base64 = "unpadded"], [raw EXCEPT !.base64 = "text"]}
        \cup (IF s.key.flag = "ed25519" THEN {} ELSE {[raw EXCEPT !.high = TRUE]})
        \cup {[raw EXCEPT !.flag = f] : f \in {"multisig", "secp256r1"} \ {s.key.flag}}

IsAddress(a) == a.form # "0X"

(* Optional padding passes the grammar ... *)
IsSignature(sig) == sig.base64 # "text"

(* ... but not the decoder. *)
Decodes(sig) == sig.base64 = "padded"

NormalizeAddress(a) == [a EXCEPT !.form = "canonical"]

(* Flag and public key, hashed. *)
DeriveAddress(key) == [of |-> key, form |-> "canonical"]

(* Mutant of VerifyEcdsa: the high-S twin is not rejected. *)
VerifyEcdsaAny(address, message, sig, flag) ==
    sig.key.flag = flag /\ sig.message = message /\ NormalizeAddress(address) = DeriveAddress(sig.key)

(* Mutant of VerifyEcdsa: the address is compared as written. *)
VerifyEcdsaRaw(address, message, sig, flag) ==
    sig.key.flag = flag /\ ~sig.high /\ sig.message = message /\ address = DeriveAddress(sig.key)

(* `verify_secp256k1`, `verify_secp256r1`: low S only. *)
VerifyEcdsa(address, message, sig, flag) ==
    /\ sig.key.flag = flag
    /\ ~sig.high
    /\ sig.message = message
    /\ NormalizeAddress(address) = DeriveAddress(sig.key)

VerifyEd25519(address, message, sig) ==
    /\ sig.key.flag = "ed25519"
    /\ sig.message = message
    /\ NormalizeAddress(address) = DeriveAddress(sig.key)

(* The flag byte says which scheme; multisig and zkLogin fail closed. *)
VerifyPersonalMessageSignature(address, message, sig) ==
    /\ Decodes(sig)
    /\ \/ sig.flag = "ed25519" /\ VerifyEd25519(address, message, sig)
       \/ sig.flag \in {"secp256k1", "secp256r1"} /\ VerifyEcdsa(address, message, sig, sig.flag)

-----------------------------------------------------------------------------
(* `decode_access_proof`: the grammar of every field. *)
DecodeAccessProof(p) ==
    /\ IsAddress(p.address) /\ IsNonce(p.nonce) /\ IsSignature(p.signature)
    /\ p.digest # None => IsTxDigest(p.digest)

(* What gateway g answers proof p before it asks the chain; "taken" if the nonce is spent. *)
Verdict(g, p) ==
    LET digest == IF g.single_use THEN p.digest ELSE None
    IN  CASE ~DecodeAccessProof(p) -> "BadProof"
          [] DecodeAccessProof(p) /\ g.single_use /\ p.digest = None -> "ConsumeMissing"
          [] OTHER ->
               IF ~MessageOK(p.nonce, digest) THEN "BadProof"
               ELSE IF ~VerifyPersonalMessageSignature(
                        p.address, PersonalMessage(g, p.nonce, digest), p.signature) THEN "BadSignature"
               ELSE IF p.nonce[1] \notin open[g] THEN "NonceInvalid"
               ELSE "taken"

(* Mutant of Spent: the nonce is taken before the signature is checked. *)
SpentFirst(g, p) == IF Verdict(g, p) \in {"taken", "BadSignature"} THEN {p.nonce[1]} ELSE {}

(* The nonce goes with a verified signature only. *)
Spent(g, p) == IF Verdict(g, p) = "taken" THEN {p.nonce[1]} ELSE {}

Admission(g, p) ==
    [gateway |-> g, address |-> NormalizeAddress(p.address), nonce |-> p.nonce,
     digest |-> IF g.single_use THEN p.digest ELSE None, signature |-> p.signature]

(* Mutant of Challenge: the nonce need not be fresh. *)
ChallengeAny(g) ==
    /\ \E n \in Nonce : open' = [open EXCEPT ![g] = @ \cup {n}] /\ issued' = issued \cup {n}
    /\ UNCHANGED <<signed, admitted>>

(* GET /v1/challenge: a fresh nonce. *)
Challenge(g) ==
    /\ \E n \in Nonce \ issued : open' = [open EXCEPT ![g] = @ \cup {n}] /\ issued' = issued \cup {n}
    /\ UNCHANGED <<signed, admitted>>

(* A wallet answers what it takes for a gateway's challenge; anyone may have made it. *)
Sign(k) ==
    /\ Cardinality(signed) < MaxSigned
    /\ \E i \in Intent :
          /\ MessageOK(i.nonce, i.digest)
          /\ signed' = signed \cup {[key |-> k, intent |-> i]}
    /\ UNCHANGED <<open, issued, admitted>>

(* A proof put together from what is known. *)
Present(g) ==
    /\ \E s \in signed, of \in Key, form \in AddressForm, n \in NonceText, d \in Digest \cup {None} :
          \E sig \in Signature(s) :
             LET p == [address |-> [of |-> of, form |-> form], nonce |-> n, signature |-> sig, digest |-> d]
             IN  /\ open' = [open EXCEPT ![g] = @ \ Spent(g, p)]
                 /\ admitted' = IF Verdict(g, p) = "taken" THEN admitted \cup {Admission(g, p)} ELSE admitted
    /\ UNCHANGED <<issued, signed>>

Next ==
    \/ \E g \in Gateway : Challenge(g) \/ Present(g)
    \/ \E k \in Key : Sign(k)

Spec == Init /\ [][Next]_vars

-----------------------------------------------------------------------------
(* `signature made for another gateway, gate, network or consume is useless`: whoever is
   admitted signed exactly this, here, with the key of that address. *)
AdmittedAsIntended ==
    \A a \in admitted : \E s \in signed :
        /\ a.address = DeriveAddress(s.key)
        /\ s.intent.context = [origin |-> a.gateway.origin, gate |-> a.gateway.gate, network |-> a.gateway.network]
        /\ s.intent.nonce = a.nonce
        /\ s.intent.digest = a.digest

(* No signature is admitted that the chain would refuse: none but what the wallet made. *)
NoTwin ==
    \A a \in admitted :
        ~a.signature.high /\ a.signature.flag = a.signature.key.flag /\ a.signature.base64 = "padded"

(* The signer is admitted in any legal spelling of the address, while the nonce is open. *)
SignerIsServed ==
    \A s \in signed, g \in Gateway, form \in {"canonical", "short"} :
        /\ s.intent.context = [origin |-> g.origin, gate |-> g.gate, network |-> g.network]
        /\ s.intent.nonce \in {<<n>> : n \in open[g]}
        /\ g.single_use <=> s.intent.digest # None
        => \E sig \in Signature(s) :
              Verdict(g, [address |-> [of |-> s.key, form |-> form], nonce |-> s.intent.nonce,
                          signature |-> sig, digest |-> s.intent.digest]) = "taken"

(* A challenge is used up only by somebody who signed it for this gateway: no bystander
   who has seen the nonce can take it from its client. *)
NonceNeedsSignature ==
    [][\A g \in Gateway : \A n \in open[g] \ open'[g] :
          \E s \in signed : s.intent.nonce = <<n>> /\ s.intent.context.origin = g.origin]_vars
=============================================================================
