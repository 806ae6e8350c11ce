------------------------------ MODULE MCEvidence ------------------------------
(***************************************************************************)
(* What an admission rests on, in one run: what the chain says of a        *)
(* consume, what it says of the gate, and what a signature says of its     *)
(* signer.  The three share nothing; `part` says which one a behaviour is  *)
(* about, and the others stay in an initial state.                         *)
(***************************************************************************)
EXTENDS ChainFetch

CONSTANTS Gateway, Key, Nonce, Digest, TxDigest, MaxSigned  \* of AccessProof

VARIABLES part, open, issued, signed, admitted

proofVars == <<open, issued, signed, admitted>>
allVars == <<part, vars, proofVars>>

Type(pkg, form, name) == [pkg |-> pkg, form |-> form, name |-> name]

MCWant == {[nft_type |-> Type("0x2", "short", "AccessNFT"), sender |-> "A", gate |-> g] : g \in {"G", AnyGate}}

Json(g, ts) ==
    <<[key |-> "gate_id", depth |-> 0, string |-> g], [key |-> "timestamp_ms", depth |-> 0, string |-> ts]>>

Consume(g, ts) == [type |-> Type("0x2", "long", "AccessConsumedEvent"), sender |-> "A", json |-> Json(g, ts)]

(* The consume, with a short package too, now and too far in the past or the future; the same for another gate, by
   another sender, of a look-alike package, with an unreadable or too deep timestamp. *)
MCEvent ==
    {Consume("G", "1"), [Consume("G", "1") EXCEPT !.type.form = "short"], Consume("G", "0"), Consume("G", "7"),
     Consume("H", "1"), Consume("G", "x"),
     [Consume("G", "1") EXCEPT !.sender = "B"], [Consume("G", "1") EXCEPT !.type.pkg = "0x3"],
     [Consume("G", "1") EXCEPT !.json[2].depth = 9]}

Served(origin, network, single) ==
    [origin |-> origin, gate |-> "0xa1", network |-> network, single_use |-> single]

(* Two single-use gateways of one gate and one of the first's origin on another network; two wallets. *)
MCGateway ==
    {Served("https://a", "mainnet", TRUE), Served("https://b", "mainnet", TRUE), Served("https://a", "testnet", FALSE)}
MCKey == {[flag |-> "ed25519", pk |-> 1], [flag |-> "secp256k1", pk |-> 2]}

Proof == INSTANCE AccessProof

ASSUME SignerConstants == Proof!ProofConstants

Fetching(A) == part = "consume" /\ A /\ UNCHANGED <<part, proofVars>>

PartsInit ==
    /\ part \in {"consume", "gate", "proof"}
    /\ Init /\ Proof!Init
    /\ part # "consume" => known /\ tx = [ok |-> TRUE, events |-> << >>] /\ ask = CHOOSE w \in Want : TRUE
    /\ part # "gate" => ~gate.paused /\ gate.blocks

PartsNext ==
    \/ Fetching(FetchNext)
    \/ part = "gate" /\ GateNext /\ UNCHANGED <<part, proofVars>>
    \/ part = "proof" /\ Proof!Next /\ UNCHANGED <<part, vars>>

(* The fairness of ChainFetch, for the part that runs. *)
Fairness ==
    /\ WF_allVars(Fetching(Call)) /\ WF_allVars(Fetching(TimedOut))
    /\ WF_allVars(Fetching(Retry)) /\ WF_allVars(Fetching(Tick))

PartsSpec == PartsInit /\ [][PartsNext]_allVars /\ Fairness

-----------------------------------------------------------------------------
(* `consume_tx_valid` accepts only a consume that the chain shows, and refuses one only if the
   node, within the attempts and their pauses, did not know it; whatever arrives late or torn. *)
DecidedByTheChain == []TypeOK /\ AcceptedIsGenuine /\ LagTolerated

(* `consume_tx_valid` ends, though the node may never answer. *)
FetchEnds == part = "consume" => Ends

(* A gateway admits a proof only with the address, nonce and consume its signer meant for that
   gateway, and no signature the chain would refuse; the signer is admitted in any legal
   spelling of the address, while the nonce is open; and a nonce is burnt only if somebody
   signed for it (`verify_access_request` takes it last). *)
ProofMeansItsSigner ==
    /\ [](Proof!TypeOK /\ Proof!AdmittedAsIntended /\ Proof!NoTwin /\ Proof!SignerIsServed)
    /\ Proof!NonceNeedsSignature
=============================================================================
