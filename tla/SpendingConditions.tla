------------------------- MODULE SpendingConditions -------------------------
(***************************************************************************)
(* Locked ecash: a request (swap or melt) whose inputs carry P2PK or HTLC  *)
(* secrets is put together by several parties, each of which signs with    *)
(* its key or adds the preimage, while the clock runs towards the locktime *)
(* (crates/cashu/src/nuts/nut11/mod.rs, nut14/mod.rs, nut00/mod.rs, the    *)
(* signing half of crates/cdk/src/wallet/receive.rs).  Accepts is what the *)
(* mint answers if the request is posted in the current state: it checks   *)
(* each input on its own (mint/mod.rs, verify_proofs) and the request as a *)
(* whole when an input asks for SIG_ALL.                                   *)
(*                                                                         *)
(* inputs   the proofs of the request: a secret and a witness each         *)
(* outputs  its blinded messages: [blinded_secret, amount, keyset_id] each *)
(* quote    the melt quote it pays, NoQuote for a swap                     *)
(* now      unix_time()                                                    *)
(* signed   history: which key has signed which message.  Nothing reads    *)
(*          it; it is what the properties measure the answer against.      *)
(*                                                                         *)
(* A secret is [nonce, kind, data, conditions].  Its conditions have the   *)
(* defaults of nut11 filled in: one signature, SIG_INPUTS; NoKeys is a key *)
(* tag that is absent, which is not the same as one that lists no key.  A  *)
(* signature is the pair of its key and the message it was made for, so    *)
(* that verifying it is comparing both.  The witness wallets put on an     *)
(* output is left out: the mint never reads it.                            *)
(***************************************************************************)
EXTENDS Naturals, Sequences, FiniteSets, Functions

CONSTANTS
    Key,            \* the key pairs of the parties
    Preimage,       \* preimages, as the hexadecimal text users exchange
    Requests,       \* the requests considered: [secrets, outputs, quote]
    Outputs,        \* sequences of blinded messages a request may ask for
    NoQuote,        \* not a melt quote: the request is a swap
    NoKeys,         \* a key tag that a secret does not have: None
    NoData,         \* the data of a secret that is not a NUT-10 secret
    MaxTime,        \* bound: the clock stops there
    MaxSigs         \* bound: signatures that one witness collects

\* The kinds and conditions that Nut10Secret and Conditions can hold.
ASSUME SpendingConstants ==
    /\ IsFiniteSet(Key)
    /\ MaxTime \in Nat
    /\ \A r \in Requests :
          /\ 1 \in DOMAIN r.secrets
          /\ \A i \in DOMAIN r.secrets :
                LET s == r.secrets[i]
                    c == s.conditions
                IN  /\ s.kind \in {"p2pk", "htlc", "plain"}
                    /\ s.kind = "p2pk" => s.data \in Key
                    /\ c.pubkeys = NoKeys \/ c.pubkeys \in Seq(Key)
                    /\ c.refund_keys = NoKeys \/ c.refund_keys \in Seq(Key)
                    /\ c.num_sigs \in Nat /\ c.num_sigs_refund \in Nat
                    /\ c.locktime \in Nat

\* The mint refuses a request that lists a proof twice (DuplicateInputs).
ASSUME DistinctInputs ==
    \A r \in Requests : \A i, j \in DOMAIN r.secrets : r.secrets[i] = r.secrets[j] => i = j

VARIABLES inputs, outputs, quote, now, signed

vars == <<inputs, outputs, quote, now, signed>>

\* locktime: absent.
Never == MaxTime + 1

\* SHA-256 of the text itself, and of the bytes that the text encodes.
HashOfText(p) == <<"text", p>>

HashOfBytes(p) == <<"bytes", p>>

-----------------------------------------------------------------------------
(* Witnesses.  "none" is Option::None; an HTLC witness need not hold a     *)
(* list of signatures (hasSigs), a P2PK witness always does.               *)

NoWitness == [kind |-> "none", preimage |-> NoData, hasSigs |-> FALSE, sigs |-> <<>>]

P2pkWitness(sigs) ==
    [kind |-> "p2pk", preimage |-> NoData, hasSigs |-> TRUE, sigs |-> sigs]

HtlcWitness(p, hasSigs, sigs) ==
    [kind |-> "htlc", preimage |-> p, hasSigs |-> hasSigs, sigs |-> sigs]

\* An HTLC witness without a list of signatures stays without one.
AddSignatures(w, new) ==
    IF w.hasSigs THEN [w EXCEPT !.sigs = @ \o new] ELSE w

WithSignatures(w, new) ==
    IF w.kind = "none" THEN P2pkWitness(new) ELSE AddSignatures(w, new)

\* Both list the signatures that the witness held before.
WithPreimage(w, p) == HtlcWitness(p, w.hasSigs, w.sigs)

-----------------------------------------------------------------------------
(* Messages, and who has validly signed one.                               *)

SecretMsg(s) == [secrets |-> <<s>>, outputs |-> <<>>, quote |-> NoQuote]

Secrets(ins) == [i \in DOMAIN ins |-> ins[i].secret]

BlindedSecrets(outs) == [i \in DOMAIN outs |-> outs[i].blinded_secret]

\* Mutant: the outputs are not part of what is signed.
SigAllMsgToSignInputs(ins, outs, q) ==
    [secrets |-> Secrets(ins), outputs |-> <<>>, quote |-> q]

\* Of the outputs the blinded secrets are signed, not the amount or keyset.
SigAllMsgToSign(ins, outs, q) ==
    [secrets |-> Secrets(ins), outputs |-> BlindedSecrets(outs), quote |-> q]

Signers(msg, keys, sigs) ==
    {k \in Range(keys) : \E i \in DOMAIN sigs : sigs[i] = <<k, msg>>}

\* A key of the list whose signature is found a second time: because it
\* signed twice, or because it is listed twice.
DuplicateSignature(msg, keys, sigs) ==
    \E m, n \in (DOMAIN keys) \X (DOMAIN sigs) :
        /\ m # n
        /\ keys[m[1]] = keys[n[1]]
        /\ sigs[m[2]] = <<keys[m[1]], msg>>
        /\ sigs[n[2]] = <<keys[n[1]], msg>>

\* Mutant: every valid signature counts, not every key.
ValidSignaturesCounted(msg, keys, sigs, required) ==
    Cardinality({i \in DOMAIN sigs :
                    \E k \in Range(keys) : sigs[i] = <<k, msg>>}) >= required

ValidSignatures(msg, keys, sigs, required) ==
    /\ ~DuplicateSignature(msg, keys, sigs)
    /\ Cardinality(Signers(msg, keys, sigs)) >= required

-----------------------------------------------------------------------------
(* What the mint checks of each proof.                                     *)

\* unwrap_or_default
UnwrapOrDefault(keys) == IF keys = NoKeys THEN <<>> ELSE keys

\* The keys of the conditions and, for P2PK, the key the secret is for.
PubkeyList(s) ==
    LET keys == UnwrapOrDefault(s.conditions.pubkeys)
    IN  IF s.kind = "p2pk" THEN Append(keys, s.data) ELSE keys

RefundList(s) == UnwrapOrDefault(s.conditions.refund_keys)

(***************************************************************************)
(* The refund keys have signed: the loop returns Ok at a valid signature,  *)
(* so that one is needed even where none is asked for.                     *)
(***************************************************************************)
Refunded(p) ==
    LET signers == Signers(SecretMsg(p.secret), RefundList(p.secret), p.witness.sigs)
    IN  signers # {} /\ Cardinality(signers) >= p.secret.conditions.num_sigs_refund

\* Mutant: the locktime is over one second late, as it is for an HTLC.
VerifyP2pkLate(p) ==
    LET c == p.secret.conditions
    IN  /\ p.witness.hasSigs
        /\ IF now > c.locktime
           THEN c.refund_keys = NoKeys \/ Refunded(p)
           ELSE ValidSignatures(SecretMsg(p.secret), PubkeyList(p.secret),
                                p.witness.sigs, c.num_sigs)

\* After the locktime the refund keys take over; without the tag, whoever
\* presents a witness spends the proof.
VerifyP2pk(p) ==
    LET c == p.secret.conditions
    IN  /\ p.witness.hasSigs
        /\ IF now >= c.locktime
           THEN c.refund_keys = NoKeys \/ Refunded(p)
           ELSE ValidSignatures(SecretMsg(p.secret), PubkeyList(p.secret),
                                p.witness.sigs, c.num_sigs)

\* The locktime of an HTLC is over one second later than that of P2PK, and one
\* refund signature is enough whenever a locktime is set, before it as after it.
\* A list of refund keys, be it empty, makes a list of signatures mandatory.
VerifyHtlc(p) ==
    LET c == p.secret.conditions
        w == p.witness
        msg == SecretMsg(p.secret)
        refundable == c.locktime # Never /\ c.refund_keys # NoKeys
        refunds == RefundList(p.secret)
    IN  /\ w.kind = "htlc"
        /\ \/ c.refund_keys = NoKeys /\ c.locktime < now
           \/ /\ refundable => w.hasSigs /\ ~DuplicateSignature(msg, refunds, w.sigs)
              /\ \/ refundable /\ Signers(msg, refunds, w.sigs) # {}
                 \/ /\ \/ c.pubkeys = NoKeys
                       \/ /\ w.hasSigs
                          /\ ValidSignatures(msg, PubkeyList(p.secret), w.sigs, c.num_sigs)
                    /\ p.secret.data = HashOfText(w.preimage)

VerifyProof(p) ==
    CASE p.secret.kind = "p2pk" -> VerifyP2pk(p)
      [] p.secret.kind = "htlc" -> VerifyHtlc(p)
      [] OTHER -> TRUE

-----------------------------------------------------------------------------
(* What it checks of the request as a whole.                               *)

EnforceSigAll(ins) ==
    \E i \in DOMAIN ins : ins[i].secret.conditions.sig_flag = "SIG_ALL"

\* The first input decides: only P2PK can ask for SIG_ALL.
SigAllRequired(ins) ==
    /\ ins[1].secret.kind = "p2pk"
    /\ ins[1].secret.conditions.sig_flag = "SIG_ALL"

VerifyMatchingConditions(ins) ==
    \A i \in DOMAIN ins :
        /\ ins[i].secret.kind # "plain"
        /\ ins[i].secret.data = ins[1].secret.data
        /\ ins[i].secret.conditions = ins[1].secret.conditions

\* Unlike the list of a single proof, this one names each key once.
Pubkeys(s) == [k \in Range(PubkeyList(s)) |-> k]

VerifySigAll(ins, outs, q) ==
    LET first == ins[1]
    IN  /\ SigAllRequired(ins)
        /\ VerifyMatchingConditions(ins)
        /\ first.witness.hasSigs
        /\ ValidSignatures(SigAllMsgToSign(ins, outs, q), Pubkeys(first.secret),
                           first.witness.sigs, first.secret.conditions.num_sigs)

Accepts ==
    /\ \A i \in DOMAIN inputs : VerifyProof(inputs[i])
    /\ EnforceSigAll(inputs) => VerifySigAll(inputs, outputs, quote)

-----------------------------------------------------------------------------
(* The parties.                                                            *)

Init ==
    \E r \in Requests :
        /\ inputs = [i \in DOMAIN r.secrets |->
                        [secret |-> r.secrets[i], witness |-> NoWitness]]
        /\ outputs = r.outputs
        /\ quote = r.quote
        /\ now = 0
        /\ signed = {}

Room(ins) == \A i \in DOMAIN ins : Len(ins[i].witness.sigs) <= MaxSigs

\* A party signs one proof.
SignP2pk(i, k) ==
    LET msg == SecretMsg(inputs[i].secret)
    IN  /\ inputs' = [inputs EXCEPT ![i].witness = WithSignatures(@, <<<<k, msg>>>>)]
        /\ Room(inputs')
        /\ signed' = signed \cup {<<k, msg>>}
        /\ UNCHANGED <<outputs, quote, now>>

AddPreimage(i, p) ==
    /\ inputs[i].secret.kind = "htlc"
    /\ inputs' = [inputs EXCEPT ![i].witness = WithPreimage(@, p)]
    /\ UNCHANGED <<outputs, quote, now, signed>>

\* A party signs the whole request; the signature goes to the first witness.
SignSigAll(k) ==
    LET msg == SigAllMsgToSign(inputs, outputs, quote)
    IN  /\ SigAllRequired(inputs)
        /\ k \in Range(PubkeyList(inputs[1].secret))
        /\ VerifyMatchingConditions(inputs)
        /\ inputs' = [inputs EXCEPT ![1].witness = WithSignatures(@, <<<<k, msg>>>>)]
        /\ Room(inputs')
        /\ signed' = signed \cup {<<k, msg>>}
        /\ UNCHANGED <<outputs, quote, now>>

\* The signed proofs go into a new request, with other outputs.
Rebuild(outs) ==
    /\ outs # outputs
    /\ outputs' = outs
    /\ UNCHANGED <<inputs, quote, now, signed>>

\* The keys of ks that Receive signs a proof with: one signature per listing.
Listed(s, ks) == SelectSeq(PubkeyList(s), LAMBDA k : k \in ks)

\* What SelectSeq returns.
ASSUME ListedKeys ==
    \A r \in Requests, ks \in SUBSET Key :
        \A i \in DOMAIN r.secrets : Listed(r.secrets[i], ks) \in Seq(Key)

\* Receive looks a preimage up under the hash of the bytes it encodes.
Received(p, ks, ps) ==
    LET s == p.secret
        w == IF s.kind = "htlc"
             THEN WithPreimage(p.witness, CHOOSE x \in ps : s.data = HashOfBytes(x))
             ELSE p.witness
        sigs == [i \in DOMAIN Listed(s, ks) |-> <<Listed(s, ks)[i], SecretMsg(s)>>]
    IN  [p EXCEPT !.witness = IF sigs = <<>> THEN w ELSE WithSignatures(w, sigs)]

\* Wallet::receive_proofs up to the posting of the swap: it signs every proof
\* with the keys that are listed, never with SignSigAll, and asks for outputs of
\* its own.
Receive(ks, ps, outs) ==
    /\ quote = NoQuote
    /\ \A i \in DOMAIN inputs :
           inputs[i].secret.kind = "htlc"
               => \E x \in ps : inputs[i].secret.data = HashOfBytes(x)
    /\ inputs' = [i \in DOMAIN inputs |-> Received(inputs[i], ks, ps)]
    /\ Room(inputs')
    /\ outputs' = outs
    /\ signed' = signed \cup
           UNION {{<<k, SecretMsg(s)>> : k \in Range(Listed(s, ks))} : s \in Range(Secrets(inputs))}
    /\ UNCHANGED <<quote, now>>

Tick ==
    /\ now < MaxTime
    /\ now' = now + 1
    /\ UNCHANGED <<inputs, outputs, quote, signed>>

Next ==
    \/ \E i \in DOMAIN inputs, k \in Key : SignP2pk(i, k)
    \/ \E i \in DOMAIN inputs, p \in Preimage : AddPreimage(i, p)
    \/ \E k \in Key : SignSigAll(k)
    \/ \E ks \in SUBSET Key, ps \in SUBSET Preimage, outs \in Outputs :
           Receive(ks, ps, outs)
    \/ \E outs \in Outputs : Rebuild(outs)
    \/ Tick

Spec == Init /\ [][Next]_vars

-----------------------------------------------------------------------------
(* What the locks promise, in terms of what the parties have signed.       *)

Consents(keys, msg) == {k \in Range(keys) : <<k, msg>> \in signed}

\* The key holders whose word counts now have agreed to spend the secret.
HoldersAgree(s) ==
    LET c == s.conditions
        refunding == Consents(RefundList(s), SecretMsg(s))
    IN  IF now >= c.locktime
        THEN \/ c.refund_keys = NoKeys
             \/ refunding # {} /\ Cardinality(refunding) >= c.num_sigs_refund
        ELSE Cardinality(Consents(PubkeyList(s), SecretMsg(s))) >= c.num_sigs

\* An HTLC is spent, once the locktime has come, by a refund key or, if it has
\* no refund tag, by anybody; and at any time by the holders together with the
\* preimage.
HtlcAgrees(p) ==
    LET c == p.secret.conditions
        msg == SecretMsg(p.secret)
    IN  \/ c.locktime =< now /\ c.refund_keys = NoKeys
        \/ c.locktime =< now /\ Consents(RefundList(p.secret), msg) # {}
        \/ /\ p.secret.data = HashOfText(p.witness.preimage)
           /\ \/ c.pubkeys = NoKeys
              \/ Cardinality(Consents(PubkeyList(p.secret), msg)) >= c.num_sigs

\* What verify_htlc lets pass although conditions call the locktime the time
\* "after which refund keys can be used": a refund key signs before it.
RefundsEarly(p) ==
    LET c == p.secret.conditions
    IN  /\ now < c.locktime /\ c.locktime # Never
        /\ Consents(RefundList(p.secret), SecretMsg(p.secret)) # {}

NoRepeats(f) == \A i, j \in DOMAIN f : f[i] = f[j] => i = j

\* The state has the shape the code's types give it: a P2PK witness always has a
\* list of signatures, and a witness without a list holds none (Witness).
TypeOK ==
    /\ now \in 0..MaxTime
    /\ \A i \in DOMAIN inputs :
           LET w == inputs[i].witness
           IN  /\ w.kind \in {"none", "p2pk", "htlc"}
               /\ w.kind = "p2pk" => w.hasSigs
               /\ ~w.hasSigs => w.sigs = <<>>
               /\ Range(w.sigs) \subseteq signed

\* Whatever order the parties sign in, however often, and whichever request the
\* proofs end up in, the mint accepts a request only if, for each input, the
\* holders entitled to it at this moment have agreed to spend it: enough different
\* keys before the locktime, enough refund keys after it (verify_p2pk), or one of
\* the ways of an HTLC (verify_htlc).  The one exception, by name: a refund key of
\* an HTLC may spend it before the locktime, which nut11 does not intend.
AcceptedIsAuthorised ==
    Accepts => \A i \in DOMAIN inputs :
                   CASE inputs[i].secret.kind = "p2pk" -> HoldersAgree(inputs[i].secret)
                     [] inputs[i].secret.kind = "htlc" -> \/ HtlcAgrees(inputs[i])
                                                         \/ RefundsEarly(inputs[i])
                     [] OTHER -> TRUE

\* If one input asks for SIG_ALL, the mint accepts only what enough holders signed
\* as it stands: these inputs in this order, under one set of conditions, these
\* blinded secrets and this quote.  Signatures collected for an earlier version of
\* the request do not carry over (verify_sig_all), unless it differs in the amounts
\* or the keysets of the outputs alone: those are not part of the message.
SigAllBinds ==
    Accepts /\ EnforceSigAll(inputs)
        => LET first == inputs[1].secret
               msg == [secrets |-> Secrets(inputs), outputs |-> BlindedSecrets(outputs),
                       quote |-> quote]
           IN  /\ \A i \in DOMAIN inputs :
                      /\ inputs[i].secret.data = first.data
                      /\ inputs[i].secret.conditions = first.conditions
               /\ Cardinality(Consents(PubkeyList(first), msg)) >= first.conditions.num_sigs

\* Conversely, P2PK inputs without SIG_ALL are accepted as soon as the holders
\* agree, provided that every input has a witness, nobody signed it twice and its
\* conditions list no key twice (the two cases of DuplicateSignature).
AuthorisedIsAccepted ==
    (\A i \in DOMAIN inputs :
        LET p == inputs[i]
        IN  /\ p.secret.kind = "p2pk"
            /\ p.secret.conditions.sig_flag = "SIG_INPUTS"
            /\ NoRepeats(PubkeyList(p.secret))
            /\ NoRepeats(p.witness.sigs)
            /\ p.witness.kind # "none"
            /\ HoldersAgree(p.secret))
    => Accepts

=============================================================================
