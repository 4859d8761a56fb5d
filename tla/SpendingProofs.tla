--------------------------- MODULE SpendingProofs ---------------------------
(***************************************************************************)
(* Proofs about SpendingConditions, for any keys, preimages, requests and  *)
(* bounds: the signatures that a witness holds have been made, what the    *)
(* mint counts of them are keys of holders who agreed, and no signature is *)
(* lost on the way to the mint.                                            *)
(***************************************************************************)
EXTENDS SpendingConditions, FiniteSetTheorems, SequenceTheorems, TLAPS

Asked(s) == \E r \in Requests : \E j \in DOMAIN r.secrets : s = r.secrets[j]

(***************************************************************************)
(* A witness whose signatures are among the given ones.                    *)
(***************************************************************************)
Witnesses(sigs) ==
    {w \in [kind : {"none", "p2pk", "htlc"}, preimage : Preimage \cup {NoData},
            hasSigs : BOOLEAN, sigs : Seq(sigs)] :
        /\ w.kind = "p2pk" => w.hasSigs
        /\ ~w.hasSigs => w.sigs = <<>>}

InputOK(p, sigs) ==
    /\ p = [secret |-> p.secret, witness |-> p.witness]
    /\ Asked(p.secret)
    /\ p.witness \in Witnesses(sigs)

SpendInv ==
    /\ 1 \in DOMAIN inputs
    /\ inputs = [i \in DOMAIN inputs |-> inputs[i]]
    /\ \A i \in DOMAIN inputs : InputOK(inputs[i], signed)
    /\ now \in 0..MaxTime

-----------------------------------------------------------------------------
(***************************************************************************)
(* Witnesses stay witnesses when more has been signed.                     *)
(***************************************************************************)
LEMMA MoreSigned ==
    ASSUME NEW S, NEW T, S \subseteq T, NEW p, InputOK(p, S)
    PROVE  InputOK(p, T)
  <1>1. Seq(S) \subseteq Seq(T)
    BY SeqMonotonic, Zenon
  <1> QED
    BY <1>1, Zenon DEF InputOK, Witnesses

(***************************************************************************)
(* Adding signatures to a witness: one without a list stays without.       *)
(***************************************************************************)
LEMMA Signing ==
    ASSUME NEW S, NEW w \in Witnesses(S), NEW new \in Seq(S)
    PROVE  WithSignatures(w, new) \in Witnesses(S)
  <1>1. w.sigs \o new \in Seq(S)
    BY ConcatProperties, Zenon DEF Witnesses
  <1>2. CASE w.kind = "none"
    BY <1>2, Zenon DEF WithSignatures, P2pkWitness, Witnesses
  <1>3. CASE w.kind # "none" /\ w.hasSigs
    <2>1. WithSignatures(w, new) = [w EXCEPT !.sigs = w.sigs \o new]
      BY <1>3, Zenon DEF WithSignatures, AddSignatures
    <2> QED
      BY <1>1, <1>3, <2>1, Zenon DEF Witnesses
  <1>4. CASE w.kind # "none" /\ ~w.hasSigs
    BY <1>4, Zenon DEF WithSignatures, AddSignatures
  <1> QED
    BY <1>2, <1>3, <1>4, Zenon

(***************************************************************************)
(* Adding a preimage keeps the signatures.                                 *)
(***************************************************************************)
LEMMA AddingPreimage ==
    ASSUME NEW S, NEW w \in Witnesses(S), NEW p \in Preimage
    PROVE  WithPreimage(w, p) \in Witnesses(S)
  BY Zenon DEF WithPreimage, HtlcWitness, Witnesses

(***************************************************************************)
(* Replacing the witness of one input.                                     *)
(***************************************************************************)
LEMMA NewWitness ==
    ASSUME SpendInv, NEW i \in DOMAIN inputs, NEW w, NEW S, signed \subseteq S,
           w \in Witnesses(S),
           inputs' = [inputs EXCEPT ![i].witness = w]
    PROVE  /\ 1 \in DOMAIN inputs'
           /\ inputs' = [j \in DOMAIN inputs' |-> inputs'[j]]
           /\ \A j \in DOMAIN inputs' : InputOK(inputs'[j], S)
  <1>1. /\ inputs = [j \in DOMAIN inputs |-> inputs[j]] /\ 1 \in DOMAIN inputs
        /\ \A j \in DOMAIN inputs : InputOK(inputs[j], signed)
    BY Zenon DEF SpendInv
  <1>2. inputs' = [inputs EXCEPT ![i] = [inputs[i] EXCEPT !.witness = w]]
    BY Zenon
  <1>3. /\ DOMAIN inputs' = DOMAIN inputs
        /\ inputs' = [j \in DOMAIN inputs' |-> inputs'[j]]
        /\ inputs'[i] = [inputs[i] EXCEPT !.witness = w]
        /\ \A j \in DOMAIN inputs : j # i => inputs'[j] = inputs[j]
    BY <1>1, <1>2, Zenon
  <1>4. InputOK(inputs'[i], S)
    <2>1. inputs[i] = [secret |-> inputs[i].secret, witness |-> inputs[i].witness]
      BY <1>1, Zenon DEF InputOK
    <2>2. inputs'[i] = [secret |-> inputs[i].secret, witness |-> w]
      BY <1>3, <2>1, Zenon
    <2> QED
      BY <1>1, <2>2, Zenon DEF InputOK
  <1>5. \A j \in DOMAIN inputs : j # i => InputOK(inputs'[j], S)
    BY <1>1, <1>3, MoreSigned, Zenon
  <1> QED
    BY <1>1, <1>3, <1>4, <1>5, Zenon

-----------------------------------------------------------------------------
(***************************************************************************)
(* A request starts without witnesses.                                     *)
(***************************************************************************)
LEMMA SpendInit == Init => SpendInv
  <1> SUFFICES ASSUME Init PROVE SpendInv
    BY Zenon
  <1>1. PICK r \in Requests :
            inputs = [i \in DOMAIN r.secrets |->
                         [secret |-> r.secrets[i], witness |-> NoWitness]]
    BY Zenon DEF Init
  <1>2. NoWitness \in Witnesses(signed)
    BY DEF NoWitness, Witnesses
  <1>3. \A i \in DOMAIN inputs : InputOK(inputs[i], signed)
    BY <1>1, <1>2, Zenon DEF InputOK, Asked
  <1> QED
    <2>1. 1 \in DOMAIN inputs /\ inputs = [i \in DOMAIN inputs |-> inputs[i]]
      BY <1>1, SpendingConstants, Zenon
    <2>2. now \in 0..MaxTime
      BY SpendingConstants DEF Init
    <2> QED
      BY <1>3, <2>1, <2>2, Zenon DEF SpendInv

(***************************************************************************)
(* Signing and rebuilding, by whoever and in whatever order, leave         *)
(* witnesses whose signatures have been made.                              *)
(***************************************************************************)
LEMMA SpendNext == SpendInv /\ [Next]_vars => SpendInv'
  <1> SUFFICES ASSUME SpendInv, [Next]_vars PROVE SpendInv'
    BY Zenon
  <1>1. CASE UNCHANGED vars
    BY <1>1, Zenon DEF vars, SpendInv
  <1>2. ASSUME NEW i \in DOMAIN inputs, NEW k, NEW msg,
               inputs' = [inputs EXCEPT ![i].witness = WithSignatures(@, <<<<k, msg>>>>)],
               signed' = signed \cup {<<k, msg>>}, now' = now
        PROVE  SpendInv'
    <2>1. InputOK(inputs[i], signed')
      BY <1>2, MoreSigned, Zenon DEF SpendInv
    <2>2. <<<<k, msg>>>> \in Seq(signed')
      BY <1>2
    <2>3. WithSignatures(inputs[i].witness, <<<<k, msg>>>>) \in Witnesses(signed')
      BY <2>1, <2>2, Signing, Zenon DEF InputOK
    <2>4. inputs' = [inputs EXCEPT ![i].witness
                        = WithSignatures(inputs[i].witness, <<<<k, msg>>>>)]
      BY <1>2, Zenon DEF SpendInv
    <2>5. /\ 1 \in DOMAIN inputs'
          /\ inputs' = [j \in DOMAIN inputs' |-> inputs'[j]]
          /\ \A j \in DOMAIN inputs' : InputOK(inputs'[j], signed')
      <3>1. signed \subseteq signed' /\ i \in DOMAIN inputs
        BY <1>2, Zenon
      <3> QED
        BY <2>3, <2>4, <3>1, NewWitness, Zenon
    <2> QED
      BY <1>2, <2>5, Zenon DEF SpendInv
  <1>3. ASSUME NEW i \in DOMAIN inputs, NEW k \in Key, SignP2pk(i, k) PROVE SpendInv'
    BY <1>2, <1>3, Zenon DEF SignP2pk
  <1>4. ASSUME NEW k \in Key, SignSigAll(k) PROVE SpendInv'
    <2>1. 1 \in DOMAIN inputs
      BY Zenon DEF SpendInv
    <2> QED
      BY <1>2, <1>4, <2>1, Zenon DEF SignSigAll
  <1>5. ASSUME NEW i \in DOMAIN inputs, NEW p \in Preimage, AddPreimage(i, p) PROVE SpendInv'
    <2>1. inputs[i].witness \in Witnesses(signed)
      BY Zenon DEF SpendInv, InputOK
    <2>2. WithPreimage(inputs[i].witness, p) \in Witnesses(signed)
      BY <2>1, AddingPreimage, Zenon
    <2>3. /\ inputs' = [inputs EXCEPT ![i].witness = WithPreimage(inputs[i].witness, p)]
          /\ signed' = signed /\ now' = now
      BY <1>5, Zenon DEF AddPreimage, SpendInv
    <2>4. /\ 1 \in DOMAIN inputs'
          /\ inputs' = [j \in DOMAIN inputs' |-> inputs'[j]]
          /\ \A j \in DOMAIN inputs' : InputOK(inputs'[j], signed)
      BY <2>2, <2>3, NewWitness, Zenon
    <2> QED
      BY <2>3, <2>4, Zenon DEF SpendInv
  <1>6. ASSUME NEW ks \in SUBSET Key, NEW ps \in SUBSET Preimage, NEW outs \in Outputs,
               Receive(ks, ps, outs)
        PROVE  SpendInv'
    <2>1. /\ inputs' = [i \in DOMAIN inputs |-> Received(inputs[i], ks, ps)]
          /\ signed' = signed \cup
                UNION {{<<k, SecretMsg(s)>> : k \in Range(Listed(s, ks))} :
                           s \in Range(Secrets(inputs))}
          /\ now' = now
      BY <1>6, Zenon DEF Receive
    <2>2. ASSUME NEW i \in DOMAIN inputs
          PROVE  InputOK(Received(inputs[i], ks, ps), signed')
      <3> DEFINE p == inputs[i]
                 s == p.secret
                 w == IF s.kind = "htlc"
                      THEN WithPreimage(p.witness, CHOOSE x \in ps : s.data = HashOfBytes(x))
                      ELSE p.witness
                 sigs == [j \in DOMAIN Listed(s, ks) |-> <<Listed(s, ks)[j], SecretMsg(s)>>]
      <3>1. InputOK(p, signed')
        BY <2>1, MoreSigned, Zenon DEF SpendInv
      <3>2. w \in Witnesses(signed')
        <4>1. CASE s.kind = "htlc"
          <5>1. (CHOOSE x \in ps : s.data = HashOfBytes(x)) \in Preimage
            BY <1>6, <4>1, Zenon DEF Receive
          <5> QED
            BY <3>1, <4>1, <5>1, AddingPreimage, Zenon DEF InputOK
        <4>2. CASE s.kind # "htlc"
          BY <3>1, <4>2, Zenon DEF InputOK
        <4> QED
          BY <4>1, <4>2, Zenon
      <3>3. sigs \in Seq(signed')
        <4>1. s \in Range(Secrets(inputs))
          BY Zenon DEF Secrets, Range
        <4>2. \A k \in Range(Listed(s, ks)) : <<k, SecretMsg(s)>> \in signed'
          BY <2>1, <4>1
        <4>3. Listed(s, ks) \in Seq(Key)
          BY <3>1, ListedKeys, Zenon DEF InputOK, Asked
        <4>4. \A j \in 1..Len(Listed(s, ks)) : sigs[j] \in signed'
          BY <4>2, <4>3 DEF Range
        <4>5. sigs = [j \in 1..Len(Listed(s, ks)) |-> sigs[j]] /\ Len(Listed(s, ks)) \in Nat
          BY <4>3
        <4> HIDE DEF sigs
        <4> QED
          BY <4>4, <4>5, IsASeq
      <3>4. Received(p, ks, ps)
                = [p EXCEPT !.witness = IF sigs = <<>> THEN w ELSE WithSignatures(w, sigs)]
        BY Zenon DEF Received
      <3> HIDE DEF w, sigs
      <3>5. (IF sigs = <<>> THEN w ELSE WithSignatures(w, sigs)) \in Witnesses(signed')
        BY <3>2, <3>3, Signing, Zenon
      <3>6. /\ Received(p, ks, ps).secret = p.secret
            /\ Received(p, ks, ps).witness \in Witnesses(signed')
            /\ Received(p, ks, ps) = [secret |-> Received(p, ks, ps).secret,
                                      witness |-> Received(p, ks, ps).witness]
        BY <3>1, <3>4, <3>5, Zenon DEF InputOK
      <3> QED
        BY <3>1, <3>6, Zenon DEF InputOK
    <2> QED
      BY <2>1, <2>2, Zenon DEF SpendInv
  <1>7. ASSUME NEW outs \in Outputs, Rebuild(outs) PROVE SpendInv'
    BY <1>7, Zenon DEF Rebuild, SpendInv
  <1>8. CASE Tick
    BY <1>8, SpendingConstants DEF Tick, SpendInv
  <1> QED
    BY <1>1, <1>3, <1>4, <1>5, <1>6, <1>7, <1>8, Zenon DEF Next

(***************************************************************************)
(* Every witness holds signatures that have been made.                     *)
(***************************************************************************)
THEOREM SpendInvariant == Spec => []SpendInv
  BY SpendInit, SpendNext, PTL DEF Spec

(***************************************************************************)
(* A P2PK witness has a list of signatures, a witness without a list holds *)
(* none, and the signatures it holds have been made.                       *)
(***************************************************************************)
THEOREM SpendTypeCorrect == Spec => []TypeOK
  <1>1. SpendInv => TypeOK
    <2> SUFFICES ASSUME SpendInv, NEW i \in DOMAIN inputs
                 PROVE  /\ now \in 0..MaxTime
                        /\ inputs[i].witness.kind \in {"none", "p2pk", "htlc"}
                        /\ inputs[i].witness.kind = "p2pk" => inputs[i].witness.hasSigs
                        /\ ~inputs[i].witness.hasSigs => inputs[i].witness.sigs = <<>>
                        /\ Range(inputs[i].witness.sigs) \subseteq signed
      BY Zenon DEF TypeOK, SpendInv
    <2>1. inputs[i].witness \in Witnesses(signed)
      BY Zenon DEF SpendInv, InputOK
    <2> QED
      BY <2>1 DEF SpendInv, Witnesses, Range
  <1> QED
    BY <1>1, SpendInvariant, PTL

-----------------------------------------------------------------------------
(***************************************************************************)
(* The keys that the mint counts are keys of holders who signed.           *)
(***************************************************************************)
LEMMA SignersConsent ==
    ASSUME NEW keys, Range(keys) \subseteq Key, NEW sigs \in Seq(signed), NEW msg
    PROVE  /\ Signers(msg, keys, sigs) \subseteq Consents(keys, msg)
           /\ Cardinality(Signers(msg, keys, sigs)) \in Nat
           /\ Cardinality(Consents(keys, msg)) \in Nat
           /\ Cardinality(Signers(msg, keys, sigs)) <= Cardinality(Consents(keys, msg))
  <1>1. Signers(msg, keys, sigs) \subseteq Consents(keys, msg)
    BY DEF Signers, Consents
  <1>2. IsFiniteSet(Consents(keys, msg))
    <2>1. Consents(keys, msg) \in SUBSET Key
      BY Zenon DEF Consents
    <2> QED
      BY <2>1, SpendingConstants, FS_Subset, Zenon
  <1> QED
    BY <1>1, <1>2, FS_Subset, FS_CardinalityType, Zenon

(***************************************************************************)
(* The keys of a secret are keys.                                          *)
(***************************************************************************)
LEMMA KeysOfSecret ==
    ASSUME NEW s, Asked(s)
    PROVE  /\ s.kind \in {"p2pk", "htlc", "plain"}
           /\ s.kind \in {"p2pk", "htlc"} => Range(PubkeyList(s)) \subseteq Key
           /\ Range(RefundList(s)) \subseteq Key
           /\ s.conditions.num_sigs \in Nat /\ s.conditions.num_sigs_refund \in Nat
           /\ s.conditions.locktime \in Nat
  <1>1. /\ s.kind \in {"p2pk", "htlc", "plain"}
        /\ s.kind = "p2pk" => s.data \in Key
        /\ s.conditions.pubkeys = NoKeys \/ s.conditions.pubkeys \in Seq(Key)
        /\ s.conditions.refund_keys = NoKeys \/ s.conditions.refund_keys \in Seq(Key)
        /\ s.conditions.num_sigs \in Nat /\ s.conditions.num_sigs_refund \in Nat
        /\ s.conditions.locktime \in Nat
    BY SpendingConstants, Zenon DEF Asked
  <1>2. \A keys \in Seq(Key) : Range(keys) \subseteq Key
    BY DEF Range
  <1>3. \A keys : keys = NoKeys \/ keys \in Seq(Key) => UnwrapOrDefault(keys) \in Seq(Key)
    <2>1. <<>> \in Seq(Key)
      OBVIOUS
    <2> QED
      BY <2>1, Zenon DEF UnwrapOrDefault
  <1>4. RefundList(s) \in Seq(Key) /\ UnwrapOrDefault(s.conditions.pubkeys) \in Seq(Key)
    BY <1>1, <1>3, Zenon DEF RefundList
  <1>5. s.kind \in {"p2pk", "htlc"} => PubkeyList(s) \in Seq(Key)
    BY <1>1, <1>4, AppendProperties, Zenon DEF PubkeyList
  <1> QED
    BY <1>1, <1>2, <1>4, <1>5, Zenon

(***************************************************************************)
(* What the mint accepts was authorised: each input was agreed to by the   *)
(* holders whose word counts at the time, in any reachable state; but for  *)
(* the refund keys of an HTLC, which verify_htlc accepts before their time.*)
(***************************************************************************)
THEOREM AcceptedWasAuthorised == Spec => []AcceptedIsAuthorised
  <1>1. ASSUME SpendInv, NEW i \in DOMAIN inputs, inputs[i].secret.kind = "p2pk",
               VerifyP2pk(inputs[i])
        PROVE  HoldersAgree(inputs[i].secret)
    <2> DEFINE s == inputs[i].secret
               c == s.conditions
               sigs == inputs[i].witness.sigs
    <2>1. Asked(s) /\ sigs \in Seq(signed)
      BY <1>1, Zenon DEF SpendInv, InputOK, Witnesses
    <2>2. /\ Range(PubkeyList(s)) \subseteq Key /\ Range(RefundList(s)) \subseteq Key
          /\ c.num_sigs \in Nat /\ c.num_sigs_refund \in Nat
      BY <1>1, <2>1, KeysOfSecret, Zenon
    <2> HIDE DEF s, c, sigs
    <2>3. CASE now >= c.locktime
      <3> DEFINE signers == Signers(SecretMsg(s), RefundList(s), sigs)
                 holders == Consents(RefundList(s), SecretMsg(s))
      <3>1. \/ c.refund_keys = NoKeys
            \/ signers # {} /\ Cardinality(signers) >= c.num_sigs_refund
        BY <1>1, <2>3, Zenon DEF VerifyP2pk, Refunded, s, c, sigs
      <3>2. /\ signers \subseteq holders
            /\ Cardinality(signers) \in Nat /\ Cardinality(holders) \in Nat
            /\ Cardinality(signers) <= Cardinality(holders)
        BY <2>1, <2>2, SignersConsent, Zenon
      <3> HIDE DEF signers, holders
      <3>3. Cardinality(signers) >= c.num_sigs_refund => Cardinality(holders) >= c.num_sigs_refund
        BY <2>2, <3>2
      <3>4. \/ c.refund_keys = NoKeys
            \/ holders # {} /\ Cardinality(holders) >= c.num_sigs_refund
        BY <3>1, <3>2, <3>3, Zenon
      <3> QED
        BY <2>3, <3>4, Zenon DEF HoldersAgree, s, c, holders
    <2>4. CASE ~(now >= c.locktime)
      <3>1. Cardinality(Signers(SecretMsg(s), PubkeyList(s), sigs)) >= c.num_sigs
        BY <1>1, <2>4, Zenon DEF VerifyP2pk, ValidSignatures, s, c, sigs
      <3>2. /\ Cardinality(Signers(SecretMsg(s), PubkeyList(s), sigs)) \in Nat
            /\ Cardinality(Consents(PubkeyList(s), SecretMsg(s))) \in Nat
            /\ Cardinality(Signers(SecretMsg(s), PubkeyList(s), sigs))
                   <= Cardinality(Consents(PubkeyList(s), SecretMsg(s)))
        BY <2>1, <2>2, SignersConsent, Zenon
      <3>3. Cardinality(Consents(PubkeyList(s), SecretMsg(s))) >= c.num_sigs
        BY <2>2, <3>1, <3>2
      <3> QED
        BY <2>4, <3>3, Zenon DEF HoldersAgree, s, c
    <2> QED
      BY <2>3, <2>4, Zenon
  <1>2. ASSUME SpendInv, NEW i \in DOMAIN inputs, inputs[i].secret.kind = "htlc",
               VerifyHtlc(inputs[i])
        PROVE  HtlcAgrees(inputs[i]) \/ RefundsEarly(inputs[i])
    <2> DEFINE s == inputs[i].secret
               c == s.conditions
               sigs == inputs[i].witness.sigs
               refunding == Consents(RefundList(s), SecretMsg(s))
    <2>1. Asked(s) /\ sigs \in Seq(signed)
      BY <1>2, Zenon DEF SpendInv, InputOK, Witnesses
    <2>2. /\ Range(PubkeyList(s)) \subseteq Key /\ Range(RefundList(s)) \subseteq Key
          /\ c.num_sigs \in Nat /\ c.locktime \in Nat /\ now \in Nat
      <3>1. now \in Nat
        BY <1>2, SpendingConstants DEF SpendInv
      <3> QED
        BY <1>2, <2>1, <3>1, KeysOfSecret, Zenon
    <2> HIDE DEF s, c, sigs
    <2>3. Signers(SecretMsg(s), RefundList(s), sigs) \subseteq refunding
      BY <2>1, <2>2, SignersConsent, Zenon
    <2>4. Cardinality(Signers(SecretMsg(s), PubkeyList(s), sigs)) >= c.num_sigs
              => Cardinality(Consents(PubkeyList(s), SecretMsg(s))) >= c.num_sigs
      <3>1. /\ Cardinality(Signers(SecretMsg(s), PubkeyList(s), sigs)) \in Nat
            /\ Cardinality(Consents(PubkeyList(s), SecretMsg(s))) \in Nat
            /\ Cardinality(Signers(SecretMsg(s), PubkeyList(s), sigs))
                   <= Cardinality(Consents(PubkeyList(s), SecretMsg(s)))
        BY <2>1, <2>2, SignersConsent, Zenon
      <3> QED
        BY <2>2, <3>1
    <2>5. \/ c.refund_keys = NoKeys /\ c.locktime < now
          \/ c.locktime # Never /\ Signers(SecretMsg(s), RefundList(s), sigs) # {}
          \/ /\ \/ c.pubkeys = NoKeys
                \/ Cardinality(Signers(SecretMsg(s), PubkeyList(s), sigs)) >= c.num_sigs
             /\ s.data = HashOfText(inputs[i].witness.preimage)
      BY <1>2, Zenon DEF VerifyHtlc, ValidSignatures, s, c, sigs
    <2>6. (c.locktime < now => c.locktime =< now) /\ (c.locktime =< now \/ now < c.locktime)
      BY <2>2
    <2>7. \/ c.locktime =< now /\ c.refund_keys = NoKeys
          \/ c.locktime =< now /\ refunding # {}
          \/ /\ s.data = HashOfText(inputs[i].witness.preimage)
             /\ \/ c.pubkeys = NoKeys
                \/ Cardinality(Consents(PubkeyList(s), SecretMsg(s))) >= c.num_sigs
          \/ now < c.locktime /\ c.locktime # Never /\ refunding # {}
      BY <2>3, <2>4, <2>5, <2>6, Zenon
    <2> QED
      BY <2>7, Zenon DEF HtlcAgrees, RefundsEarly, s, c
  <1>3. SpendInv => AcceptedIsAuthorised
    <2> SUFFICES ASSUME SpendInv, Accepts, NEW i \in DOMAIN inputs
                 PROVE  CASE inputs[i].secret.kind = "p2pk" -> HoldersAgree(inputs[i].secret)
                          [] inputs[i].secret.kind = "htlc" -> \/ HtlcAgrees(inputs[i])
                                                                \/ RefundsEarly(inputs[i])
                          [] OTHER -> TRUE
      BY Zenon DEF AcceptedIsAuthorised
    <2>1. VerifyProof(inputs[i])
      BY Zenon DEF Accepts
    <2>2. CASE inputs[i].secret.kind = "p2pk"
      BY <1>1, <2>1, <2>2, Zenon DEF VerifyProof
    <2>3. CASE inputs[i].secret.kind = "htlc"
      BY <1>2, <2>1, <2>3, Zenon DEF VerifyProof
    <2> QED
      BY <2>2, <2>3, Zenon
  <1> QED
    BY <1>3, SpendInvariant, PTL

(***************************************************************************)
(* SIG_ALL binds the holders to the request as it stands, in any reachable *)
(* state.                                                                  *)
(***************************************************************************)
THEOREM SigAllIsBinding == Spec => []SigAllBinds
  <1>1. SpendInv => SigAllBinds
    <2> SUFFICES ASSUME SpendInv, Accepts, EnforceSigAll(inputs) PROVE SigAllBinds
      BY Zenon DEF SigAllBinds
    <2> DEFINE s == inputs[1].secret
               msg == SigAllMsgToSign(inputs, outputs, quote)
               sigs == inputs[1].witness.sigs
    <2>1. VerifySigAll(inputs, outputs, quote)
      BY Zenon DEF Accepts
    <2>2. \A i \in DOMAIN inputs : /\ inputs[i].secret.data = s.data
                                   /\ inputs[i].secret.conditions = s.conditions
      BY <2>1, Zenon DEF VerifySigAll, VerifyMatchingConditions
    <2>3. /\ s.kind = "p2pk"
          /\ Cardinality(Signers(msg, Pubkeys(s), sigs)) >= s.conditions.num_sigs
      BY <2>1, Zenon DEF VerifySigAll, SigAllRequired, ValidSignatures
    <2>4. Asked(s) /\ sigs \in Seq(signed)
      BY Zenon DEF SpendInv, InputOK, Witnesses
    <2>5. Range(PubkeyList(s)) \subseteq Key /\ s.conditions.num_sigs \in Nat
      BY <2>3, <2>4, KeysOfSecret, Zenon
    <2> HIDE DEF s, msg, sigs
    <2>6. Signers(msg, Pubkeys(s), sigs) = Signers(msg, PubkeyList(s), sigs)
      BY Zenon DEF Signers, Pubkeys, Range
    <2>7. /\ Cardinality(Signers(msg, PubkeyList(s), sigs)) \in Nat
          /\ Cardinality(Consents(PubkeyList(s), msg)) \in Nat
          /\ Cardinality(Signers(msg, PubkeyList(s), sigs))
                 <= Cardinality(Consents(PubkeyList(s), msg))
      BY <2>4, <2>5, SignersConsent, Zenon
    <2>8. Cardinality(Consents(PubkeyList(s), msg)) >= s.conditions.num_sigs
      BY <2>3, <2>5, <2>6, <2>7
    <2> QED
      BY <2>2, <2>8, Zenon DEF SigAllBinds, SigAllMsgToSign, s, msg
  <1> QED
    BY <1>1, SpendInvariant, PTL

-----------------------------------------------------------------------------
(* What the holders agreed to is accepted.                                 *)

(***************************************************************************)
(* The witness of a P2PK proof holds every signature made for its secret.  *)
(***************************************************************************)
Keeps(p) ==
    p.secret.kind = "p2pk" =>
        /\ p.witness.kind \in {"none", "p2pk"}
        /\ p.witness.kind = "none" => p.witness.sigs = <<>>
        /\ \A k \in Key : <<k, SecretMsg(p.secret)>> \in signed =>
                              <<k, SecretMsg(p.secret)>> \in Range(p.witness.sigs)

(***************************************************************************)
(* No signature is lost: unless the parties sign the request as a whole,   *)
(* each is in the witness of the one input it was made for.                *)
(***************************************************************************)
KeptInv ==
    /\ \A i, j \in DOMAIN inputs : inputs[i].secret = inputs[j].secret => i = j
    /\ ~SigAllRequired(inputs) => \A i \in DOMAIN inputs : Keeps(inputs[i])

(***************************************************************************)
(* Different secrets are signed by different messages.                     *)
(***************************************************************************)
LEMMA OneMessage ==
    ASSUME NEW r, NEW s, SecretMsg(r) = SecretMsg(s)
    PROVE  r = s
  <1>1. SecretMsg(r).secrets[1] = r /\ SecretMsg(s).secrets[1] = s
    BY DEF SecretMsg
  <1> QED
    BY <1>1, Zenon

(***************************************************************************)
(* New signatures join the old ones.                                       *)
(***************************************************************************)
LEMMA SignaturesJoin ==
    ASSUME NEW S, NEW w \in Witnesses(S), NEW new \in Seq(S), w.kind \in {"none", "p2pk"},
           w.kind = "none" => w.sigs = <<>>
    PROVE  /\ WithSignatures(w, new).kind = "p2pk"
           /\ \A x : x \in Range(w.sigs) \/ x \in Range(new) =>
                         x \in Range(WithSignatures(w, new).sigs)
  <1>1. CASE w.kind = "none"
    <2>1. WithSignatures(w, new) = P2pkWitness(new)
      BY <1>1 DEF WithSignatures
    <2>2. WithSignatures(w, new).kind = "p2pk" /\ WithSignatures(w, new).sigs = new
      BY <2>1 DEF P2pkWitness
    <2>3. Range(w.sigs) = {}
      BY <1>1 DEF Range
    <2> QED
      BY <2>2, <2>3, Zenon
  <1>2. CASE w.kind = "p2pk"
    <2>1. WithSignatures(w, new) = [w EXCEPT !.sigs = w.sigs \o new]
      BY <1>2 DEF WithSignatures, AddSignatures, Witnesses
    <2>2. /\ WithSignatures(w, new).kind = "p2pk"
          /\ WithSignatures(w, new).sigs = w.sigs \o new
          /\ w.sigs \in Seq(S)
      BY <1>2, <2>1, Zenon DEF Witnesses
    <2>3. ASSUME NEW x, x \in Range(w.sigs) \/ x \in Range(new)
          PROVE  x \in Range(w.sigs \o new)
      <3>1. /\ Len(w.sigs) \in Nat /\ Len(new) \in Nat
            /\ DOMAIN w.sigs = 1..Len(w.sigs) /\ DOMAIN new = 1..Len(new)
            /\ DOMAIN (w.sigs \o new) = 1..(Len(w.sigs) + Len(new))
            /\ \A j \in 1..Len(w.sigs) : (w.sigs \o new)[j] = w.sigs[j]
            /\ \A j \in 1..Len(new) : (w.sigs \o new)[Len(w.sigs) + j] = new[j]
        BY <2>2
      <3>2. CASE x \in Range(w.sigs)
        <4>1. PICK j \in 1..Len(w.sigs) : x = w.sigs[j]
          BY <3>1, <3>2, Zenon DEF Range
        <4>2. j \in 1..(Len(w.sigs) + Len(new))
          BY <3>1, <4>1
        <4> QED
          BY <3>1, <4>1, <4>2, Zenon DEF Range
      <3>3. CASE x \in Range(new)
        <4>1. PICK j \in 1..Len(new) : x = new[j]
          BY <3>1, <3>3, Zenon DEF Range
        <4>2. Len(w.sigs) + j \in 1..(Len(w.sigs) + Len(new))
          BY <3>1, <4>1
        <4> QED
          BY <3>1, <4>1, <4>2, Zenon DEF Range
      <3> QED
        BY <2>3, <3>2, <3>3, Zenon
    <2> QED
      BY <2>2, <2>3, Zenon
  <1> QED
    BY <1>1, <1>2, Zenon

(***************************************************************************)
(* A request starts with different secrets and nothing signed.             *)
(***************************************************************************)
LEMMA KeptInit == Init => KeptInv
  <1> SUFFICES ASSUME Init PROVE KeptInv
    BY Zenon
  <1>1. PICK r \in Requests :
            inputs = [i \in DOMAIN r.secrets |->
                         [secret |-> r.secrets[i], witness |-> NoWitness]]
    BY Zenon DEF Init
  <1>2. \A i, j \in DOMAIN inputs : inputs[i].secret = inputs[j].secret => i = j
    BY <1>1, DistinctInputs, Zenon
  <1>3. NoWitness.kind = "none" /\ NoWitness.sigs = <<>> /\ signed = {}
    BY Zenon DEF NoWitness, Init
  <1>4. \A i \in DOMAIN inputs : inputs[i].witness = NoWitness
    BY <1>1, Zenon
  <1>5. \A i \in DOMAIN inputs : Keeps(inputs[i])
    BY <1>3, <1>4, Zenon DEF Keeps
  <1> QED
    BY <1>2, <1>5, Zenon DEF KeptInv

(***************************************************************************)
(* A step that keeps the secrets, and the signatures where they are made.  *)
(***************************************************************************)
LEMMA KeptStep ==
    ASSUME KeptInv, 1 \in DOMAIN inputs, DOMAIN inputs' = DOMAIN inputs,
           \A i \in DOMAIN inputs : inputs'[i].secret = inputs[i].secret,
           ~SigAllRequired(inputs) =>
               \A i \in DOMAIN inputs : Keeps(inputs[i]) => Keeps(inputs[i])'
    PROVE  KeptInv'
  <1>1. SigAllRequired(inputs)' <=> SigAllRequired(inputs)
    BY Zenon DEF SigAllRequired
  <1> QED
    BY <1>1, Zenon DEF KeptInv

(***************************************************************************)
(* One input gets a signature for its own secret.                          *)
(***************************************************************************)
LEMMA KeptSign ==
    ASSUME SpendInv, KeptInv, NEW i \in DOMAIN inputs, NEW k \in Key, SignP2pk(i, k)
    PROVE  KeptInv'
  <1> DEFINE s == inputs[i].secret
             new == <<<<k, SecretMsg(s)>>>>
             w == WithSignatures(inputs[i].witness, new)
  <1>1. /\ 1 \in DOMAIN inputs /\ inputs = [j \in DOMAIN inputs |-> inputs[j]]
        /\ \A j \in DOMAIN inputs :
               inputs[j] = [secret |-> inputs[j].secret, witness |-> inputs[j].witness]
        /\ inputs[i].witness \in Witnesses(signed)
    BY Zenon DEF SpendInv, InputOK
  <1>2. /\ inputs' = [inputs EXCEPT ![i] = [inputs[i] EXCEPT !.witness = w]]
        /\ signed' = signed \cup {<<k, SecretMsg(s)>>}
    BY <1>1, Zenon DEF SignP2pk
  <1>3. new \in Seq(signed') /\ <<k, SecretMsg(s)>> \in Range(new)
    BY <1>2 DEF Range
  <1>4. inputs[i].witness \in Witnesses(signed')
    BY <1>2, MoreSigned, ZenonT(30) DEF SpendInv, InputOK
  <1> HIDE DEF s, new, w
  <1>5. /\ DOMAIN inputs' = DOMAIN inputs
        /\ inputs'[i] = [inputs[i] EXCEPT !.witness = w]
        /\ \A j \in DOMAIN inputs : j # i => inputs'[j] = inputs[j]
    BY <1>1, <1>2, Zenon
  <1>6. inputs'[i].secret = s /\ inputs'[i].witness = w
    BY <1>1, <1>5, Zenon DEF s
  <1>7. ASSUME Keeps(inputs[i]) PROVE Keeps(inputs[i])'
    <2> SUFFICES ASSUME s.kind = "p2pk"
                 PROVE  /\ w.kind \in {"none", "p2pk"}
                        /\ w.kind = "none" => w.sigs = <<>>
                        /\ \A l \in Key : <<l, SecretMsg(s)>> \in signed' =>
                                              <<l, SecretMsg(s)>> \in Range(w.sigs)
      BY <1>6, Zenon DEF Keeps, SecretMsg
    <2>1. /\ inputs[i].witness.kind \in {"none", "p2pk"}
          /\ inputs[i].witness.kind = "none" => inputs[i].witness.sigs = <<>>
          /\ \A l \in Key : <<l, SecretMsg(s)>> \in signed =>
                                <<l, SecretMsg(s)>> \in Range(inputs[i].witness.sigs)
      BY <1>7, Zenon DEF Keeps, s
    <2>2. /\ w.kind = "p2pk"
          /\ \A x : x \in Range(inputs[i].witness.sigs) \/ x \in Range(new) =>
                        x \in Range(w.sigs)
      BY <1>3, <1>4, <2>1, SignaturesJoin, Zenon DEF w
    <2> QED
      BY <1>2, <1>3, <2>1, <2>2
  <1>8. ASSUME NEW j \in DOMAIN inputs, j # i, Keeps(inputs[j]) PROVE Keeps(inputs[j])'
    <2>1. inputs[j].secret # s
      BY <1>8, Zenon DEF KeptInv, s
    <2>2. \A l \in Key : <<l, SecretMsg(inputs[j].secret)>> # <<k, SecretMsg(s)>>
      BY <2>1, OneMessage
    <2>3. \A l \in Key : <<l, SecretMsg(inputs[j].secret)>> \in signed'
                            => <<l, SecretMsg(inputs[j].secret)>> \in signed
      BY <1>2, <2>2, Zenon
    <2> QED
      BY <1>5, <1>8, <2>3, Zenon DEF Keeps, SecretMsg
  <1>9. \A j \in DOMAIN inputs : inputs'[j].secret = inputs[j].secret
    BY <1>5, <1>6, Zenon DEF s
  <1>10. \A j \in DOMAIN inputs : Keeps(inputs[j]) => Keeps(inputs[j])'
    BY <1>7, <1>8, Zenon
  <1> QED
    BY <1>1, <1>5, <1>9, <1>10, KeptStep, Zenon

(***************************************************************************)
(* Receive signs every input, each for its own secret.                     *)
(***************************************************************************)
LEMMA KeptReceive ==
    ASSUME SpendInv, SpendInv', KeptInv, NEW ks \in SUBSET Key, NEW ps, NEW outs,
           Receive(ks, ps, outs)
    PROVE  KeptInv'
  <1>1. /\ inputs' = [i \in DOMAIN inputs |-> Received(inputs[i], ks, ps)]
        /\ signed' = signed \cup
              UNION {{<<k, SecretMsg(s)>> : k \in Range(Listed(s, ks))} :
                         s \in Range(Secrets(inputs))}
    BY Zenon DEF Receive
  <1>2. /\ 1 \in DOMAIN inputs
        /\ \A i \in DOMAIN inputs :
               /\ inputs[i] = [secret |-> inputs[i].secret, witness |-> inputs[i].witness]
               /\ Asked(inputs[i].secret)
               /\ InputOK(inputs[i], signed')
    <2>1. 1 \in DOMAIN inputs /\ \A i \in DOMAIN inputs : InputOK(inputs[i], signed)
      BY Zenon DEF SpendInv
    <2>2. \A i \in DOMAIN inputs : InputOK(inputs[i], signed')
      BY <1>1, <2>1, MoreSigned, Zenon
    <2> QED
      BY <2>1, <2>2, Zenon DEF InputOK
  <1>3. ASSUME NEW i \in DOMAIN inputs
        PROVE  /\ inputs'[i].secret = inputs[i].secret
               /\ Keeps(inputs[i]) => Keeps(inputs[i])'
    <2> DEFINE p == inputs[i]
               s == p.secret
               w == IF s.kind = "htlc"
                    THEN WithPreimage(p.witness, CHOOSE x \in ps : s.data = HashOfBytes(x))
                    ELSE p.witness
               sigs == [j \in DOMAIN Listed(s, ks) |-> <<Listed(s, ks)[j], SecretMsg(s)>>]
               v == IF sigs = <<>> THEN w ELSE WithSignatures(w, sigs)
    <2>1. inputs'[i] = [p EXCEPT !.witness = v]
      BY <1>1, Zenon DEF Received
    <2>2. s.kind = "p2pk" => w = p.witness
      BY Zenon
    <2>3. Listed(s, ks) \in Seq(Key)
      BY <1>2, ListedKeys, Zenon DEF Asked
    <2>4. s \in Range(Secrets(inputs))
      BY Zenon DEF Secrets, Range
    <2>5. sigs \in Seq(signed')
      <3>1. \A k \in Range(Listed(s, ks)) : <<k, SecretMsg(s)>> \in signed'
        BY <1>1, <2>4
      <3>2. \A j \in 1..Len(Listed(s, ks)) : sigs[j] \in signed'
        BY <2>3, <3>1 DEF Range
      <3>3. sigs = [j \in 1..Len(Listed(s, ks)) |-> sigs[j]] /\ Len(Listed(s, ks)) \in Nat
        BY <2>3
      <3> HIDE DEF sigs
      <3> QED
        BY <3>2, <3>3, IsASeq
    <2>6. \A k \in Range(Listed(s, ks)) : <<k, SecretMsg(s)>> \in Range(sigs)
      BY Zenon DEF Range
    <2>7. \A k \in Key : <<k, SecretMsg(s)>> \in signed' =>
              <<k, SecretMsg(s)>> \in signed \/ k \in Range(Listed(s, ks))
      <3> SUFFICES ASSUME NEW k \in Key, <<k, SecretMsg(s)>> \in signed',
                          <<k, SecretMsg(s)>> \notin signed
                   PROVE  k \in Range(Listed(s, ks))
        BY Zenon
      <3>1. PICK r \in Range(Secrets(inputs)) :
                <<k, SecretMsg(s)>> \in {<<l, SecretMsg(r)>> : l \in Range(Listed(r, ks))}
        BY <1>1, Zenon
      <3>2. PICK l \in Range(Listed(r, ks)) : <<k, SecretMsg(s)>> = <<l, SecretMsg(r)>>
        BY <3>1, Zenon
      <3>3. k = l /\ SecretMsg(s) = SecretMsg(r)
        BY <3>2
      <3> QED
        BY <3>3, OneMessage, Zenon
    <2> HIDE DEF w, sigs
    <2>8. inputs'[i].secret = s /\ inputs'[i].witness = v
      BY <1>2, <2>1, Zenon
    <2>9. ASSUME Keeps(p), s.kind = "p2pk"
          PROVE  /\ v.kind \in {"none", "p2pk"}
                 /\ v.kind = "none" => v.sigs = <<>>
                 /\ \A k \in Key : <<k, SecretMsg(s)>> \in signed' =>
                                       <<k, SecretMsg(s)>> \in Range(v.sigs)
      <3>1. /\ w = p.witness /\ w \in Witnesses(signed')
            /\ w.kind \in {"none", "p2pk"}
            /\ w.kind = "none" => w.sigs = <<>>
            /\ \A k \in Key : <<k, SecretMsg(s)>> \in signed =>
                                  <<k, SecretMsg(s)>> \in Range(w.sigs)
        BY <1>2, <2>2, <2>9, Zenon DEF Keeps, InputOK
      <3>2. CASE sigs = <<>>
        <4>1. Range(sigs) = {}
          BY <3>2 DEF Range
        <4> QED
          BY <2>6, <2>7, <3>1, <3>2, <4>1, Zenon
      <3>3. CASE sigs # <<>>
        <4>1. v = WithSignatures(w, sigs)
          BY <3>3, Zenon
        <4>2. /\ v.kind = "p2pk"
              /\ \A x : x \in Range(w.sigs) \/ x \in Range(sigs) => x \in Range(v.sigs)
          BY <2>5, <3>1, <4>1, SignaturesJoin, Zenon
        <4> QED
          BY <2>6, <2>7, <3>1, <4>2, SMTT(30)
      <3> QED
        BY <3>2, <3>3, Zenon
    <2> HIDE DEF v
    <2> QED
      BY <2>8, <2>9, Zenon DEF Keeps, SecretMsg
  <1>4. DOMAIN inputs' = DOMAIN inputs
    BY <1>1, Zenon
  <1> QED
    BY <1>2, <1>3, <1>4, KeptStep, Zenon

(***************************************************************************)
(* No party and no rebuilding of the request loses a signature.            *)
(***************************************************************************)
LEMMA KeptNext == SpendInv /\ SpendInv' /\ KeptInv /\ [Next]_vars => KeptInv'
  <1> SUFFICES ASSUME SpendInv, SpendInv', KeptInv, [Next]_vars PROVE KeptInv'
    BY Zenon
  <1>1. /\ 1 \in DOMAIN inputs /\ inputs = [j \in DOMAIN inputs |-> inputs[j]]
        /\ \A j \in DOMAIN inputs :
               inputs[j] = [secret |-> inputs[j].secret, witness |-> inputs[j].witness]
    BY Zenon DEF SpendInv, InputOK
  <1>2. ASSUME NEW i \in DOMAIN inputs, NEW w,
               inputs' = [inputs EXCEPT ![i] = [inputs[i] EXCEPT !.witness = w]]
        PROVE  /\ DOMAIN inputs' = DOMAIN inputs
               /\ \A j \in DOMAIN inputs : inputs'[j].secret = inputs[j].secret
               /\ \A j \in DOMAIN inputs : j # i => inputs'[j] = inputs[j]
    <2>1. /\ DOMAIN inputs' = DOMAIN inputs
          /\ inputs'[i] = [inputs[i] EXCEPT !.witness = w]
          /\ \A j \in DOMAIN inputs : j # i => inputs'[j] = inputs[j]
      BY <1>1, <1>2, Zenon
    <2>2. inputs'[i].secret = inputs[i].secret
      BY <1>1, <2>1, Zenon
    <2> QED
      BY <2>1, <2>2, Zenon
  <1>3. ASSUME inputs' = inputs, signed' = signed PROVE KeptInv'
    BY <1>3, Zenon DEF KeptInv, Keeps, SigAllRequired, SecretMsg
  <1>4. ASSUME NEW k \in Key, SignSigAll(k) PROVE KeptInv'
    <2>1. /\ inputs' = [inputs EXCEPT ![1] = [inputs[1] EXCEPT !.witness =
                   WithSignatures(inputs[1].witness,
                                  <<<<k, SigAllMsgToSign(inputs, outputs, quote)>>>>)]]
          /\ SigAllRequired(inputs)
      BY <1>1, <1>4, Zenon DEF SignSigAll
    <2> QED
      BY <1>1, <1>2, <2>1, KeptStep, Zenon
  <1>5. ASSUME NEW i \in DOMAIN inputs, NEW p, AddPreimage(i, p) PROVE KeptInv'
    <2>1. /\ inputs' = [inputs EXCEPT ![i] = [inputs[i] EXCEPT !.witness =
                                                 WithPreimage(inputs[i].witness, p)]]
          /\ inputs[i].secret.kind = "htlc" /\ signed' = signed
      BY <1>1, <1>5, Zenon DEF AddPreimage
    <2>2. /\ DOMAIN inputs' = DOMAIN inputs
          /\ \A j \in DOMAIN inputs : inputs'[j].secret = inputs[j].secret
          /\ \A j \in DOMAIN inputs : j # i => inputs'[j] = inputs[j]
      BY <1>2, <2>1, Zenon
    <2>3. Keeps(inputs[i])'
      BY <2>1, <2>2, Zenon DEF Keeps
    <2>4. ASSUME NEW j \in DOMAIN inputs, j # i, Keeps(inputs[j]) PROVE Keeps(inputs[j])'
      BY <2>1, <2>2, <2>4, Zenon DEF Keeps, SecretMsg
    <2> QED
      BY <1>1, <2>2, <2>3, <2>4, KeptStep, Zenon
  <1> QED
    BY <1>3, <1>4, <1>5, KeptSign, KeptReceive, Zenon DEF Next, Rebuild, Tick, vars

(***************************************************************************)
(* What the mint counts of a proof that holds every signature is everybody *)
(* who agreed, and it finds no signature twice.                            *)
(***************************************************************************)
LEMMA AllCounted ==
    ASSUME NEW keys, NEW sigs, NEW msg, Range(keys) \subseteq Key,
           \A k \in Key : <<k, msg>> \in signed => <<k, msg>> \in Range(sigs)
    PROVE  /\ Consents(keys, msg) \subseteq Signers(msg, keys, sigs)
           /\ Cardinality(Consents(keys, msg)) \in Nat
           /\ Cardinality(Signers(msg, keys, sigs)) \in Nat
           /\ Cardinality(Consents(keys, msg)) <= Cardinality(Signers(msg, keys, sigs))
  <1>1. Consents(keys, msg) \subseteq Signers(msg, keys, sigs)
    BY Zenon DEF Consents, Signers, Range
  <1>2. IsFiniteSet(Signers(msg, keys, sigs))
    <2>1. Signers(msg, keys, sigs) \in SUBSET Key
      BY Zenon DEF Signers
    <2> QED
      BY <2>1, SpendingConstants, FS_Subset, Zenon
  <1> QED
    BY <1>1, <1>2, FS_Subset, FS_CardinalityType, Zenon

(***************************************************************************)
(* P2PK inputs that the holders agreed to spend are accepted, whoever      *)
(* signed when: no signature goes missing on the way to the mint           *)
(* (sign_p2pk, verify_p2pk).                                               *)
(***************************************************************************)
THEOREM AuthorisedGoesThrough == Spec => []AuthorisedIsAccepted
  <1>1. ASSUME SpendInv, KeptInv PROVE AuthorisedIsAccepted
    <2> SUFFICES ASSUME \A i \in DOMAIN inputs :
                            /\ inputs[i].secret.kind = "p2pk"
                            /\ inputs[i].secret.conditions.sig_flag = "SIG_INPUTS"
                            /\ NoRepeats(PubkeyList(inputs[i].secret))
                            /\ NoRepeats(inputs[i].witness.sigs)
                            /\ inputs[i].witness.kind # "none"
                            /\ HoldersAgree(inputs[i].secret)
                 PROVE  Accepts
      BY Zenon DEF AuthorisedIsAccepted
    <2>1. ~SigAllRequired(inputs) /\ ~EnforceSigAll(inputs)
      BY <1>1 DEF SigAllRequired, EnforceSigAll, SpendInv
    <2>2. ASSUME NEW i \in DOMAIN inputs PROVE VerifyP2pk(inputs[i])
      <3> DEFINE p == inputs[i]
                 s == p.secret
                 c == s.conditions
                 sigs == p.witness.sigs
                 msg == SecretMsg(s)
      <3>1. /\ s.kind = "p2pk" /\ p.witness.kind \in {"none", "p2pk"} /\ p.witness.kind # "none"
            /\ \A k \in Key : <<k, msg>> \in signed => <<k, msg>> \in Range(sigs)
            /\ NoRepeats(PubkeyList(s)) /\ NoRepeats(sigs) /\ HoldersAgree(s)
        BY <1>1, <2>1, Zenon DEF KeptInv, Keeps
      <3>2. Asked(s) /\ p.witness \in Witnesses(signed)
        BY <1>1, Zenon DEF SpendInv, InputOK
      <3>3. p.witness.hasSigs
        BY <3>1, <3>2, Zenon DEF Witnesses
      <3>4. /\ Range(PubkeyList(s)) \subseteq Key /\ Range(RefundList(s)) \subseteq Key
            /\ c.num_sigs \in Nat /\ c.num_sigs_refund \in Nat
        BY <3>1, <3>2, KeysOfSecret, Zenon
      <3> HIDE DEF p, s, c, sigs, msg
      <3>5. ~DuplicateSignature(msg, PubkeyList(s), sigs)
        <4> SUFFICES ASSUME NEW m \in (DOMAIN PubkeyList(s)) \X (DOMAIN sigs),
                            NEW n \in (DOMAIN PubkeyList(s)) \X (DOMAIN sigs),
                            PubkeyList(s)[m[1]] = PubkeyList(s)[n[1]],
                            sigs[m[2]] = <<PubkeyList(s)[m[1]], msg>>,
                            sigs[n[2]] = <<PubkeyList(s)[n[1]], msg>>
                     PROVE  m = n
          BY Zenon DEF DuplicateSignature
        <4>1. m[1] \in DOMAIN PubkeyList(s) /\ n[1] \in DOMAIN PubkeyList(s)
              /\ m[2] \in DOMAIN sigs /\ n[2] \in DOMAIN sigs
          BY Zenon
        <4>2. m[1] = n[1]
          BY <3>1, <4>1, Zenon DEF NoRepeats
        <4>3. m[2] = n[2]
          <5>1. sigs[m[2]] = sigs[n[2]]
            OBVIOUS
          <5> QED
            BY <3>1, <4>1, <5>1, Zenon DEF NoRepeats
        <4>4. m = <<m[1], m[2]>> /\ n = <<n[1], n[2]>>
          OBVIOUS
        <4> QED
          BY <4>2, <4>3, <4>4, Zenon
      <3>6. CASE now >= c.locktime
        <4> DEFINE signers == Signers(msg, RefundList(s), sigs)
                   holders == Consents(RefundList(s), msg)
        <4>1. \/ c.refund_keys = NoKeys
              \/ holders # {} /\ Cardinality(holders) >= c.num_sigs_refund
          BY <3>1, <3>6, Zenon DEF HoldersAgree, c, msg
        <4>2. /\ holders \subseteq signers
              /\ Cardinality(holders) \in Nat /\ Cardinality(signers) \in Nat
              /\ Cardinality(holders) <= Cardinality(signers)
          BY <3>1, <3>4, AllCounted, Zenon
        <4> HIDE DEF signers, holders
        <4>3. Cardinality(holders) >= c.num_sigs_refund => Cardinality(signers) >= c.num_sigs_refund
          BY <3>4, <4>2
        <4>4. c.refund_keys = NoKeys \/ Refunded(p)
          BY <4>1, <4>2, <4>3, Zenon DEF Refunded, p, s, c, sigs, msg, signers
        <4> QED
          BY <3>3, <3>6, <4>4, Zenon DEF VerifyP2pk, p, s, c
      <3>7. CASE ~(now >= c.locktime)
        <4>1. Cardinality(Consents(PubkeyList(s), msg)) >= c.num_sigs
          BY <3>1, <3>7, Zenon DEF HoldersAgree, c, msg
        <4>2. /\ Cardinality(Consents(PubkeyList(s), msg)) \in Nat
              /\ Cardinality(Signers(msg, PubkeyList(s), sigs)) \in Nat
              /\ Cardinality(Consents(PubkeyList(s), msg))
                     <= Cardinality(Signers(msg, PubkeyList(s), sigs))
          BY <3>1, <3>4, AllCounted, Zenon
        <4>3. Cardinality(Signers(msg, PubkeyList(s), sigs)) >= c.num_sigs
          BY <3>4, <4>1, <4>2
        <4> QED
          BY <3>3, <3>5, <3>7, <4>3, Zenon DEF VerifyP2pk, ValidSignatures, p, s, c, sigs, msg
      <3> QED
        BY <3>6, <3>7, Zenon DEF p
    <2>3. \A i \in DOMAIN inputs : VerifyProof(inputs[i])
      BY <2>2, Zenon DEF VerifyProof
    <2> QED
      BY <2>1, <2>3, Zenon DEF Accepts
  <1> QED
    BY <1>1, KeptInit, KeptNext, SpendInvariant, PTL DEF Spec

=============================================================================
