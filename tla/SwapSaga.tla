------------------------------ MODULE SwapSaga ------------------------------
(***************************************************************************)
(* The swap of the mint (crates/cdk/src/mint/swap): a request trades input *)
(* proofs for signatures on blinded messages in two database transactions  *)
(* with the blind signing between them.  A saga record, written by the     *)
(* first transaction and deleted by the second, lets a later start of the  *)
(* mint undo a swap that never reached the second.                         *)
(*                                                                         *)
(* Any number of requests run interleaved; one step is one transaction or  *)
(* one call of the signatory.  TX2 takes two steps, since it publishes the *)
(* states of the proofs before it commits.  A step may fail (the kinds of  *)
(* failure a model allows are the constant Faults), the client may hang up *)
(* (which drops the handler between two steps), and the process may crash. *)
(***************************************************************************)
EXTENDS MintDb, FiniteSets, Functions

CONSTANTS
    Y,             \* the keys of the proofs
    B,             \* the blinded messages
    Op,            \* the operation ids, one for each run of the handler
    NoOp,          \* "no saga is being recovered"
    ProofAmount,   \* [Y -> Nat], the amount of each proof
    ProofFeePpk,   \* [Y -> Nat], the fee of its keyset, in thousandths
    OutputAmount,  \* [B -> Nat], the amount of each blinded message
    Faults,        \* the kinds of failure that may happen
    MaxCrashes     \* bound on the crashes of the process

ASSUME SwapConstants ==
    /\ IsFiniteSet(Y) /\ IsFiniteSet(B) /\ IsFiniteSet(Op)
    /\ NoOp \notin Op
    /\ ProofAmount \in [Y -> Nat]
    /\ ProofFeePpk \in [Y -> Nat]
    /\ OutputAmount \in [B -> Nat]
    /\ Faults \subseteq {"setup_commit", "sign", "finalize", "finalize_tx",
                         "compensate", "delete_saga", "recovery_tx", "hang_up",
                         "stale_saga"}
    /\ MaxCrashes \in Nat

VARIABLES
    proofs,    \* table proof
    messages,  \* table blind_signature
    sagas,     \* the operations that have a row in table saga_state
    request,   \* the inputs and outputs of an operation; its saga row has them
    pc,        \* where the handler of an operation is
    announced, \* the states of each proof that were published
    mint,      \* "running", "down", or "recovering" at start
    queue,     \* recovery: the sagas that are still to be processed
    current    \* recovery: the saga compensated and not deleted yet

VARIABLE crashes  \* bounded by MaxCrashes

vars == <<proofs, messages, sagas, request, pc, announced, mint, queue,
          current, crashes>>

(***************************************************************************)
(* A request.  The component verified is the outcome of the checks that    *)
(* read only the request and the keysets: uniqueness and units of inputs   *)
(* and outputs, the signatures of the mint on the inputs, and the spending *)
(* conditions.                                                             *)
(***************************************************************************)
Request ==
    [inputs : (SUBSET Y) \ {{}}, outputs : (SUBSET B) \ {{}}, verified : BOOLEAN]

NoRequest == [inputs |-> {}, outputs |-> {}, verified |-> FALSE]

(***************************************************************************)
(* Where the handler of an operation is:                                   *)
(*   idle          not received yet                                        *)
(*   setup         TX1 is committed; the signatory is called next          *)
(*   signed        the signatory has answered; TX2 is next                 *)
(*   finalizing    TX2 is open, its statements have succeeded and Spent is *)
(*                 published; delete_saga and the commit are next          *)
(*   compensating  a step failed; the compensations run next               *)
(*   cleanup       the compensations ran; the saga is deleted next         *)
(*   committed     TX2 is committed; the response is next                  *)
(*   responded, failed     the client has the signatures, or an error      *)
(*   unanswered, lost      the handler was dropped or the process crashed, *)
(*                         after or before TX2 was committed               *)
(*   interrupted           so it was while finalizing, or the commit of    *)
(*                         TX2 failed                                      *)
(***************************************************************************)
Live == {"setup", "signed", "finalizing", "compensating", "cleanup"}
Holding == {"setup", "signed", "finalizing", "compensating"}
Finalized == {"committed", "responded", "unanswered"}

PC == {"idle", "failed", "lost", "interrupted"} \cup Live \cup Finalized

\* No other transaction begins while TX2 of a swap is open (BEGIN IMMEDIATE).
Unlocked == \A op \in Op : pc[op] # "finalizing"

Inputs(op) == request[op].inputs
Outputs(op) == request[op].outputs

Init ==
    /\ proofs = [y \in Y |-> "None"]
    /\ messages = [b \in B |-> "None"]
    /\ sagas = {}
    /\ request = [op \in Op |-> NoRequest]
    /\ pc = [op \in Op |-> "idle"]
    /\ announced = [y \in Y |-> {}]
    /\ mint = "running"
    /\ queue = {}
    /\ current = NoOp
    /\ crashes = 0

-----------------------------------------------------------------------------
(* TX1.                                                                    *)

CalculateFee(ys) ==
    (SumFunctionOnSet(ProofFeePpk, ys) + 999) \div 1000

\* Mutant: the fee is not subtracted from the inputs.
BalancedIgnoringFee(r) ==
    SumFunctionOnSet(OutputAmount, r.outputs)
        = SumFunctionOnSet(ProofAmount, r.inputs)

\* The outputs and the fee are worth exactly the inputs.
Balanced(r) ==
    SumFunctionOnSet(OutputAmount, r.outputs) + CalculateFee(r.inputs)
        = SumFunctionOnSet(ProofAmount, r.inputs)

\* verify_outputs: none of the outputs has been signed before.
CheckOutputAlreadySigned(bs) ==
    \A b \in bs : messages[b] # "Signed"

\* Mutant: the balance is not verified.
SetupOkUnbalanced(r) ==
    /\ r.verified
    /\ CheckOutputAlreadySigned(r.outputs)
    /\ AddProofsOk(proofs, r.inputs)
    /\ UpdateProofsStatesOk(AddProofs(proofs, r.inputs), r.inputs, "Pending")
    /\ AddBlindedMessagesOk(messages, r.outputs)

\* Every check of the handler up to the commit of TX1 passes.
SetupOk(r) ==
    /\ r.verified
    /\ CheckOutputAlreadySigned(r.outputs)
    /\ Balanced(r)
    /\ AddProofsOk(proofs, r.inputs)
    /\ UpdateProofsStatesOk(AddProofs(proofs, r.inputs), r.inputs, "Pending")
    /\ AddBlindedMessagesOk(messages, r.outputs)

(***************************************************************************)
(* pubsub.proof_state for each of the proofs.  Every call spawns a task of *)
(* its own that hands the event to the subscribers, so their order is not  *)
(* kept: what matters is which states have been published.                 *)
(***************************************************************************)
Publish(ys, state) ==
    [y \in Y |-> announced[y] \cup (IF y \in ys THEN {state} ELSE {})]

\* Mutant: TX1 does not write the saga.
AddSagaMissing(op) ==
    sagas

\* add_saga
AddSaga(op) ==
    sagas \cup {op}

SetupSwap(op, r) ==
    /\ mint = "running" /\ Unlocked
    /\ pc[op] = "idle"
    /\ SetupOk(r)
    /\ proofs' = UpdateProofsStates(AddProofs(proofs, r.inputs),
                                    r.inputs, "Pending")
    /\ messages' = AddBlindedMessages(messages, r.outputs)
    /\ announced' = Publish(r.inputs, "Pending")
    /\ sagas' = AddSaga(op)
    /\ request' = [request EXCEPT ![op] = r]
    /\ pc' = [pc EXCEPT ![op] = "setup"]
    /\ UNCHANGED <<mint, queue, current, crashes>>

\* A check fails: TX1 is rolled back, nothing was published.
SetupSwapRefused(op, r) ==
    /\ mint = "running" /\ Unlocked
    /\ pc[op] = "idle"
    /\ ~SetupOk(r)
    /\ pc' = [pc EXCEPT ![op] = "failed"]
    /\ UNCHANGED <<proofs, messages, sagas, request, announced, mint, queue,
                   current, crashes>>

\* add_saga or the commit fails, after the pending states were published.
SetupSwapCommitFails(op, r) ==
    /\ "setup_commit" \in Faults
    /\ mint = "running" /\ Unlocked
    /\ pc[op] = "idle"
    /\ SetupOk(r)
    /\ announced' = Publish(r.inputs, "Pending")
    /\ pc' = [pc EXCEPT ![op] = "failed"]
    /\ UNCHANGED <<proofs, messages, sagas, request, mint, queue, current,
                   crashes>>

-----------------------------------------------------------------------------
(* Signing and TX2.                                                        *)

SignOutputs(op) ==
    /\ mint = "running"
    /\ pc[op] = "setup"
    /\ pc' = [pc EXCEPT ![op] = "signed"]
    /\ UNCHANGED <<proofs, messages, sagas, request, announced, mint, queue,
                   current, crashes>>

SignOutputsFails(op) ==
    /\ "sign" \in Faults
    /\ mint = "running"
    /\ pc[op] = "setup"
    /\ pc' = [pc EXCEPT ![op] = "compensating"]
    /\ UNCHANGED <<proofs, messages, sagas, request, announced, mint, queue,
                   current, crashes>>

FinalizeOk(op) ==
    /\ AddBlindSignaturesOk(messages, Outputs(op))
    /\ UpdateProofsStatesOk(proofs, Inputs(op), "Spent")

\* delete_saga succeeds, or fails and leaves the row.
DeleteSagaBestEffort(op) ==
    \/ sagas' = sagas \ {op}
    \/ "delete_saga" \in Faults /\ UNCHANGED sagas

\* The statements of TX2, and the tasks spawned to publish what they will do.
SpendInputs(op) ==
    /\ mint = "running" /\ Unlocked
    /\ pc[op] = "signed"
    /\ FinalizeOk(op)
    /\ announced' = Publish(Inputs(op), "Spent")
    /\ pc' = [pc EXCEPT ![op] = "finalizing"]
    /\ UNCHANGED <<proofs, messages, sagas, request, mint, queue, current,
                   crashes>>

\* The rest of TX2 and its commit, which makes the statements visible.
Finalize(op) ==
    /\ mint = "running"
    /\ pc[op] = "finalizing"
    /\ messages' = AddBlindSignatures(messages, Outputs(op))
    /\ proofs' = UpdateProofsStates(proofs, Inputs(op), "Spent")
    /\ DeleteSagaBestEffort(op)
    /\ pc' = [pc EXCEPT ![op] = "committed"]
    /\ UNCHANGED <<request, announced, mint, queue, current, crashes>>

\* Mutant: the states are published before the statements have succeeded.
FinalizeRefusedPublished(op) ==
    /\ mint = "running" /\ Unlocked
    /\ pc[op] = "signed"
    /\ FinalizeOk(op) => "finalize" \in Faults
    /\ announced' = Publish(Inputs(op), "Spent")
    /\ pc' = [pc EXCEPT ![op] = "compensating"]
    /\ UNCHANGED <<proofs, messages, sagas, request, mint, queue, current,
                   crashes>>

\* A statement of TX2 returns Err: TX2 is rolled back, then compensate_all.
FinalizeRefused(op) ==
    /\ mint = "running" /\ Unlocked
    /\ pc[op] = "signed"
    /\ FinalizeOk(op) => "finalize" \in Faults
    /\ pc' = [pc EXCEPT ![op] = "compensating"]
    /\ UNCHANGED <<proofs, messages, sagas, request, announced, mint, queue,
                   current, crashes>>

(***************************************************************************)
(* The begin, the rollback or the commit of TX2 returns Err, which ? hands *)
(* to the client: the compensations do not run.                            *)
(***************************************************************************)
FinalizeTxFails(op) ==
    /\ "finalize_tx" \in Faults
    /\ mint = "running"
    /\ \/ pc[op] = "signed" /\ pc' = [pc EXCEPT ![op] = "failed"]
       \/ pc[op] = "finalizing" /\ pc' = [pc EXCEPT ![op] = "interrupted"]
    /\ UNCHANGED <<proofs, messages, sagas, request, announced, mint, queue,
                   current, crashes>>

\* The handler returns the signatures.
Respond(op) ==
    /\ mint = "running"
    /\ pc[op] = "committed"
    /\ pc' = [pc EXCEPT ![op] = "responded"]
    /\ UNCHANGED <<proofs, messages, sagas, request, announced, mint, queue,
                   current, crashes>>

-----------------------------------------------------------------------------
(* Compensation.                                                           *)

\* RemoveSwapSetup::execute, one transaction.
RemoveSwapSetupOk(op) ==
    RemoveProofsOk(proofs, Inputs(op))

RemoveSwapSetup(op) ==
    /\ RemoveSwapSetupOk(op)
    /\ messages' = DeleteBlindedMessages(messages, Outputs(op))
    /\ proofs' = RemoveProofs(proofs, Inputs(op))

RemoveSwapSetupFails(op) ==
    /\ RemoveSwapSetupOk(op) => "compensate" \in Faults
    /\ UNCHANGED <<messages, proofs>>

\* The first half of compensate_all; an Err is logged and ignored.
Compensate(op) ==
    /\ mint = "running" /\ Unlocked
    /\ pc[op] = "compensating"
    /\ RemoveSwapSetup(op) \/ RemoveSwapSetupFails(op)
    /\ pc' = [pc EXCEPT ![op] = "cleanup"]
    /\ UNCHANGED <<sagas, request, announced, mint, queue, current, crashes>>

\* The second half, a transaction of its own; the client gets the error.
DeleteSaga(op) ==
    /\ mint = "running" /\ Unlocked
    /\ pc[op] = "cleanup"
    /\ DeleteSagaBestEffort(op)
    /\ pc' = [pc EXCEPT ![op] = "failed"]
    /\ UNCHANGED <<proofs, messages, request, announced, mint, queue, current,
                   crashes>>

-----------------------------------------------------------------------------
(* The end of a handler that nobody waits for, crash and recovery.         *)

Dropped(state) ==
    CASE state = "finalizing" -> "interrupted"
      [] state \in Live \ {"finalizing"} -> "lost"
      [] state = "committed" -> "unanswered"
      [] OTHER -> state

(***************************************************************************)
(* Between the compensations and the deletion of the saga, its row is      *)
(* stale.  Without "stale_saga" in Faults no hang-up and no crash falls    *)
(* into that time.                                                         *)
(***************************************************************************)
\* The client hangs up: the server drops the future of the handler.
HangUp(op) ==
    /\ "hang_up" \in Faults
    /\ pc[op] = "cleanup" => "stale_saga" \in Faults
    /\ mint = "running"
    /\ pc[op] \in Live \cup {"committed"}
    /\ pc' = [pc EXCEPT ![op] = Dropped(pc[op])]
    /\ UNCHANGED <<proofs, messages, sagas, request, announced, mint, queue,
                   current, crashes>>

Crash ==
    /\ crashes < MaxCrashes
    /\ \/ "stale_saga" \in Faults
       \/ current = NoOp /\ \A op \in Op : pc[op] # "cleanup"
    /\ mint # "down"
    /\ mint' = "down"
    /\ pc' = [op \in Op |-> Dropped(pc[op])]
    /\ queue' = {}
    /\ current' = NoOp
    /\ crashes' = crashes + 1
    /\ UNCHANGED <<proofs, messages, sagas, request, announced>>

\* Mint::start is called before the server accepts requests.
Restart ==
    /\ mint = "down"
    /\ mint' = "recovering"
    /\ queue' = sagas
    /\ UNCHANGED <<proofs, messages, sagas, request, pc, announced, current,
                   crashes>>

(***************************************************************************)
(* The sagas are ordered by created_at, in seconds: the order of those     *)
(* that were created in the same second is arbitrary, here it always is.   *)
(* A saga whose compensation returns Err is left for the next start.       *)
(***************************************************************************)
RecoverCompensate(op) ==
    /\ mint = "recovering"
    /\ current = NoOp
    /\ op \in queue
    /\ \/ RemoveSwapSetup(op) /\ current' = op /\ UNCHANGED queue
       \/ RemoveSwapSetupFails(op) /\ queue' = queue \ {op} /\ UNCHANGED current
    /\ UNCHANGED <<sagas, request, pc, announced, mint, crashes>>

RecoverDelete ==
    /\ mint = "recovering"
    /\ current # NoOp
    /\ DeleteSagaBestEffort(current)
    /\ queue' = queue \ {current}
    /\ current' = NoOp
    /\ UNCHANGED <<proofs, messages, request, pc, announced, mint, crashes>>

\* The begin or the commit of the deletion returns Err: start returns it.
RecoverTxFails ==
    /\ "recovery_tx" \in Faults
    /\ mint = "recovering"
    /\ current # NoOp
    /\ mint' = "down"
    /\ queue' = {}
    /\ current' = NoOp
    /\ UNCHANGED <<proofs, messages, sagas, request, pc, announced, crashes>>

RecoveryDone ==
    /\ mint = "recovering"
    /\ current = NoOp
    /\ queue = {}
    /\ mint' = "running"
    /\ UNCHANGED <<proofs, messages, sagas, request, pc, announced, queue,
                   current, crashes>>

-----------------------------------------------------------------------------
Receive(op) ==
    \E r \in Request :
        \/ SetupSwap(op, r)
        \/ SetupSwapRefused(op, r)
        \/ SetupSwapCommitFails(op, r)

\* What the handler of a request does once TX1 is committed.
Handle(op) ==
    \/ SignOutputs(op) \/ SignOutputsFails(op)
    \/ SpendInputs(op) \/ Finalize(op)
    \/ FinalizeRefused(op) \/ FinalizeTxFails(op)
    \/ Respond(op)
    \/ Compensate(op) \/ DeleteSaga(op)

Recover ==
    \/ Restart
    \/ \E op \in Op : RecoverCompensate(op)
    \/ RecoverDelete \/ RecoverTxFails \/ RecoveryDone

Next ==
    \/ \E op \in Op : Receive(op) \/ Handle(op) \/ HangUp(op)
    \/ Crash
    \/ Recover

Spec == Init /\ [][Next]_vars

(***************************************************************************)
(* The runtime polls a ready handler again, and the process is restarted   *)
(* after a crash.  Clients need not send anything.                         *)
(***************************************************************************)
Fairness ==
    /\ \A op \in Op : WF_vars(Handle(op))
    /\ WF_vars(Recover)

FairSpec == Spec /\ Fairness

-----------------------------------------------------------------------------
(* Properties.                                                             *)

(***************************************************************************)
(* Type correctness: what the columns and the in-memory state may hold.    *)
(***************************************************************************)
TypeOK ==
    /\ proofs \in [Y -> {"None", "Pending", "Spent"}]
    /\ messages \in [B -> MessageState]
    /\ sagas \subseteq Op
    /\ request \in [Op -> Request \cup {NoRequest}]
    /\ pc \in [Op -> PC]
    /\ announced \in [Y -> SUBSET {"Pending", "Spent"}]
    /\ mint \in {"running", "down", "recovering"}
    /\ queue \subseteq sagas
    /\ current \in queue \cup {NoOp}
    /\ crashes \in 0 .. MaxCrashes

FinalizedOps == {op \in Op : pc[op] \in Finalized}

(***************************************************************************)
(* Reservation: from the commit of TX1 until its compensation, the rows of *)
(* a swap are there for it alone.  Its TX2 cannot meet a proof that        *)
(* somebody else spent or removed, nor a message somebody else signed,     *)
(* whatever other requests, compensations or recoveries do in between:     *)
(* the error arms of finalize are for failures of the database only.       *)
(***************************************************************************)
Reserved ==
    \A op \in Op : pc[op] \in Holding =>
        /\ \A y \in Inputs(op) : proofs[y] = "Pending"
        /\ \A b \in Outputs(op) : messages[b] = "Blinded"
        /\ \A other \in Op \ {op} : pc[other] \in Holding =>
              /\ Inputs(op) \cap Inputs(other) = {}
              /\ Outputs(op) \cap Outputs(other) = {}

(***************************************************************************)
(* A swap that committed TX2 stays paid for: whatever fails or crashes     *)
(* later, its inputs are spent and its outputs are signed, so that a       *)
(* client without the response can restore its signatures.                 *)
(***************************************************************************)
FinalizedDurable ==
    \A op \in FinalizedOps :
        /\ \A y \in Inputs(op) : proofs[y] = "Spent"
        /\ \A b \in Outputs(op) : messages[b] = "Signed"

(***************************************************************************)
(* No double spend, no free signature: a proof is spent, and a message is  *)
(* signed, by exactly one swap that committed TX2.                         *)
(***************************************************************************)
SpentOnce ==
    /\ \A y \in Y : proofs[y] = "Spent" =>
          \E op \in FinalizedOps : y \in Inputs(op)
    /\ \A b \in B : messages[b] = "Signed" =>
          \E op \in FinalizedOps : b \in Outputs(op)
    /\ \A op1, op2 \in FinalizedOps : op1 # op2 =>
          /\ Inputs(op1) \cap Inputs(op2) = {}
          /\ Outputs(op1) \cap Outputs(op2) = {}

(***************************************************************************)
(* Conservation: the value of the spent proofs is the value of the signed  *)
(* messages plus the fees of the swaps that committed TX2.                 *)
(***************************************************************************)
Conservation ==
    SumFunctionOnSet(ProofAmount, {y \in Y : proofs[y] = "Spent"})
        = SumFunctionOnSet(OutputAmount, {b \in B : messages[b] = "Signed"})
          + SumFunctionOnSet([op \in Op |-> CalculateFee(Inputs(op))],
                             FinalizedOps)

(***************************************************************************)
(* Who was told that a proof is spent was told the truth, or was told by a *)
(* swap that ended between the publication and the commit of TX2: the      *)
(* spawned task delivers Spent although the handler is dropped, the        *)
(* process crashes or the commit fails after it.  Nothing else that        *)
(* happens to a swap, a refused statement, a compensation or a recovery    *)
(* among them, makes the announcement false.                               *)
(***************************************************************************)
SpentAnnouncedTruly ==
    \A y \in Y : "Spent" \in announced[y] =>
        \/ proofs[y] = "Spent"
        \/ \E op \in Op : /\ y \in Inputs(op)
                          /\ pc[op] \in {"finalizing", "interrupted"}

\* What some handler or some later recovery still answers for.
Covered(op) == pc[op] \in Live \/ op \in sagas

(***************************************************************************)
(* No row is forgotten: a pending proof, and a message without signature,  *)
(* belongs to a request in progress or to a saga that recovery will read.  *)
(* Without this the proof could never be spent or melted again.            *)
(***************************************************************************)
PendingCovered ==
    /\ \A y \in Y : proofs[y] = "Pending" =>
          \E op \in Op : Covered(op) /\ y \in Inputs(op)
    /\ \A b \in B : messages[b] = "Blinded" =>
          \E op \in Op : Covered(op) /\ b \in Outputs(op)

(***************************************************************************)
(* A swap that failed after TX1 leaves nothing behind: its compensations   *)
(* ran before the client got the error, so each of its rows is gone, or    *)
(* was taken meanwhile by a swap that is covered itself or has succeeded.  *)
(***************************************************************************)
FailedRestored ==
    \A op \in Op : pc[op] = "failed" =>
        /\ \A y \in Inputs(op) :
              \/ proofs[y] = "None"
              \/ \E other \in Op \ {op} :
                    /\ y \in Inputs(other)
                    /\ Covered(other) \/ pc[other] \in Finalized
        /\ \A b \in Outputs(op) :
              \/ messages[b] = "None"
              \/ \E other \in Op \ {op} :
                    /\ b \in Outputs(other)
                    /\ Covered(other) \/ pc[other] \in Finalized

(***************************************************************************)
(* A spent proof stays spent and a signed message stays signed: no step,   *)
(* compensation and recovery included, takes either back.                  *)
(***************************************************************************)
SpentForever ==
    [][/\ \A y \in Y : proofs[y] = "Spent" => proofs'[y] = "Spent"
       /\ \A b \in B : messages[b] = "Signed" => messages'[b] = "Signed"]_vars

(***************************************************************************)
(* Recovery is complete: when the mint starts to serve requests, no proof  *)
(* is pending and no message waits for a signature, since no swap is in    *)
(* progress.                                                               *)
(***************************************************************************)
RecoveryComplete ==
    [][mint = "recovering" /\ mint' = "running" =>
          /\ \A y \in Y : proofs[y] # "Pending"
          /\ \A b \in B : messages[b] # "Blinded"]_vars

(***************************************************************************)
(* The swap saga implements the ledger of SwapLedger: seen through the     *)
(* spent proofs and the signed messages, a swap happens in one step, the   *)
(* commit of TX2, and every other step of the handlers, compensations and  *)
(* recoveries changes nothing.                                             *)
(***************************************************************************)
Ledger == INSTANCE SwapLedger WITH
    Trades <- {r \in Request : r.verified /\ Balanced(r)},
    spent <- {y \in Y : proofs[y] = "Spent"},
    issued <- {b \in B : messages[b] = "Signed"}

ImplementsLedger == Ledger!Spec

(***************************************************************************)
(* Nothing stays reserved: a proof that a swap made pending is eventually  *)
(* spent or released, and a message eventually signed or released.         *)
(***************************************************************************)
PendingResolved ==
    /\ \A y \in Y : proofs[y] = "Pending" ~> proofs[y] # "Pending"
    /\ \A b \in B : messages[b] = "Blinded" ~> messages[b] # "Blinded"

=============================================================================
