--------------------------- MODULE SwapSagaProofs ---------------------------
(***************************************************************************)
(* Proofs about SwapSaga, for any number of proofs, messages, operations   *)
(* and crashes, and for any set of faults.                                 *)
(***************************************************************************)
EXTENDS SwapSaga, Sums

(***************************************************************************)
(* A handler that is past TX1 has an accepted request.                     *)
(***************************************************************************)
Accepted ==
    \A op \in Op : pc[op] \in Live \cup Finalized =>
        /\ request[op] \in Request
        /\ request[op].verified
        /\ Balanced(request[op])

(***************************************************************************)
(* Recovery and handlers exclude each other: while the mint is down or     *)
(* recovering no handler is in progress, and while it runs no saga is      *)
(* being recovered.                                                        *)
(***************************************************************************)
Separated ==
    /\ mint # "running" => \A op \in Op : pc[op] \notin Live \cup {"committed"}
    /\ mint # "recovering" => queue = {} /\ current = NoOp

(***************************************************************************)
(* The inductive invariant.  Reserved is the heart of it: TX2 finds its    *)
(* rows as TX1 left them, so that spending and signing are consistent.     *)
(***************************************************************************)
SwapInv ==
    /\ TypeOK
    /\ Separated
    /\ Accepted
    /\ Reserved
    /\ FinalizedDurable
    /\ SpentOnce

-----------------------------------------------------------------------------
(***************************************************************************)
(* The initial state, an empty database, satisfies the invariant.          *)
(***************************************************************************)
LEMMA InitInv == Init => SwapInv
  <1> SUFFICES ASSUME Init PROVE SwapInv
    BY Zenon
  <1>1. TypeOK
    BY SwapConstants DEF Init, TypeOK, PC, MessageState
  <1>2. \A op \in Op : pc[op] = "idle"
    BY Zenon DEF Init
  <1>3. Separated /\ Accepted /\ Reserved /\ FinalizedDurable
    BY <1>2, Zenon DEF Init, Separated, Accepted, Reserved, FinalizedDurable,
                FinalizedOps, Live, Holding, Finalized
  <1>4. SpentOnce
    BY <1>2, Zenon DEF Init, SpentOnce, FinalizedOps, Finalized
  <1> QED
    BY <1>1, <1>3, <1>4, Zenon DEF SwapInv

(***************************************************************************)
(* TX1 preserves the invariant: a row it inserts was absent before, so it  *)
(* belongs to no other handler and to no finalized swap.                   *)
(***************************************************************************)
LEMMA SetupSwapInv ==
    ASSUME SwapInv, NEW op \in Op, NEW r \in Request, SetupSwap(op, r)
    PROVE  SwapInv'
  <1> USE DEF Live, Holding, Finalized, Inputs, Outputs, FinalizedOps
  <1>1. /\ proofs' \in [Y -> {"None", "Pending", "Spent"}]
        /\ \A y \in Y : proofs'[y] = IF y \in r.inputs THEN "Pending"
                                                       ELSE proofs[y]
    BY Zenon DEF SwapInv, TypeOK, SetupSwap, UpdateProofsStates, AddProofs, SetAll
  <1>2. /\ messages' \in [B -> MessageState]
        /\ \A b \in B : messages'[b] = IF b \in r.outputs THEN "Blinded"
                                                          ELSE messages[b]
    BY Zenon DEF SwapInv, TypeOK, SetupSwap, AddBlindedMessages, SetAll, MessageState
  <1>3. announced' \in [Y -> SUBSET {"Pending", "Spent"}]
    BY Zenon DEF SwapInv, TypeOK, SetupSwap, Publish, SetAll
  <1>4. /\ request' \in [Op -> Request \cup {NoRequest}]
        /\ request'[op] = r
        /\ \A o \in Op \ {op} : request'[o] = request[o]
    BY Zenon DEF SwapInv, TypeOK, SetupSwap
  <1>5. /\ pc' \in [Op -> PC]
        /\ pc'[op] = "setup"
        /\ \A o \in Op \ {op} : pc'[o] = pc[o]
    BY Zenon DEF SwapInv, TypeOK, SetupSwap, PC
  <1>6. /\ \A y \in r.inputs : proofs[y] = "None"
        /\ \A b \in r.outputs : messages[b] = "None"
        /\ r.verified /\ Balanced(r)
    BY Zenon DEF SetupSwap, SetupOk, AddProofsOk, AddBlindedMessagesOk
  <1>7. r.inputs \subseteq Y /\ r.outputs \subseteq B
    BY Zenon DEF Request
  <1>8. \A o \in Op : Inputs(o) \subseteq Y /\ Outputs(o) \subseteq B
    BY DEF SwapInv, TypeOK, Request, NoRequest
  <1>9. TypeOK'
    BY <1>1, <1>2, <1>3, <1>4, <1>5, Zenon
       DEF SwapInv, TypeOK, SetupSwap, AddSaga, Separated
  <1>10. Separated'
    BY <1>5, Zenon DEF SwapInv, Separated, SetupSwap
  <1>11. Accepted'
    BY <1>4, <1>5, <1>6 DEF SwapInv, Accepted, Balanced, CalculateFee
  <1>12. Reserved'
    BY <1>1, <1>2, <1>4, <1>5, <1>6, <1>7, <1>8 DEF SwapInv, Reserved
  <1>13. pc[op] = "idle"
    BY Zenon DEF SetupSwap
  <1>14. FinalizedDurable'
    BY <1>1, <1>2, <1>4, <1>5, <1>6, <1>7, <1>8 DEF SwapInv, FinalizedDurable
  <1>15. SpentOnce'
    BY <1>1, <1>2, <1>4, <1>5, <1>7, <1>13 DEF SwapInv, SpentOnce
  <1> QED
    BY <1>9, <1>10, <1>11, <1>12, <1>14, <1>15, Zenon DEF SwapInv

(***************************************************************************)
(* A step that leaves the tables alone and moves one handler, neither to   *)
(* a place where it would hold more nor across the commit of TX2, does     *)
(* too.                                                                    *)
(***************************************************************************)
LEMMA MoveInv ==
    ASSUME SwapInv, NEW op \in Op, NEW to \in PC,
           pc' = [pc EXCEPT ![op] = to],
           UNCHANGED <<proofs, messages, sagas, request, mint, queue, current,
                       crashes>>,
           announced' \in [Y -> SUBSET {"Pending", "Spent"}],
           mint = "running",
           to \in Live => pc[op] \in Live,
           to \in Holding => pc[op] \in Holding,
           to \in Finalized <=> pc[op] \in Finalized
    PROVE  SwapInv'
  <1> USE DEF Inputs, Outputs, FinalizedOps
  <1>1. /\ pc' \in [Op -> PC]
        /\ pc'[op] = to
        /\ \A o \in Op \ {op} : pc'[o] = pc[o]
    BY Zenon DEF SwapInv, TypeOK
  <1>2. TypeOK'
    BY <1>1, Zenon DEF SwapInv, TypeOK
  <1>3. Separated'
    BY Zenon DEF SwapInv, Separated
  <1>4. Accepted'
    BY <1>1 DEF SwapInv, Accepted, Balanced, CalculateFee
  <1>5. Reserved'
    BY <1>1 DEF SwapInv, Reserved
  <1>6. \A o \in Op : pc'[o] \in Finalized <=> pc[o] \in Finalized
    BY <1>1, Zenon
  <1>7. FinalizedDurable' /\ SpentOnce'
    BY <1>6 DEF SwapInv, FinalizedDurable, SpentOnce
  <1> QED
    BY <1>2, <1>3, <1>4, <1>5, <1>7, Zenon DEF SwapInv

(***************************************************************************)
(* The commit of TX2 preserves the invariant: by Reserved its rows are     *)
(* pending and unsigned, and no other handler or finalized swap has them.  *)
(***************************************************************************)
LEMMA FinalizeInv ==
    ASSUME SwapInv, NEW op \in Op, Finalize(op)
    PROVE  SwapInv'
  <1> USE DEF Live, Holding, Finalized, Inputs, Outputs, FinalizedOps
  <1>1. \A o \in Op : Inputs(o) \subseteq Y /\ Outputs(o) \subseteq B
    BY DEF SwapInv, TypeOK, Request, NoRequest
  <1>2. /\ proofs' \in [Y -> {"None", "Pending", "Spent"}]
        /\ \A y \in Y : proofs'[y] = IF y \in Inputs(op) THEN "Spent"
                                                         ELSE proofs[y]
    BY Zenon DEF SwapInv, TypeOK, Finalize, UpdateProofsStates, SetAll
  <1>3. /\ messages' \in [B -> MessageState]
        /\ \A b \in B : messages'[b] = IF b \in Outputs(op) THEN "Signed"
                                                            ELSE messages[b]
    BY Zenon DEF SwapInv, TypeOK, Finalize, AddBlindSignatures, SetAll, MessageState
  <1>4. announced' \in [Y -> SUBSET {"Pending", "Spent"}]
    BY Zenon DEF SwapInv, TypeOK, Finalize
  <1>5. /\ pc[op] = "finalizing" /\ mint = "running"
        /\ pc' \in [Op -> PC]
        /\ pc'[op] = "committed"
        /\ \A o \in Op \ {op} : pc'[o] = pc[o]
        /\ UNCHANGED <<request, mint, queue, current, crashes>>
        /\ sagas' \subseteq sagas /\ queue = {}
    BY Zenon DEF SwapInv, TypeOK, Separated, Finalize, PC, DeleteSagaBestEffort
  <1>6. /\ \A y \in Inputs(op) : proofs[y] = "Pending"
        /\ \A b \in Outputs(op) : messages[b] = "Blinded"
    BY <1>5, Zenon DEF SwapInv, Reserved
  <1>7. TypeOK'
    BY <1>2, <1>3, <1>4, <1>5, Zenon DEF SwapInv, TypeOK
  <1>8. Separated'
    BY <1>5, Zenon DEF SwapInv, Separated
  <1>9. Accepted'
    BY <1>5 DEF SwapInv, Accepted, Balanced, CalculateFee
  <1>10. Reserved'
    BY <1>1, <1>2, <1>3, <1>5 DEF SwapInv, Reserved
  <1>11. FinalizedDurable'
    BY <1>1, <1>2, <1>3, <1>5 DEF SwapInv, FinalizedDurable
  <1>12. SpentOnce'
    <2>1. \A o \in Op : pc[o] \in Finalized =>
             /\ Inputs(o) \cap Inputs(op) = {}
             /\ Outputs(o) \cap Outputs(op) = {}
      BY <1>1, <1>6, Zenon DEF SwapInv, FinalizedDurable
    <2> QED
      BY <1>2, <1>3, <1>5, <2>1 DEF SwapInv, SpentOnce
  <1> QED
    BY <1>7, <1>8, <1>9, <1>10, <1>11, <1>12, Zenon DEF SwapInv

(***************************************************************************)
(* RemoveSwapSetup takes away pending proofs and unsigned messages only:   *)
(* what is spent or signed stays.                                          *)
(***************************************************************************)
LEMMA RemoveSwapSetupLemma ==
    ASSUME TypeOK, NEW op \in Op, RemoveSwapSetup(op)
    PROVE  /\ proofs' \in [Y -> {"None", "Pending", "Spent"}]
           /\ messages' \in [B -> MessageState]
           /\ \A y \in Inputs(op) : proofs[y] = "Pending"
           /\ \A y \in Y : proofs'[y] = IF y \in Inputs(op) THEN "None"
                                                            ELSE proofs[y]
           /\ \A b \in B : messages'[b] =
                 IF b \in Outputs(op) /\ messages[b] = "Blinded"
                 THEN "None" ELSE messages[b]
  <1>1. Inputs(op) \subseteq Y
    BY DEF TypeOK, Request, NoRequest, Inputs
  <1>2. \A y \in Inputs(op) : proofs[y] = "Pending"
    BY <1>1, Zenon DEF TypeOK, RemoveSwapSetup, RemoveSwapSetupOk, RemoveProofsOk,
                Deletable
  <1> QED
    BY <1>1, <1>2, Zenon DEF TypeOK, RemoveSwapSetup, RemoveProofs, Deletable, SetAll,
                      DeleteBlindedMessages, MessageState

(***************************************************************************)
(* So a compensation preserves what the invariant says of spent proofs     *)
(* and signed messages, provided it moves no handler across TX2.           *)
(***************************************************************************)
LEMMA RemoveKeepsSpent ==
    ASSUME SwapInv, NEW op \in Op,
           RemoveSwapSetup(op) \/ RemoveSwapSetupFails(op),
           UNCHANGED request,
           \A o \in Op : pc'[o] \in Finalized <=> pc[o] \in Finalized
    PROVE  FinalizedDurable' /\ SpentOnce'
  <1> USE DEF Inputs, Outputs, FinalizedOps
  <1>1. CASE RemoveSwapSetupFails(op)
    BY <1>1, Zenon DEF SwapInv, FinalizedDurable, SpentOnce, RemoveSwapSetupFails
  <1>2. CASE RemoveSwapSetup(op)
    <2>1. /\ \A y \in Y : proofs'[y] = "Spent" <=> proofs[y] = "Spent"
          /\ \A b \in B : messages'[b] = "Signed" <=> messages[b] = "Signed"
      BY <1>2, RemoveSwapSetupLemma, Zenon DEF SwapInv
    <2>2. \A o \in Op : Inputs(o) \subseteq Y /\ Outputs(o) \subseteq B
      BY DEF SwapInv, TypeOK, Request, NoRequest
    <2> QED
      BY <2>1, <2>2 DEF SwapInv, FinalizedDurable, SpentOnce
  <1> QED
    BY <1>1, <1>2, Zenon

(***************************************************************************)
(* The compensation of a handler touches no other handler's rows.          *)
(***************************************************************************)
LEMMA CompensateInv ==
    ASSUME SwapInv, NEW op \in Op, Compensate(op)
    PROVE  SwapInv'
  <1> USE DEF Live, Holding, Finalized, Inputs, Outputs, FinalizedOps
  <1>1. /\ pc[op] = "compensating"
        /\ pc' \in [Op -> PC]
        /\ pc'[op] = "cleanup"
        /\ \A o \in Op \ {op} : pc'[o] = pc[o]
        /\ UNCHANGED <<sagas, request, announced, mint, queue, current, crashes>>
        /\ RemoveSwapSetup(op) \/ RemoveSwapSetupFails(op)
    BY Zenon DEF SwapInv, TypeOK, Compensate, PC
  <1>2. FinalizedDurable' /\ SpentOnce'
    BY <1>1, RemoveKeepsSpent, Zenon
  <1>3. TypeOK'
    BY <1>1, RemoveSwapSetupLemma, Zenon DEF SwapInv, TypeOK, RemoveSwapSetupFails
  <1>4. Separated' /\ Accepted'
    BY <1>1 DEF SwapInv, Separated, Accepted, Balanced, CalculateFee, Compensate
  <1>5. Reserved'
    <2>1. \A o \in Op : Inputs(o) \subseteq Y /\ Outputs(o) \subseteq B
      BY DEF SwapInv, TypeOK, Request, NoRequest
    <2>2. \A o \in Op \ {op} : pc[o] \in Holding =>
             /\ \A y \in Inputs(o) : proofs'[y] = proofs[y]
             /\ \A b \in Outputs(o) : messages'[b] = messages[b]
      BY <1>1, <2>1, RemoveSwapSetupLemma
         DEF SwapInv, Reserved, RemoveSwapSetupFails
    <2> QED
      BY <1>1, <2>2 DEF SwapInv, Reserved
  <1> QED
    BY <1>2, <1>3, <1>4, <1>5, Zenon DEF SwapInv

(***************************************************************************)
(* Nor does the compensation of a saga at start: no handler is running.    *)
(***************************************************************************)
LEMMA RecoverCompensateInv ==
    ASSUME SwapInv, NEW op \in Op, RecoverCompensate(op)
    PROVE  SwapInv'
  <1> USE DEF Live, Holding, Finalized, Inputs, Outputs, FinalizedOps
  <1>1. /\ UNCHANGED <<sagas, request, pc, announced, mint, crashes>>
        /\ mint = "recovering"
        /\ queue' \subseteq queue
        /\ current' \in queue' \cup {NoOp}
        /\ RemoveSwapSetup(op) \/ RemoveSwapSetupFails(op)
    BY Zenon DEF RecoverCompensate
  <1>2. FinalizedDurable' /\ SpentOnce'
    BY <1>1, RemoveKeepsSpent, Zenon
  <1>3. TypeOK'
    BY <1>1, RemoveSwapSetupLemma, Zenon DEF SwapInv, TypeOK, RemoveSwapSetupFails
  <1>4. Separated' /\ Accepted'
    BY <1>1 DEF SwapInv, Separated, Accepted, Balanced, CalculateFee
  <1>5. Reserved'
    BY <1>1, Zenon DEF SwapInv, Reserved, Separated
  <1> QED
    BY <1>2, <1>3, <1>4, <1>5, Zenon DEF SwapInv

(***************************************************************************)
(* Every step preserves the invariant.                                     *)
(***************************************************************************)
LEMMA NextInv == SwapInv /\ [Next]_vars => SwapInv'
  <1> SUFFICES ASSUME SwapInv, [Next]_vars PROVE SwapInv'
    BY Zenon
  <1> USE DEF Live, Holding, Finalized
  <1>1. ASSUME NEW op \in Op, Receive(op) PROVE SwapInv'
    <2>1. PICK r \in Request : \/ SetupSwap(op, r)
                              \/ SetupSwapRefused(op, r)
                              \/ SetupSwapCommitFails(op, r)
      BY <1>1, Zenon DEF Receive
    <2>2. CASE SetupSwap(op, r)
      BY <2>2, SetupSwapInv, Zenon
    <2>3. CASE SetupSwapRefused(op, r)
      BY <2>3, MoveInv, Zenon DEF SetupSwapRefused, PC, SwapInv, TypeOK
    <2>4. CASE SetupSwapCommitFails(op, r)
      <3>1. announced' \in [Y -> SUBSET {"Pending", "Spent"}]
        BY <2>4, Zenon DEF SetupSwapCommitFails, Publish, SetAll, SwapInv, TypeOK
      <3> QED
        BY <2>4, <3>1, MoveInv, Zenon DEF SetupSwapCommitFails, PC
    <2> QED
      BY <2>1, <2>2, <2>3, <2>4, Zenon
  <1>2. ASSUME NEW op \in Op, Handle(op) PROVE SwapInv'
    <2>1. CASE SignOutputs(op)
      BY <2>1, MoveInv, Zenon DEF SignOutputs, PC, SwapInv, TypeOK
    <2>2. CASE SignOutputsFails(op)
      BY <2>2, MoveInv, Zenon DEF SignOutputsFails, PC, SwapInv, TypeOK
    <2>3. CASE Finalize(op)
      BY <2>3, FinalizeInv, Zenon
    <2>4. CASE FinalizeRefused(op)
      BY <2>4, MoveInv, Zenon DEF FinalizeRefused, PC, SwapInv, TypeOK
    <2>5. CASE FinalizeTxFails(op)
      BY <2>5, MoveInv, Zenon DEF FinalizeTxFails, PC, SwapInv, TypeOK
    <2>6. CASE Respond(op)
      BY <2>6, MoveInv, Zenon DEF Respond, PC, SwapInv, TypeOK
    <2>7. CASE Compensate(op)
      BY <2>7, CompensateInv, Zenon
    <2>8. CASE DeleteSaga(op)
      <3>1. /\ pc' \in [Op -> PC]
            /\ pc[op] = "cleanup" /\ pc'[op] = "failed"
            /\ \A o \in Op \ {op} : pc'[o] = pc[o]
            /\ sagas' \subseteq sagas /\ queue = {} /\ mint = "running"
            /\ UNCHANGED <<proofs, messages, request, announced, mint, queue,
                           current, crashes>>
        BY <2>8, Zenon DEF DeleteSaga, DeleteSagaBestEffort, SwapInv, TypeOK,
                    Separated, PC
      <3>2. TypeOK' /\ Separated' /\ Accepted'
        BY <3>1, SMTT(30) DEF SwapInv, TypeOK, Separated, Accepted, Balanced, CalculateFee
      <3>3. Reserved' /\ FinalizedDurable' /\ SpentOnce'
        BY <3>1 DEF SwapInv, Reserved, FinalizedDurable, SpentOnce,
                    FinalizedOps, Inputs, Outputs
      <3> QED
        BY <3>2, <3>3, Zenon DEF SwapInv
    <2>9. CASE SpendInputs(op)
      <3>1. announced' \in [Y -> SUBSET {"Pending", "Spent"}]
        BY <2>9, Zenon DEF SpendInputs, Publish, SwapInv, TypeOK
      <3> QED
        BY <2>9, <3>1, MoveInv, Zenon DEF SpendInputs, PC
    <2> QED
      BY <1>2, <2>1, <2>2, <2>3, <2>4, <2>5, <2>6, <2>7, <2>8, <2>9, Zenon DEF Handle
  <1>3. ASSUME NEW op \in Op, HangUp(op) PROVE SwapInv'
    <2>1. /\ Dropped(pc[op]) \in PC
          /\ Dropped(pc[op]) \notin Live
          /\ Dropped(pc[op]) \in Finalized <=> pc[op] \in Finalized
      BY <1>3, Zenon DEF HangUp, Dropped, PC
    <2> QED
      BY <1>3, <2>1, MoveInv, Zenon DEF HangUp, SwapInv, TypeOK
  <1>4. CASE Crash
    <2>1. \A op \in Op :
             /\ pc'[op] \in PC
             /\ pc'[op] \notin Live \cup {"committed"}
             /\ pc'[op] \in Finalized <=> pc[op] \in Finalized
      BY <1>4, Zenon DEF Crash, Dropped, PC, SwapInv, TypeOK
    <2>2. /\ pc' \in [Op -> PC]
          /\ mint' = "down" /\ queue' = {} /\ current' = NoOp
          /\ crashes' \in 0 .. MaxCrashes
          /\ UNCHANGED <<proofs, messages, sagas, request, announced>>
      BY <1>4, <2>1, SwapConstants DEF Crash, SwapInv, TypeOK
    <2>3. TypeOK' /\ Separated'
      BY <2>1, <2>2, Zenon DEF SwapInv, TypeOK, Separated
    <2>4. Accepted' /\ Reserved'
      BY <2>1, <2>2, SMTT(30) DEF SwapInv, Accepted, Reserved, Balanced, CalculateFee
    <2>5. FinalizedDurable' /\ SpentOnce'
      BY <2>1, <2>2 DEF SwapInv, FinalizedDurable, SpentOnce, FinalizedOps,
                        Inputs, Outputs
    <2> QED
      BY <2>3, <2>4, <2>5, Zenon DEF SwapInv
  <1>5. CASE Recover
    <2>1. ASSUME NEW op \in Op, RecoverCompensate(op) PROVE SwapInv'
      BY <2>1, RecoverCompensateInv, Zenon
    <2>2. ASSUME Restart \/ RecoverDelete \/ RecoverTxFails \/ RecoveryDone
          PROVE  SwapInv'
      <3>1. /\ UNCHANGED <<proofs, messages, request, pc, announced, crashes>>
            /\ mint # "running"
        BY <2>2, Zenon DEF Restart, RecoverDelete, RecoverTxFails, RecoveryDone
      <3>2. TypeOK' /\ Separated'
        BY <2>2, <3>1, SMTT(30) DEF SwapInv, TypeOK, Separated, Restart, RecoverDelete,
                          DeleteSagaBestEffort, RecoverTxFails, RecoveryDone
      <3>3. Accepted' /\ Reserved' /\ FinalizedDurable' /\ SpentOnce'
        BY <3>1, SMTT(30) DEF SwapInv, Accepted, Reserved, FinalizedDurable, SpentOnce,
                    FinalizedOps, Inputs, Outputs, Balanced, CalculateFee
      <3> QED
        BY <3>2, <3>3, Zenon DEF SwapInv
    <2> QED
      BY <1>5, <2>1, <2>2, Zenon DEF Recover
  <1>6. CASE UNCHANGED vars
    BY <1>6 DEF vars, SwapInv, TypeOK, Separated, Accepted, Reserved,
                FinalizedDurable, SpentOnce, FinalizedOps, Inputs, Outputs,
                Balanced, CalculateFee
  <1> QED
    BY <1>1, <1>2, <1>3, <1>4, <1>5, <1>6, Zenon DEF Next

(***************************************************************************)
(* The invariant holds of every reachable state.                           *)
(***************************************************************************)
THEOREM Invariant == Spec => []SwapInv
  BY InitInv, NextInv, PTL DEF Spec

(***************************************************************************)
(* Type correctness of the tables and of the state in memory.              *)
(***************************************************************************)
THEOREM TypeCorrect == Spec => []TypeOK
  BY Invariant, PTL DEF SwapInv

(***************************************************************************)
(* Between TX1 and its compensation the rows of a swap are its own, so TX2 *)
(* never meets the work of another request.                                *)
(***************************************************************************)
THEOREM ReservationHolds == Spec => []Reserved
  BY Invariant, PTL DEF SwapInv

(***************************************************************************)
(* A swap that committed TX2 has its inputs spent and its outputs signed   *)
(* for ever after.                                                         *)
(***************************************************************************)
THEOREM Durability == Spec => []FinalizedDurable
  BY Invariant, PTL DEF SwapInv

(***************************************************************************)
(* Every spent proof and every signed message is accounted for by exactly  *)
(* one swap that committed TX2.                                            *)
(***************************************************************************)
THEOREM NoDoubleSpend == Spec => []SpentOnce
  BY Invariant, PTL DEF SwapInv

-----------------------------------------------------------------------------
(* Refinement.                                                             *)

(***************************************************************************)
(* Only the commit of TX2 changes what is spent and what is signed.        *)
(***************************************************************************)
LEMMA OnlyFinalizeSpends ==
    ASSUME SwapInv, [Next]_vars, \A op \in Op : ~Finalize(op)
    PROVE  /\ \A y \in Y : proofs'[y] = "Spent" <=> proofs[y] = "Spent"
           /\ \A b \in B : messages'[b] = "Signed" <=> messages[b] = "Signed"
  <1>1. CASE UNCHANGED <<proofs, messages>>
    BY <1>1, Zenon
  <1>2. ASSUME NEW op \in Op, RemoveSwapSetup(op)
        PROVE  /\ \A y \in Y : proofs'[y] = "Spent" <=> proofs[y] = "Spent"
               /\ \A b \in B : messages'[b] = "Signed" <=> messages[b] = "Signed"
    BY <1>2, RemoveSwapSetupLemma, SMTT(30) DEF SwapInv
  <1>3. ASSUME NEW op \in Op, NEW r \in Request, SetupSwap(op, r)
        PROVE  /\ \A y \in Y : proofs'[y] = "Spent" <=> proofs[y] = "Spent"
               /\ \A b \in B : messages'[b] = "Signed" <=> messages[b] = "Signed"
    <2>1. /\ \A y \in r.inputs : proofs[y] = "None"
          /\ \A b \in r.outputs : messages[b] = "None"
      BY <1>3, Zenon DEF SetupSwap, SetupOk, AddProofsOk, AddBlindedMessagesOk
    <2> QED
      BY <1>3, <2>1, Zenon DEF SwapInv, TypeOK, SetupSwap, UpdateProofsStates,
                        AddProofs, AddBlindedMessages, SetAll
  <1>4. \/ UNCHANGED <<proofs, messages>>
        \/ \E op \in Op : RemoveSwapSetup(op)
        \/ \E op \in Op, r \in Request : SetupSwap(op, r)
    <2>1. ASSUME NEW op \in Op, Receive(op) \/ HangUp(op)
          PROVE  \/ UNCHANGED <<proofs, messages>>
                 \/ \E r \in Request : SetupSwap(op, r)
      BY <2>1, Zenon DEF Receive, SetupSwapRefused, SetupSwapCommitFails, HangUp
    <2>2. ASSUME NEW op \in Op, Handle(op)
          PROVE  UNCHANGED <<proofs, messages>> \/ RemoveSwapSetup(op)
      BY <2>2, Zenon DEF Handle, SignOutputs, SignOutputsFails, SpendInputs,
                  FinalizeRefused, FinalizeTxFails, Respond, Compensate,
                  RemoveSwapSetupFails, DeleteSaga
    <2>3. ASSUME Crash \/ Recover
          PROVE  \/ UNCHANGED <<proofs, messages>>
                 \/ \E op \in Op : RemoveSwapSetup(op)
      BY <2>3, Zenon DEF Crash, Recover, Restart, RecoverCompensate, RecoverDelete,
                  RemoveSwapSetupFails, RecoverTxFails, RecoveryDone
    <2> QED
      BY <2>1, <2>2, <2>3, Zenon DEF Next, vars
  <1> QED
    BY <1>1, <1>2, <1>3, <1>4, Zenon

(***************************************************************************)
(* And the commit of TX2 is a swap of the ledger.                          *)
(***************************************************************************)
LEMMA FinalizeIsSwap ==
    ASSUME SwapInv, NEW op \in Op, Finalize(op)
    PROVE  Ledger!Next
  <1> USE DEF Inputs, Outputs
  <1>1. /\ pc[op] = "finalizing"
        /\ request[op] \in Request
        /\ request[op].verified /\ Balanced(request[op])
    BY Zenon DEF SwapInv, Accepted, Finalize, Live
  <1>2. Inputs(op) \subseteq Y /\ Outputs(op) \subseteq B
    BY <1>1, Zenon DEF Request
  <1>3. /\ \A y \in Inputs(op) : proofs[y] = "Pending"
        /\ \A b \in Outputs(op) : messages[b] = "Blinded"
    BY <1>1, Zenon DEF SwapInv, Reserved, Holding
  <1>4. /\ \A y \in Y : proofs'[y] = IF y \in Inputs(op) THEN "Spent"
                                                         ELSE proofs[y]
        /\ \A b \in B : messages'[b] = IF b \in Outputs(op) THEN "Signed"
                                                            ELSE messages[b]
    BY Zenon DEF SwapInv, TypeOK, Finalize, UpdateProofsStates, AddBlindSignatures,
           SetAll
  <1>5. Ledger!Swap(request[op])
    BY <1>2, <1>3, <1>4, Zenon DEF Ledger!Swap
  <1>6. request[op] \in {r \in Request : r.verified /\ Balanced(r)}
    BY <1>1, Zenon
  <1> QED
    BY <1>5, <1>6, Zenon DEF Ledger!Next, Ledger!Swap

(***************************************************************************)
(* The two-transaction swap with its compensations and its recovery        *)
(* implements the atomic swap of SwapLedger.                               *)
(***************************************************************************)
THEOREM Refinement == Spec => ImplementsLedger
  <1>1. Init => Ledger!Init
    BY Zenon DEF Init, Ledger!Init
  <1>2. SwapInv /\ [Next]_vars =>
           [Ledger!Next]_<<{y \in Y : proofs[y] = "Spent"},
                           {b \in B : messages[b] = "Signed"}>>
    <2> SUFFICES ASSUME SwapInv, [Next]_vars, \A op \in Op : ~Finalize(op)
                 PROVE  UNCHANGED <<{y \in Y : proofs[y] = "Spent"},
                                    {b \in B : messages[b] = "Signed"}>>
      BY FinalizeIsSwap, Zenon
    <2> QED
      BY OnlyFinalizeSpends, Zenon
  <1> QED
    BY <1>1, <1>2, Invariant, PTL DEF Spec, ImplementsLedger, Ledger!Spec

(***************************************************************************)
(* A step keeps every spent proof and every signature.                     *)
(***************************************************************************)
LEMMA SpentKept ==
    ASSUME SwapInv, [Next]_vars
    PROVE  /\ \A y \in Y : proofs[y] = "Spent" => proofs'[y] = "Spent"
           /\ \A b \in B : messages[b] = "Signed" => messages'[b] = "Signed"
  <1>1. ASSUME NEW op \in Op, Finalize(op)
        PROVE  /\ \A y \in Y : proofs[y] = "Spent" => proofs'[y] = "Spent"
               /\ \A b \in B : messages[b] = "Signed" => messages'[b] = "Signed"
    BY <1>1, Zenon DEF SwapInv, TypeOK, Finalize, UpdateProofsStates,
                AddBlindSignatures, SetAll
  <1> QED
    BY <1>1, OnlyFinalizeSpends, Zenon

(***************************************************************************)
(* No step takes a spent proof or a signature back: neither compensation   *)
(* nor recovery undoes a swap that committed TX2.                          *)
(***************************************************************************)
THEOREM Permanence == Spec => SpentForever
  <1>1. SwapInv /\ [Next]_vars =>
           [/\ \A y \in Y : proofs[y] = "Spent" => proofs'[y] = "Spent"
            /\ \A b \in B : messages[b] = "Signed" => messages'[b] = "Signed"]_vars
    BY SpentKept, Zenon
  <1> QED
    BY <1>1, Invariant, PTL DEF Spec, SpentForever

(***************************************************************************)
(* A handler that is in or behind the gap between the publication and the  *)
(* commit of TX2 stays there, or commits.                                  *)
(***************************************************************************)
LEMMA GapKept ==
    ASSUME SwapInv, [Next]_vars, NEW o \in Op,
           pc[o] \in {"finalizing", "interrupted"}
    PROVE  /\ request'[o] = request[o]
           /\ pc'[o] \in {"finalizing", "interrupted"} \/ Finalize(o)
  <1> USE DEF Live
  <1>0. TypeOK
    BY Zenon DEF SwapInv
  <1>1. ASSUME NEW op \in Op, NEW r \in Request,
               \/ SetupSwap(op, r) \/ SetupSwapRefused(op, r)
               \/ SetupSwapCommitFails(op, r)
        PROVE  pc'[o] = pc[o] /\ request'[o] = request[o]
    BY <1>0, <1>1, Zenon DEF SetupSwap, SetupSwapRefused, SetupSwapCommitFails,
                             TypeOK
  <1>2. ASSUME NEW op \in Op, Handle(op) \/ HangUp(op)
        PROVE  /\ request'[o] = request[o]
               /\ pc'[o] \in {"finalizing", "interrupted"} \/ Finalize(o)
    BY <1>0, <1>2, Zenon
       DEF Handle, HangUp, Dropped, SignOutputs, SignOutputsFails, SpendInputs,
           Finalize, FinalizeRefused, FinalizeTxFails, Respond, Compensate,
           DeleteSaga, TypeOK
  <1>3. CASE Crash
    BY <1>3, Zenon DEF Crash, Dropped
  <1>4. CASE Recover \/ UNCHANGED vars
    BY <1>4, Zenon DEF Recover, Restart, RecoverCompensate, RecoverDelete,
                       RecoverTxFails, RecoveryDone, vars
  <1> QED
    BY <1>1, <1>2, <1>3, <1>4, Zenon DEF Next, Receive

(***************************************************************************)
(* Whatever fails, a proof that was announced as spent is spent, but for   *)
(* the swaps that were cut short between the publication and the commit of *)
(* TX2.                                                                    *)
(***************************************************************************)
THEOREM AnnouncedTruly == Spec => []SpentAnnouncedTruly
  <1>1. Init => SpentAnnouncedTruly
    BY Zenon DEF Init, SpentAnnouncedTruly
  <1>2. ASSUME SwapInv, SpentAnnouncedTruly, [Next]_vars
        PROVE  SpentAnnouncedTruly'
    <2>1. ASSUME NEW y \in Y, "Spent" \in announced[y]
          PROVE  \/ proofs'[y] = "Spent"
                 \/ \E op \in Op : /\ y \in Inputs(op)'
                                   /\ pc'[op] \in {"finalizing", "interrupted"}
      <3>1. CASE proofs[y] = "Spent"
        BY <1>2, <3>1, SpentKept, Zenon
      <3>2. ASSUME NEW op \in Op, y \in Inputs(op),
                   pc[op] \in {"finalizing", "interrupted"}
            PROVE  \/ proofs'[y] = "Spent"
                   \/ /\ y \in Inputs(op)'
                      /\ pc'[op] \in {"finalizing", "interrupted"}
        <4>1. CASE Finalize(op)
          BY <1>2, <3>2, <4>1, Zenon
             DEF Finalize, UpdateProofsStates, SetAll, SwapInv, TypeOK
        <4> QED
          BY <1>2, <3>2, <4>1, GapKept, Zenon DEF Inputs
      <3> QED
        BY <1>2, <2>1, <3>1, <3>2, Zenon DEF SpentAnnouncedTruly
    <2>2. ASSUME NEW op \in Op, SpendInputs(op)
          PROVE  \A y \in Y : "Spent" \in announced'[y] =>
                     \/ "Spent" \in announced[y]
                     \/ y \in Inputs(op)' /\ pc'[op] = "finalizing"
      BY <1>2, <2>2, Zenon DEF SpendInputs, Publish, Inputs, SwapInv, TypeOK
    <2>3. ASSUME NEW op \in Op, Receive(op)
          PROVE  \A y \in Y : "Spent" \in announced'[y] => "Spent" \in announced[y]
      BY <2>3 DEF Receive, SetupSwap, SetupSwapRefused, SetupSwapCommitFails,
                  Publish
    <2>4. ASSUME NEW op \in Op, Handle(op), ~SpendInputs(op)
          PROVE  UNCHANGED announced
      BY <2>4, Zenon DEF Handle, SignOutputs, SignOutputsFails, Finalize,
                  FinalizeRefused, FinalizeTxFails, Respond, Compensate, DeleteSaga
    <2>5. ASSUME Crash \/ Recover \/ (\E op \in Op : HangUp(op)) \/ UNCHANGED vars
          PROVE  UNCHANGED announced
      BY <2>5, SMTT(30) DEF Crash, Recover, Restart, RecoverCompensate, RecoverDelete,
                  RecoverTxFails, RecoveryDone, HangUp, vars
    <2>6. \A y \in Y : "Spent" \in announced'[y] =>
              \/ "Spent" \in announced[y]
              \/ \E op \in Op : y \in Inputs(op)' /\ pc'[op] = "finalizing"
      BY <1>2, <2>2, <2>3, <2>4, <2>5, Zenon DEF Next
    <2> QED
      BY <2>1, <2>6, Zenon DEF SpentAnnouncedTruly
  <1> QED
    BY <1>1, <1>2, Invariant, PTL DEF Spec

-----------------------------------------------------------------------------
(* Conservation of value.                                                  *)

SpentProofs == {y \in Y : proofs[y] = "Spent"}
SignedMessages == {b \in B : messages[b] = "Signed"}
Fees == [op \in Op |-> CalculateFee(Inputs(op))]

(***************************************************************************)
(* A set of fees is a natural number, and so is each of them.              *)
(***************************************************************************)
LEMMA FeesType ==
    ASSUME TypeOK
    PROVE  /\ Fees \in [Op -> Nat]
           /\ IsFiniteSet(FinalizedOps) /\ FinalizedOps \in SUBSET Op
  <1>1. \A op \in Op : Inputs(op) \in SUBSET Y
    BY DEF TypeOK, Request, NoRequest, Inputs
  <1>2. \A ys \in SUBSET Y : SumFunctionOnSet(ProofFeePpk, ys) \in Nat
    BY SwapConstants, SumType, Zenon
  <1>3. \A ys \in SUBSET Y : CalculateFee(ys) \in Nat
    BY <1>2 DEF CalculateFee
  <1>4. FinalizedOps \in SUBSET Op
    BY Zenon DEF FinalizedOps
  <1> QED
    BY <1>1, <1>3, <1>4, SwapConstants, SubsetFinite, Zenon DEF Fees

(***************************************************************************)
(* Only the commit of TX2 takes a handler past it, and no step changes the *)
(* request of a handler that is.                                           *)
(***************************************************************************)
LEMMA OnlyFinalizeFinalizes ==
    ASSUME SwapInv, [Next]_vars, \A op \in Op : ~Finalize(op)
    PROVE  /\ FinalizedOps' = FinalizedOps
           /\ \A op \in FinalizedOps : request'[op] = request[op]
  <1> SUFFICES \A o \in Op : /\ pc'[o] \in Finalized <=> pc[o] \in Finalized
                             /\ pc[o] \in Finalized => request'[o] = request[o]
    BY Zenon DEF FinalizedOps
  <1> TAKE o \in Op
  <1> USE DEF Live, Finalized
  <1>0. TypeOK
    BY Zenon DEF SwapInv
  <1>1. ASSUME NEW op \in Op, NEW r \in Request, SetupSwap(op, r)
        PROVE  /\ pc'[o] \in Finalized <=> pc[o] \in Finalized
               /\ pc[o] \in Finalized => request'[o] = request[o]
    <2>1. /\ pc[op] = "idle" /\ pc'[op] = "setup"
          /\ o # op => pc'[o] = pc[o] /\ request'[o] = request[o]
      BY <1>0, <1>1, Zenon DEF SetupSwap, TypeOK
    <2> QED
      BY <2>1, Zenon
  <1>2. ASSUME NEW op \in Op, NEW r,
               \/ SetupSwapRefused(op, r) \/ SetupSwapCommitFails(op, r)
               \/ SignOutputs(op) \/ SignOutputsFails(op)
               \/ SpendInputs(op) \/ FinalizeRefused(op)
               \/ FinalizeTxFails(op) \/ Respond(op) \/ HangUp(op)
               \/ Compensate(op) \/ DeleteSaga(op)
        PROVE  /\ pc'[o] \in Finalized <=> pc[o] \in Finalized
               /\ pc[o] \in Finalized => request'[o] = request[o]
    <2>1. /\ UNCHANGED request
          /\ o # op => pc'[o] = pc[o]
          /\ pc'[op] \in Finalized <=> pc[op] \in Finalized
      BY <1>0, <1>2, Zenon
         DEF SetupSwapRefused, SetupSwapCommitFails, SignOutputs,
             SignOutputsFails, SpendInputs, FinalizeRefused, FinalizeTxFails,
             Respond, HangUp, Dropped, Compensate, DeleteSaga, TypeOK
    <2> QED
      BY <2>1, Zenon
  <1>3. CASE Crash
    BY <1>3, Zenon DEF Crash, Dropped
  <1>4. CASE Recover \/ UNCHANGED vars
    BY <1>4, Zenon DEF Recover, Restart, RecoverCompensate, RecoverDelete,
                       RecoverTxFails, RecoveryDone, vars
  <1> QED
    BY <1>1, <1>2, <1>3, <1>4, Zenon DEF Next, Receive, Handle

(***************************************************************************)
(* The commit of TX2 moves the value of the inputs to the outputs and the  *)
(* fee.                                                                    *)
(***************************************************************************)
LEMMA FinalizeConserves ==
    ASSUME SwapInv, Conservation, NEW op \in Op, Finalize(op)
    PROVE  Conservation'
  <1> USE DEF Finalized
  <1>1. PICK r : r = request[op]
    BY Zenon
  <1>2. /\ pc[op] = "finalizing" /\ op \notin FinalizedOps
        /\ r \in Request /\ Balanced(r)
    BY <1>1, Zenon DEF SwapInv, Accepted, Finalize, Live, FinalizedOps
  <1>3. /\ \A y \in r.inputs : proofs[y] = "Pending"
        /\ \A b \in r.outputs : messages[b] = "Blinded"
    BY <1>1, <1>2, Zenon DEF SwapInv, Reserved, Holding, Inputs, Outputs
  <1>4. /\ \A y \in Y : proofs'[y] = IF y \in r.inputs THEN "Spent"
                                                       ELSE proofs[y]
        /\ \A b \in B : messages'[b] = IF b \in r.outputs THEN "Signed"
                                                          ELSE messages[b]
    BY <1>1, Zenon DEF SwapInv, TypeOK, Finalize, UpdateProofsStates,
                       AddBlindSignatures, SetAll, Inputs, Outputs
  <1>5. r.inputs \in SUBSET Y /\ r.outputs \in SUBSET B
    BY <1>2, Zenon DEF Request
  <1>6. SumFunctionOnSet(ProofAmount, SpentProofs')
            = SumFunctionOnSet(ProofAmount, SpentProofs)
              + SumFunctionOnSet(ProofAmount, r.inputs)
    <2>1. SpentProofs' = SpentProofs \cup r.inputs
      BY <1>4, <1>5 DEF SpentProofs
    <2>2. SpentProofs \cap r.inputs = {} /\ SpentProofs \in SUBSET Y
      BY <1>3 DEF SpentProofs
    <2>3. SumFunctionOnSet(ProofAmount, SpentProofs \cup r.inputs)
              = SumFunctionOnSet(ProofAmount, SpentProofs)
                + SumFunctionOnSet(ProofAmount, r.inputs)
      BY <1>5, <2>2, SumUnion, SwapConstants
    <2> QED
      BY <2>1, <2>3, Zenon
  <1>7. SumFunctionOnSet(OutputAmount, SignedMessages')
            = SumFunctionOnSet(OutputAmount, SignedMessages)
              + SumFunctionOnSet(OutputAmount, r.outputs)
    <2>1. SignedMessages' = SignedMessages \cup r.outputs
      BY <1>4, <1>5 DEF SignedMessages
    <2>2. SignedMessages \cap r.outputs = {} /\ SignedMessages \in SUBSET B
      BY <1>3 DEF SignedMessages
    <2>3. SumFunctionOnSet(OutputAmount, SignedMessages \cup r.outputs)
              = SumFunctionOnSet(OutputAmount, SignedMessages)
                + SumFunctionOnSet(OutputAmount, r.outputs)
      BY <1>5, <2>2, SumUnion, SwapConstants
    <2> QED
      BY <2>1, <2>3, Zenon
  <1>8. SumFunctionOnSet(Fees', FinalizedOps')
            = SumFunctionOnSet(Fees, FinalizedOps) + CalculateFee(r.inputs)
    <2>1. FinalizedOps' = FinalizedOps \cup {op}
      BY Zenon DEF SwapInv, TypeOK, Finalize, FinalizedOps
    <2>2. Fees' = Fees
      <3>1. request' = request
        BY Zenon DEF Finalize
      <3> QED
        BY <3>1 DEF Fees, Inputs, CalculateFee
    <2>3. Fees \in [Op -> Nat] /\ FinalizedOps \in SUBSET Op
      BY FeesType, Zenon DEF SwapInv
    <2>4. SumFunctionOnSet(Fees, FinalizedOps \cup {op})
              = SumFunctionOnSet(Fees, FinalizedOps)
                + SumFunctionOnSet(Fees, {op})
      <3>1. {op} \in SUBSET Op /\ FinalizedOps \cap {op} = {}
        BY <1>2
      <3> QED
        BY <2>3, <3>1, SumUnion, SwapConstants
    <2>5. SumFunctionOnSet(Fees, {op}) = Fees[op]
      BY <2>3, SumSingleton, SwapConstants
    <2>6. Fees[op] = CalculateFee(r.inputs)
      BY <1>1, Zenon DEF Fees, Inputs
    <2> QED
      BY <2>1, <2>2, <2>4, <2>5, <2>6, Zenon
  <1>9. /\ SumFunctionOnSet(ProofAmount, SpentProofs) \in Nat
        /\ SumFunctionOnSet(ProofAmount, r.inputs) \in Nat
        /\ SumFunctionOnSet(OutputAmount, SignedMessages) \in Nat
        /\ SumFunctionOnSet(OutputAmount, r.outputs) \in Nat
        /\ SumFunctionOnSet(Fees, FinalizedOps) \in Nat
        /\ CalculateFee(r.inputs) \in Nat
    <2>1. /\ \A ys \in SUBSET Y : /\ SumFunctionOnSet(ProofAmount, ys) \in Nat
                                  /\ SumFunctionOnSet(ProofFeePpk, ys) \in Nat
          /\ \A bs \in SUBSET B : SumFunctionOnSet(OutputAmount, bs) \in Nat
      BY SumType, SwapConstants, Zenon
    <2>2. \A ops \in SUBSET Op : SumFunctionOnSet(Fees, ops) \in Nat
      BY FeesType, SumType, SwapConstants, Zenon DEF SwapInv
    <2>3. /\ SpentProofs \in SUBSET Y /\ SignedMessages \in SUBSET B
          /\ FinalizedOps \in SUBSET Op
      BY Zenon DEF SpentProofs, SignedMessages, FinalizedOps
    <2>4. CalculateFee(r.inputs) \in Nat
      BY <1>5, <2>1 DEF CalculateFee
    <2> QED
      BY <1>5, <2>1, <2>2, <2>3, <2>4, Zenon
  <1>10. /\ SumFunctionOnSet(ProofAmount, SpentProofs)
                = SumFunctionOnSet(OutputAmount, SignedMessages)
                  + SumFunctionOnSet(Fees, FinalizedOps)
         /\ SumFunctionOnSet(OutputAmount, r.outputs) + CalculateFee(r.inputs)
                = SumFunctionOnSet(ProofAmount, r.inputs)
    BY <1>2, Zenon DEF Conservation, Balanced, SpentProofs, SignedMessages, Fees
  <1>11. SumFunctionOnSet(ProofAmount, SpentProofs')
             = SumFunctionOnSet(OutputAmount, SignedMessages')
               + SumFunctionOnSet(Fees', FinalizedOps')
    BY <1>6, <1>7, <1>8, <1>9, <1>10
  <1> QED
    BY <1>11, Zenon DEF Conservation, SpentProofs, SignedMessages, Fees

(***************************************************************************)
(* Value is conserved: whatever fails, crashes or is compensated, what the *)
(* mint has taken is what it has signed and its fees.                      *)
(***************************************************************************)
THEOREM ValueConserved == Spec => []Conservation
  <1>1. Init => Conservation
    <2> SUFFICES ASSUME Init PROVE Conservation
      BY Zenon
    <2>1. SpentProofs = {} /\ SignedMessages = {} /\ FinalizedOps = {}
      BY DEF Init, SpentProofs, SignedMessages, FinalizedOps, Finalized
    <2>2. SumFunctionOnSet(ProofAmount, SpentProofs)
              = SumFunctionOnSet(OutputAmount, SignedMessages)
                + SumFunctionOnSet(Fees, FinalizedOps)
      BY <2>1, SumEmpty
    <2> QED
      BY <2>2, Zenon DEF Conservation, SpentProofs, SignedMessages, Fees
  <1>2. ASSUME SwapInv, Conservation, [Next]_vars, \A op \in Op : ~Finalize(op)
        PROVE  Conservation'
    <2>1. SpentProofs' = SpentProofs /\ SignedMessages' = SignedMessages
      BY <1>2, OnlyFinalizeSpends, Zenon DEF SpentProofs, SignedMessages
    <2>2. /\ FinalizedOps' = FinalizedOps
          /\ \A op \in FinalizedOps : request'[op] = request[op]
      BY <1>2, OnlyFinalizeFinalizes, Zenon
    <2>3. \A op \in FinalizedOps : Fees'[op] = Fees[op]
      BY <2>2 DEF Fees, Inputs, CalculateFee, FinalizedOps
    <2>4. IsFiniteSet(FinalizedOps)
      BY <1>2, FeesType, Zenon DEF SwapInv
    <2>5. SumFunctionOnSet(Fees', FinalizedOps)
              = SumFunctionOnSet(Fees, FinalizedOps)
      BY <2>3, <2>4, SumSame
    <2>6. SumFunctionOnSet(ProofAmount, SpentProofs')
              = SumFunctionOnSet(OutputAmount, SignedMessages')
                + SumFunctionOnSet(Fees', FinalizedOps')
      BY <1>2, <2>1, <2>2, <2>5, Zenon
         DEF Conservation, SpentProofs, SignedMessages, Fees
    <2> QED
      BY <2>6, Zenon DEF Conservation, SpentProofs, SignedMessages, Fees
  <1>3. SwapInv /\ Conservation /\ [Next]_vars => Conservation'
    BY <1>2, FinalizeConserves, Zenon
  <1> QED
    BY <1>1, <1>3, Invariant, PTL DEF Spec

-----------------------------------------------------------------------------
(* No row is forgotten.                                                    *)

(***************************************************************************)
(* PendingCovered is not inductive: a handler whose compensation ran still *)
(* covers its rows until it has deleted its saga.  What is preserved is    *)
(* that each row has an operation that holds it, or that lost it and whose *)
(* saga is still to be compensated.                                        *)
(***************************************************************************)
Recoverable(op) ==
    \/ pc[op] \in Holding
    \/ op \in sagas /\ pc[op] \in {"failed", "lost", "interrupted"} /\ op # current

RowsRecoverable ==
    /\ \A y \in Y : proofs[y] = "Pending" =>
          \E op \in Op : Recoverable(op) /\ y \in Inputs(op)
    /\ \A b \in B : messages[b] = "Blinded" =>
          \E op \in Op : Recoverable(op) /\ b \in Outputs(op)

SagaPersisted ==
    \A op \in Op : pc[op] \in Holding => op \in sagas

CoverInv == SwapInv /\ SagaPersisted /\ RowsRecoverable

(***************************************************************************)
(* If no new row appears, and each operation that accounted for a row does *)
(* so still or its rows are gone, every row is accounted for.              *)
(***************************************************************************)
LEMMA RowsKept ==
    ASSUME RowsRecoverable, UNCHANGED request,
           \A y \in Y : proofs'[y] = "Pending" => proofs[y] = "Pending",
           \A b \in B : messages'[b] = "Blinded" => messages[b] = "Blinded",
           \A op \in Op : Recoverable(op) =>
               \/ Recoverable(op)'
               \/ /\ \A y \in Inputs(op) : proofs'[y] # "Pending"
                  /\ \A b \in Outputs(op) : messages'[b] # "Blinded"
    PROVE  RowsRecoverable'
  BY Zenon DEF RowsRecoverable, Inputs, Outputs

(***************************************************************************)
(* A successful compensation leaves no row of its operation.               *)
(***************************************************************************)
LEMMA RemoveSwapSetupRows ==
    ASSUME TypeOK, NEW op \in Op, RemoveSwapSetup(op)
    PROVE  /\ \A y \in Y : proofs'[y] = "Pending" => proofs[y] = "Pending"
           /\ \A b \in B : messages'[b] = "Blinded" => messages[b] = "Blinded"
           /\ \A y \in Inputs(op) : proofs'[y] # "Pending"
           /\ \A b \in Outputs(op) : messages'[b] # "Blinded"
  <1>1. Inputs(op) \subseteq Y /\ Outputs(op) \subseteq B
    BY DEF TypeOK, Request, NoRequest, Inputs, Outputs
  <1> QED
    BY <1>1, RemoveSwapSetupLemma, Zenon

(***************************************************************************)
(* Every step preserves the invariant, if the statements of a compensation *)
(* do not fail on their own.                                               *)
(***************************************************************************)
LEMMA CoverNext ==
    ASSUME "compensate" \notin Faults, CoverInv, [Next]_vars
    PROVE  SagaPersisted' /\ RowsRecoverable'
  <1> USE DEF Live, Holding, Finalized
  <1>0. SwapInv /\ TypeOK /\ SagaPersisted /\ RowsRecoverable
    BY Zenon DEF CoverInv, SwapInv
  <1>1. ASSUME NEW op \in Op, NEW r \in Request, SetupSwap(op, r)
        PROVE  SagaPersisted' /\ RowsRecoverable'
    <2>1. /\ pc[op] = "idle" /\ pc'[op] = "setup" /\ request'[op] = r
          /\ \A o \in Op \ {op} : pc'[o] = pc[o] /\ request'[o] = request[o]
          /\ sagas' = sagas \cup {op} /\ UNCHANGED current
      BY <1>0, <1>1, Zenon DEF SetupSwap, AddSaga, TypeOK
    <2>2. /\ \A y \in Y \ r.inputs : proofs'[y] = proofs[y]
          /\ \A b \in B \ r.outputs : messages'[b] = messages[b]
      BY <1>0, <1>1, Zenon DEF SetupSwap, UpdateProofsStates, AddProofs, SetAll,
                        AddBlindedMessages, TypeOK
    <2>3. SagaPersisted'
      BY <1>0, <2>1, Zenon DEF SagaPersisted
    <2>4. /\ Recoverable(op)'
          /\ \A o \in Op : Recoverable(o) => o # op /\ Recoverable(o)'
      BY <2>1, Zenon DEF Recoverable
    <2>5. RowsRecoverable'
      BY <1>0, <2>1, <2>2, <2>4 DEF RowsRecoverable, Inputs, Outputs
    <2> QED
      BY <2>3, <2>5, Zenon
  <1>2. ASSUME NEW op \in Op, NEW r,
               \/ SetupSwapRefused(op, r) \/ SetupSwapCommitFails(op, r)
               \/ SignOutputs(op) \/ SignOutputsFails(op)
               \/ SpendInputs(op) \/ FinalizeRefused(op)
               \/ FinalizeTxFails(op) \/ Respond(op) \/ HangUp(op)
        PROVE  SagaPersisted' /\ RowsRecoverable'
    <2>1. /\ UNCHANGED <<proofs, messages, sagas, request, current>>
          /\ \A o \in Op \ {op} : pc'[o] = pc[o]
          /\ current = NoOp
          /\ pc'[op] \in Holding => pc[op] \in Holding
          /\ pc[op] \in Holding => pc'[op] \in Holding \cup {"failed", "lost", "interrupted"}
          /\ pc[op] \notin {"failed", "lost", "interrupted"}
      BY <1>0, <1>2, Zenon
         DEF SetupSwapRefused, SetupSwapCommitFails, SignOutputs,
             SignOutputsFails, SpendInputs, FinalizeRefused, FinalizeTxFails,
             Respond, HangUp, Dropped, TypeOK, SwapInv, Separated
    <2>2. SagaPersisted'
      BY <1>0, <2>1, Zenon DEF SagaPersisted
    <2>3. \A o \in Op : Recoverable(o) => Recoverable(o)'
      BY <1>0, <2>1, SwapConstants, Zenon DEF Recoverable, SagaPersisted
    <2> QED
      BY <1>0, <2>1, <2>2, <2>3, RowsKept, Zenon
  <1>3. ASSUME NEW op \in Op, Finalize(op)
        PROVE  SagaPersisted' /\ RowsRecoverable'
    <2>1. /\ UNCHANGED <<request, current>>
          /\ pc'[op] = "committed"
          /\ \A o \in Op \ {op} : /\ pc'[o] = pc[o]
                                  /\ o \in sagas' <=> o \in sagas
      BY <1>0, <1>3, Zenon DEF Finalize, DeleteSagaBestEffort, TypeOK
    <2>2. Inputs(op) \subseteq Y /\ Outputs(op) \subseteq B
      BY <1>0 DEF TypeOK, Request, NoRequest, Inputs, Outputs
    <2>3. /\ \A y \in Y : proofs'[y] = IF y \in Inputs(op) THEN "Spent"
                                                           ELSE proofs[y]
          /\ \A b \in B : messages'[b] = IF b \in Outputs(op) THEN "Signed"
                                                              ELSE messages[b]
      BY <1>0, <1>3, Zenon DEF TypeOK, Finalize, UpdateProofsStates,
                        AddBlindSignatures, SetAll
    <2>4. \A o \in Op \ {op} : Recoverable(o) => Recoverable(o)'
      BY <2>1, Zenon DEF Recoverable
    <2>5. RowsRecoverable'
      BY <1>0, <2>1, <2>2, <2>3, <2>4, RowsKept, Zenon
    <2> QED
      BY <1>0, <2>1, <2>5, Zenon DEF SagaPersisted
  <1>4. ASSUME NEW op \in Op, Compensate(op)
        PROVE  SagaPersisted' /\ RowsRecoverable'
    <2>1. /\ UNCHANGED <<request, current, sagas>>
          /\ pc[op] = "compensating" /\ pc'[op] = "cleanup"
          /\ \A o \in Op \ {op} : pc'[o] = pc[o]
      BY <1>0, <1>4, Zenon DEF Compensate, TypeOK
    <2>2. RemoveProofsOk(proofs, Inputs(op))
      BY <1>0, <2>1, Zenon DEF RemoveProofsOk, Deletable, SwapInv, Reserved
    <2>3. RemoveSwapSetup(op)
      BY <1>4, <2>2, Zenon DEF Compensate, RemoveSwapSetupFails, RemoveSwapSetupOk
    <2>4. \A o \in Op \ {op} : Recoverable(o) => Recoverable(o)'
      BY <2>1, SMTT(30) DEF Recoverable
    <2>5. RowsRecoverable'
      BY <1>0, <2>1, <2>3, <2>4, RowsKept, RemoveSwapSetupRows, Zenon
    <2> QED
      BY <1>0, <2>1, <2>5, Zenon DEF SagaPersisted
  <1>5. ASSUME NEW op \in Op, DeleteSaga(op)
        PROVE  SagaPersisted' /\ RowsRecoverable'
    <2>1. /\ UNCHANGED <<proofs, messages, request, current>>
          /\ pc[op] = "cleanup" /\ pc'[op] = "failed"
          /\ \A o \in Op \ {op} : /\ pc'[o] = pc[o]
                                  /\ o \in sagas' <=> o \in sagas
      BY <1>0, <1>5, Zenon DEF DeleteSaga, DeleteSagaBestEffort, TypeOK
    <2>2. \A o \in Op : Recoverable(o) => Recoverable(o)'
      BY <2>1, Zenon DEF Recoverable
    <2> QED
      BY <1>0, <2>1, <2>2, RowsKept, Zenon DEF SagaPersisted
  <1>6. CASE Crash
    <2>1. /\ UNCHANGED <<proofs, messages, request, sagas>>
          /\ current' = NoOp
          /\ \A o \in Op : /\ pc'[o] \notin Holding
                           /\ pc[o] \in Holding => pc'[o] \in {"lost", "interrupted"}
                           /\ pc[o] \in {"failed", "lost", "interrupted"} => pc'[o] = pc[o]
      BY <1>6, Zenon DEF Crash, Dropped
    <2>2. \A o \in Op : Recoverable(o) => Recoverable(o)'
      BY <1>0, <2>1, SwapConstants, Zenon DEF Recoverable, SagaPersisted
    <2> QED
      BY <1>0, <2>1, <2>2, RowsKept, Zenon DEF SagaPersisted
  <1>7. ASSUME NEW op \in Op, RecoverCompensate(op)
        PROVE  SagaPersisted' /\ RowsRecoverable'
    <2>1. UNCHANGED <<request, pc, sagas>> /\ current = NoOp
      BY <1>7, Zenon DEF RecoverCompensate
    <2>2. CASE RemoveSwapSetupFails(op) /\ UNCHANGED current
      <3>1. \A o \in Op : Recoverable(o) => Recoverable(o)'
        BY <2>1, <2>2, Zenon DEF Recoverable
      <3> QED
        BY <1>0, <2>1, <2>2, <3>1, RowsKept, Zenon DEF SagaPersisted,
                                                RemoveSwapSetupFails
    <2>3. CASE RemoveSwapSetup(op) /\ current' = op
      <3>1. \A o \in Op \ {op} : Recoverable(o) => Recoverable(o)'
        BY <2>1, <2>3, Zenon DEF Recoverable
      <3>2. RowsRecoverable'
        BY <1>0, <2>1, <2>3, <3>1, RowsKept, RemoveSwapSetupRows, Zenon
      <3> QED
        BY <1>0, <2>1, <3>2, Zenon DEF SagaPersisted
    <2> QED
      BY <1>7, <2>2, <2>3, Zenon DEF RecoverCompensate
  <1>8. ASSUME Restart \/ RecoverDelete \/ RecoverTxFails \/ RecoveryDone
        PROVE  SagaPersisted' /\ RowsRecoverable'
    <2>1. /\ UNCHANGED <<proofs, messages, request, pc>>
          /\ current' \in {current, NoOp}
          /\ \A o \in Op : o # current => (o \in sagas' <=> o \in sagas)
          /\ \A o \in Op : pc[o] \notin Holding
      BY <1>0, <1>8, Zenon DEF Restart, RecoverDelete, RecoverTxFails, RecoveryDone,
                        DeleteSagaBestEffort, SwapInv, Separated
    <2>2. \A o \in Op : Recoverable(o) => Recoverable(o)'
      BY <2>1, SwapConstants, Zenon DEF Recoverable
    <2> QED
      BY <1>0, <2>1, <2>2, RowsKept, Zenon DEF SagaPersisted
  <1>9. CASE UNCHANGED vars
    BY <1>0, <1>9, Zenon DEF vars, SagaPersisted, RowsRecoverable, Recoverable, Inputs,
                      Outputs
  <1> QED
    <2>1. ASSUME NEW op \in Op, Receive(op)
          PROVE  SagaPersisted' /\ RowsRecoverable'
      BY <1>1, <1>2, <2>1, Zenon DEF Receive
    <2>2. ASSUME NEW op \in Op, Handle(op) \/ HangUp(op)
          PROVE  SagaPersisted' /\ RowsRecoverable'
      BY <1>2, <1>3, <1>4, <1>5, <2>2, Zenon DEF Handle
    <2> QED
      BY <1>6, <1>7, <1>8, <1>9, <2>1, <2>2, Zenon DEF Next, Recover

(***************************************************************************)
(* Unless the statements of a compensation fail, no pending proof and no   *)
(* unsigned message is ever without a handler or a saga that answers for   *)
(* it, whatever crashes, hang-ups and failures of other statements happen. *)
(***************************************************************************)
THEOREM NothingForgotten ==
    ASSUME "compensate" \notin Faults
    PROVE  Spec => []PendingCovered
  <1>1. Init => CoverInv
    BY InitInv, Zenon DEF CoverInv, Init, SagaPersisted, RowsRecoverable, Holding
  <1>2. CoverInv /\ [Next]_vars => CoverInv'
    BY NextInv, CoverNext, Zenon DEF CoverInv
  <1>3. CoverInv => PendingCovered
    BY Zenon DEF CoverInv, RowsRecoverable, PendingCovered, Recoverable, Covered,
           Holding, Live
  <1> QED
    BY <1>1, <1>2, <1>3, PTL DEF Spec

-----------------------------------------------------------------------------
(* A swap that failed leaves nothing behind.                               *)

\* An operation without a reservation of its own has no row in saga_state.
NoSagaLeft ==
    \A op \in Op : pc[op] \in {"idle", "failed"} => op \notin sagas

(***************************************************************************)
(* If the transactions of TX2 and the deletions of sagas do not fail, a    *)
(* handler that returns an error has deleted its saga: compensate_all      *)
(* does so before the error reaches the client.                            *)
(***************************************************************************)
LEMMA NoSagaLeftNext ==
    ASSUME "finalize_tx" \notin Faults, "delete_saga" \notin Faults,
           TypeOK, NoSagaLeft, [Next]_vars
    PROVE  NoSagaLeft'
  <1>1. ASSUME NEW op \in Op, NEW r \in Request, SetupSwap(op, r)
        PROVE  NoSagaLeft'
    BY <1>1, Zenon DEF SetupSwap, AddSaga, TypeOK, NoSagaLeft
  <1>2. ASSUME NEW op \in Op, NEW r,
               SetupSwapRefused(op, r) \/ SetupSwapCommitFails(op, r)
        PROVE  NoSagaLeft'
    BY <1>2, Zenon DEF SetupSwapRefused, SetupSwapCommitFails, TypeOK, NoSagaLeft
  <1>3. ASSUME NEW op \in Op,
               \/ SignOutputs(op) \/ SignOutputsFails(op) \/ SpendInputs(op)
               \/ FinalizeRefused(op) \/ Respond(op) \/ Compensate(op)
        PROVE  NoSagaLeft'
    BY <1>3, Zenon DEF SignOutputs, SignOutputsFails, SpendInputs,
                       FinalizeRefused, Respond, Compensate, TypeOK, NoSagaLeft
  <1>4. ASSUME NEW op \in Op, Finalize(op) \/ DeleteSaga(op)
        PROVE  NoSagaLeft'
    BY <1>4, Zenon DEF Finalize, DeleteSaga, DeleteSagaBestEffort, TypeOK,
                       NoSagaLeft
  <1>5. ASSUME NEW op \in Op, FinalizeTxFails(op)
        PROVE  NoSagaLeft'
    BY <1>5, Zenon DEF FinalizeTxFails
  <1>6. ASSUME NEW op \in Op, HangUp(op)
        PROVE  NoSagaLeft'
    BY <1>6, Zenon DEF HangUp, Dropped, Live, TypeOK, NoSagaLeft
  <1>7. CASE Crash
    BY <1>7, Zenon DEF Crash, Dropped, Live, TypeOK, NoSagaLeft
  <1>8. ASSUME Recover PROVE NoSagaLeft'
    <2>1. UNCHANGED pc /\ sagas' \subseteq sagas
      BY <1>8, Zenon DEF Recover, Restart, RecoverCompensate, RecoverDelete,
                         RecoverTxFails, RecoveryDone, DeleteSagaBestEffort
    <2> QED
      BY <2>1, Zenon DEF NoSagaLeft
  <1>9. CASE UNCHANGED vars
    BY <1>9, Zenon DEF vars, NoSagaLeft
  <1> QED
    BY <1>1, <1>2, <1>3, <1>4, <1>5, <1>6, <1>7, <1>8, <1>9, Zenon
       DEF Next, Receive, Handle

(***************************************************************************)
(* A swap whose client got an error left nothing behind, whatever crashes, *)
(* hang-ups and failures of TX1, of the signatory and of the statements of *)
(* TX2 happen: every row of its request that still exists belongs to       *)
(* another swap.  The three faults excluded are the ones after which       *)
(* compensate_all does not run, or does not do what it is for.             *)
(***************************************************************************)
THEOREM FailureLeavesNothing ==
    ASSUME "compensate" \notin Faults, "finalize_tx" \notin Faults,
           "delete_saga" \notin Faults
    PROVE  Spec => []FailedRestored
  <1> DEFINE FailInv == CoverInv /\ NoSagaLeft
  <1>1. Init => FailInv
    <2>1. Init => CoverInv
      BY InitInv, Zenon DEF CoverInv, Init, SagaPersisted, RowsRecoverable, Holding
    <2> QED
      BY <2>1, Zenon DEF Init, NoSagaLeft
  <1>2. FailInv /\ [Next]_vars => FailInv'
    BY NextInv, CoverNext, NoSagaLeftNext, Zenon DEF CoverInv, SwapInv
  <1>3. FailInv => FailedRestored
    <2> SUFFICES ASSUME FailInv, NEW op \in Op, pc[op] = "failed"
                 PROVE  /\ \A y \in Inputs(op) :
                              \/ proofs[y] = "None"
                              \/ \E other \in Op \ {op} :
                                    /\ y \in Inputs(other)
                                    /\ Covered(other) \/ pc[other] \in Finalized
                        /\ \A b \in Outputs(op) :
                              \/ messages[b] = "None"
                              \/ \E other \in Op \ {op} :
                                    /\ b \in Outputs(other)
                                    /\ Covered(other) \/ pc[other] \in Finalized
      BY Zenon DEF FailedRestored
    <2>1. /\ \A y \in Y : proofs[y] \in {"None", "Pending", "Spent"}
          /\ \A b \in B : messages[b] \in {"None", "Blinded", "Signed"}
          /\ Inputs(op) \subseteq Y /\ Outputs(op) \subseteq B
      BY DEF CoverInv, SwapInv, TypeOK, MessageState, Request, NoRequest, Inputs,
             Outputs
    <2>2. /\ \A y \in Y : proofs[y] = "Pending" =>
                \E other \in Op : Covered(other) /\ y \in Inputs(other)
          /\ \A b \in B : messages[b] = "Blinded" =>
                \E other \in Op : Covered(other) /\ b \in Outputs(other)
      BY Zenon DEF CoverInv, RowsRecoverable, Recoverable, Covered, Holding, Live
    <2>3. /\ \A y \in Y : proofs[y] = "Spent" =>
                \E other \in Op : pc[other] \in Finalized /\ y \in Inputs(other)
          /\ \A b \in B : messages[b] = "Signed" =>
                \E other \in Op : pc[other] \in Finalized /\ b \in Outputs(other)
      BY Zenon DEF CoverInv, SwapInv, SpentOnce, FinalizedOps
    <2>4. ~Covered(op) /\ pc[op] \notin Finalized
      BY Zenon DEF NoSagaLeft, Covered, Live, Finalized
    <2> QED
      BY <2>1, <2>2, <2>3, <2>4, Zenon
  <1> QED
    BY <1>1, <1>2, <1>3, PTL DEF Spec

-----------------------------------------------------------------------------
(* Recovery is complete.                                                   *)

(***************************************************************************)
(* The rows that a later recovery has to remove for op are all there, and  *)
(* are those of no other operation: no compensation of one takes a row     *)
(* away under another, whose own compensation would then fail.  While the  *)
(* mint recovers, op waits in the queue.                                   *)
(***************************************************************************)
Owns(op) ==
    /\ \A y \in Inputs(op) : proofs[y] = "Pending"
    /\ \A b \in Outputs(op) : messages[b] = "Blinded"
    /\ \A other \in Op \ {op} : Recoverable(other) =>
          /\ Inputs(op) \cap Inputs(other) = {}
          /\ Outputs(op) \cap Outputs(other) = {}
    /\ mint = "recovering" => op \in queue

SagasOwn ==
    /\ \A op \in sagas : pc[op] \in Holding \cup {"cleanup", "failed", "lost", "interrupted"}
    /\ \A op \in Op : Recoverable(op) => Owns(op)

(***************************************************************************)
(* A step after which fewer operations are to be recovered, and the rows   *)
(* of those that remain are as before.                                     *)
(***************************************************************************)
LEMMA OwnedKept ==
    ASSUME SagasOwn, UNCHANGED request,
           \A op \in sagas' : pc'[op] \in Holding \cup {"cleanup", "failed", "lost", "interrupted"},
           \A op \in Op : Recoverable(op)' =>
               /\ Recoverable(op)
               /\ \A y \in Inputs(op) : proofs'[y] = proofs[y]
               /\ \A b \in Outputs(op) : messages'[b] = messages[b]
               /\ mint' = "recovering" => op \in queue'
    PROVE  SagasOwn'
  <1>1. ASSUME NEW op \in Op, Recoverable(op)' PROVE Owns(op)'
    <2>1. Owns(op) /\ Inputs(op)' = Inputs(op) /\ Outputs(op)' = Outputs(op)
      BY <1>1, Zenon DEF SagasOwn, Inputs, Outputs
    <2>2. \A other \in Op \ {op} : Recoverable(other)' =>
              /\ Inputs(op)' \cap Inputs(other)' = {}
              /\ Outputs(op)' \cap Outputs(other)' = {}
      BY <2>1, Zenon DEF Owns, Inputs, Outputs
    <2>3. /\ \A y \in Inputs(op)' : proofs'[y] = "Pending"
          /\ \A b \in Outputs(op)' : messages'[b] = "Blinded"
          /\ mint' = "recovering" => op \in queue'
      BY <1>1, <2>1 DEF Owns
    <2> QED
      BY <2>2, <2>3, Zenon DEF Owns
  <1> QED
    BY <1>1, Zenon DEF SagasOwn

(***************************************************************************)
(* Every step keeps it, if compensations and the deletion of sagas do not  *)
(* fail and are not cut off from each other.                               *)
(***************************************************************************)
LEMMA OwnsNext ==
    ASSUME "compensate" \notin Faults, "delete_saga" \notin Faults,
           "stale_saga" \notin Faults, "recovery_tx" \notin Faults,
           CoverInv, SagasOwn, [Next]_vars
    PROVE  SagasOwn'
  <1> USE DEF Live, Holding, Finalized
  <1>0. /\ SwapInv /\ TypeOK /\ Separated /\ SagaPersisted
        /\ \A op \in sagas : op \in Op /\ pc[op] \in Holding \cup {"cleanup", "failed", "lost", "interrupted"}
        /\ \A op \in Op : Recoverable(op) => Owns(op)
        /\ \A op \in Op : Inputs(op) \subseteq Y /\ Outputs(op) \subseteq B
    <2>1. \A op \in Op : Inputs(op) \subseteq Y /\ Outputs(op) \subseteq B
      BY DEF CoverInv, SwapInv, TypeOK, Request, NoRequest, Inputs, Outputs
    <2> QED
      BY <2>1, Zenon DEF CoverInv, SwapInv, TypeOK, SagasOwn
  <1>1. ASSUME NEW op \in Op, NEW r \in Request, SetupSwap(op, r)
        PROVE  SagasOwn'
    <2>1. /\ pc[op] = "idle" /\ pc'[op] = "setup" /\ request'[op] = r
          /\ \A o \in Op \ {op} : pc'[o] = pc[o] /\ request'[o] = request[o]
          /\ sagas' = sagas \cup {op} /\ UNCHANGED current
          /\ mint' = "running"
      BY <1>0, <1>1, Zenon DEF SetupSwap, AddSaga, TypeOK
    <2>2. /\ \A y \in r.inputs : proofs[y] = "None"
          /\ \A b \in r.outputs : messages[b] = "None"
      BY <1>1, Zenon DEF SetupSwap, SetupOk, AddProofsOk, AddBlindedMessagesOk
    <2>3. /\ r.inputs \subseteq Y /\ r.outputs \subseteq B
          /\ \A y \in Y : proofs'[y] = IF y \in r.inputs THEN "Pending" ELSE proofs[y]
          /\ \A b \in B : messages'[b] = IF b \in r.outputs THEN "Blinded" ELSE messages[b]
      BY <1>0, <1>1, ZenonT(30) DEF SetupSwap, UpdateProofsStates, AddProofs, SetAll,
                        AddBlindedMessages, TypeOK, Request
    <2>4. /\ \A o \in Op \ {op} : Recoverable(o)' => Recoverable(o)
          /\ Inputs(op)' = r.inputs /\ Outputs(op)' = r.outputs
          /\ \A o \in Op \ {op} : Inputs(o)' = Inputs(o) /\ Outputs(o)' = Outputs(o)
      BY <2>1, Zenon DEF Recoverable, Inputs, Outputs
    <2>5. ASSUME NEW o \in Op \ {op}, Recoverable(o)
          PROVE  /\ Inputs(o) \cap r.inputs = {} /\ Outputs(o) \cap r.outputs = {}
                 /\ \A y \in Inputs(o) : proofs'[y] = "Pending"
                 /\ \A b \in Outputs(o) : messages'[b] = "Blinded"
      <3>1. /\ \A y \in Inputs(o) : proofs[y] = "Pending"
            /\ \A b \in Outputs(o) : messages[b] = "Blinded"
        BY <1>0, <2>5, Zenon DEF Owns
      <3>2. /\ Inputs(o) \cap r.inputs = {} /\ Outputs(o) \cap r.outputs = {}
        BY <2>2, <3>1, SMTT(30)
      <3> QED
        BY <1>0, <2>3, <3>1, <3>2, Zenon
    <2>6. Owns(op)'
      BY <2>1, <2>3, <2>4, <2>5, SMTT(30) DEF Owns
    <2>7. ASSUME NEW o \in Op \ {op}, Recoverable(o)' PROVE Owns(o)'
      <3>1. Recoverable(o) /\ Owns(o)
        BY <1>0, <2>4, <2>7, Zenon
      <3>2. \A other \in Op \ {o} : Recoverable(other)' =>
                /\ Inputs(o)' \cap Inputs(other)' = {}
                /\ Outputs(o)' \cap Outputs(other)' = {}
        BY <2>4, <2>5, <3>1, Zenon DEF Owns
      <3> QED
        BY <2>1, <2>4, <2>5, <3>1, <3>2 DEF Owns
    <2>8. \A o \in sagas' : pc'[o] \in Holding \cup {"cleanup", "failed", "lost", "interrupted"}
      BY <1>0, <2>1, SMTT(30)
    <2> QED
      BY <2>6, <2>7, <2>8, Zenon DEF SagasOwn
  <1>2. ASSUME NEW op \in Op, NEW r,
               \/ SetupSwapRefused(op, r) \/ SetupSwapCommitFails(op, r)
               \/ SignOutputs(op) \/ SignOutputsFails(op)
               \/ SpendInputs(op) \/ FinalizeRefused(op)
               \/ FinalizeTxFails(op) \/ Respond(op) \/ HangUp(op)
        PROVE  SagasOwn'
    <2>1. /\ UNCHANGED <<proofs, messages, sagas, request, current>>
          /\ mint' = "running" /\ current = NoOp
          /\ \A o \in Op \ {op} : pc'[o] = pc[o]
          /\ \/ pc[op] \in Holding /\ pc'[op] \in Holding \cup {"failed", "lost", "interrupted"}
             \/ pc[op] \in {"idle", "committed"}
      BY <1>0, <1>2, Zenon
         DEF SetupSwapRefused, SetupSwapCommitFails, SignOutputs,
             SignOutputsFails, SpendInputs, FinalizeRefused, FinalizeTxFails,
             Respond, HangUp, Dropped, TypeOK, Separated
    <2>2. pc[op] \in {"idle", "committed"} => op \notin sagas
      BY <1>0
    <2>3. pc'[op] \in Holding => pc[op] \in Holding
      BY <1>0, <1>2, Zenon
         DEF SetupSwapRefused, SetupSwapCommitFails, SignOutputs,
             SignOutputsFails, SpendInputs, FinalizeRefused, FinalizeTxFails,
             Respond, HangUp, Dropped, TypeOK
    <2>4. \A o \in Op : Recoverable(o)' => Recoverable(o)
      BY <2>1, <2>2, <2>3, Zenon DEF Recoverable
    <2>5. \A o \in sagas' : pc'[o] \in Holding \cup {"cleanup", "failed", "lost", "interrupted"}
      BY <1>0, <2>1, <2>2, SMTT(30)
    <2> QED
      BY <2>1, <2>4, <2>5, OwnedKept
  <1>3. ASSUME NEW op \in Op, Finalize(op) PROVE SagasOwn'
    <2>1. /\ UNCHANGED <<request, current>> /\ sagas' = sagas \ {op}
          /\ pc[op] = "finalizing" /\ pc'[op] = "committed" /\ mint' = "running"
          /\ \A o \in Op \ {op} : pc'[o] = pc[o]
      BY <1>0, <1>3, Zenon DEF Finalize, DeleteSagaBestEffort, TypeOK
    <2>2. /\ \A y \in Y : proofs'[y] = IF y \in Inputs(op) THEN "Spent" ELSE proofs[y]
          /\ \A b \in B : messages'[b] = IF b \in Outputs(op) THEN "Signed" ELSE messages[b]
      BY <1>0, <1>3, Zenon DEF TypeOK, Finalize, UpdateProofsStates,
                        AddBlindSignatures, SetAll
    <2>3. \A o \in Op : Recoverable(o)' => o # op /\ Recoverable(o)
      BY <2>1, Zenon DEF Recoverable
    <2>4. Recoverable(op) /\ Owns(op)
      BY <1>0, <2>1, Zenon DEF Recoverable
    <2>5. \A o \in Op \ {op} : Recoverable(o) =>
              /\ \A y \in Inputs(o) : proofs'[y] = proofs[y]
              /\ \A b \in Outputs(o) : messages'[b] = messages[b]
      BY <1>0, <2>2, <2>4, Zenon DEF Owns
    <2>6. \A o \in sagas' : pc'[o] \in Holding \cup {"cleanup", "failed", "lost", "interrupted"}
      BY <1>0, <2>1
    <2> QED
      BY <2>1, <2>3, <2>5, <2>6, OwnedKept
  <1>4. ASSUME NEW op \in Op, Recoverable(op), RemoveSwapSetup(op)
        PROVE  \A o \in Op \ {op} : Recoverable(o) =>
                   /\ \A y \in Inputs(o) : proofs'[y] = proofs[y]
                   /\ \A b \in Outputs(o) : messages'[b] = messages[b]
    <2>1. /\ \A y \in Y : proofs'[y] = IF y \in Inputs(op) THEN "None" ELSE proofs[y]
          /\ \A b \in B : messages'[b] = IF b \in Outputs(op) /\ messages[b] = "Blinded"
                                         THEN "None" ELSE messages[b]
      BY <1>0, <1>4, RemoveSwapSetupLemma, Zenon
    <2> QED
      BY <1>0, <1>4, <2>1, Zenon DEF Owns
  <1>5. ASSUME NEW op \in Op, Recoverable(op) PROVE RemoveSwapSetupOk(op)
    BY <1>0, <1>5, Zenon DEF Owns, RemoveSwapSetupOk, RemoveProofsOk, Deletable
  <1>6. ASSUME NEW op \in Op, Compensate(op) PROVE SagasOwn'
    <2>1. /\ UNCHANGED <<request, current, sagas>> /\ mint' = "running"
          /\ pc[op] = "compensating" /\ pc'[op] = "cleanup"
          /\ \A o \in Op \ {op} : pc'[o] = pc[o]
      BY <1>0, <1>6, Zenon DEF Compensate, TypeOK
    <2>2. Recoverable(op)
      BY <2>1, Zenon DEF Recoverable
    <2>3. RemoveSwapSetup(op)
      BY <1>5, <1>6, <2>2, Zenon DEF Compensate, RemoveSwapSetupFails
    <2>4. \A o \in Op : Recoverable(o)' => o # op /\ Recoverable(o)
      BY <2>1 DEF Recoverable
    <2>5. \A o \in sagas' : pc'[o] \in Holding \cup {"cleanup", "failed", "lost", "interrupted"}
      BY <1>0, <2>1, SMTT(30)
    <2> QED
      BY <1>4, <2>1, <2>2, <2>3, <2>4, <2>5, OwnedKept
  <1>7. ASSUME NEW op \in Op, DeleteSaga(op) PROVE SagasOwn'
    <2>1. /\ UNCHANGED <<proofs, messages, request, current>> /\ mint' = "running"
          /\ sagas' = sagas \ {op} /\ pc'[op] = "failed"
          /\ \A o \in Op \ {op} : pc'[o] = pc[o]
      BY <1>0, <1>7, Zenon DEF DeleteSaga, DeleteSagaBestEffort, TypeOK
    <2>2. \A o \in Op : Recoverable(o)' => Recoverable(o)
      BY <2>1 DEF Recoverable
    <2>3. \A o \in sagas' : pc'[o] \in Holding \cup {"cleanup", "failed", "lost", "interrupted"}
      BY <1>0, <2>1, SMTT(30)
    <2> QED
      BY <2>1, <2>2, <2>3, OwnedKept
  <1>8. CASE Crash
    <2>1. /\ UNCHANGED <<proofs, messages, request, sagas>>
          /\ current = NoOp /\ mint' = "down"
          /\ \A o \in Op : /\ pc[o] # "cleanup"
                           /\ pc[o] \in Holding => pc'[o] \in {"lost", "interrupted"}
                           /\ pc[o] \in {"failed", "lost", "interrupted"} => pc'[o] = pc[o]
                           /\ pc'[o] \notin Holding
      BY <1>8, Zenon DEF Crash, Dropped
    <2>2. \A o \in sagas' : pc'[o] \in Holding \cup {"cleanup", "failed", "lost", "interrupted"}
      BY <1>0, <2>1, SMTT(30)
    <2>3. \A o \in Op : Recoverable(o)' => Recoverable(o)
      BY <1>0, <2>1, SwapConstants DEF Recoverable
    <2> QED
      BY <2>1, <2>2, <2>3, OwnedKept
  <1>9. CASE Restart
    <2>1. /\ UNCHANGED <<proofs, messages, request, sagas, pc, current>>
          /\ queue' = sagas /\ mint = "down"
      BY <1>9, Zenon DEF Restart
    <2>2. \A o \in Op : Recoverable(o)' => Recoverable(o) /\ o \in queue'
      BY <1>0, <2>1, ZenonT(30) DEF Recoverable, SagaPersisted
    <2> QED
      BY <1>0, <2>1, <2>2, OwnedKept, Zenon
  <1>10. ASSUME NEW op \in Op, RecoverCompensate(op) PROVE SagasOwn'
    <2>1. /\ UNCHANGED <<request, pc, sagas, mint>> /\ mint = "recovering"
          /\ current = NoOp /\ op \in queue
          /\ \/ RemoveSwapSetup(op) /\ current' = op /\ UNCHANGED queue
             \/ RemoveSwapSetupFails(op)
      BY <1>10, Zenon DEF RecoverCompensate
    <2>2. op \in sagas /\ pc[op] \in {"failed", "lost", "interrupted"}
      BY <1>0, <2>1 DEF TypeOK, Separated
    <2>3. Recoverable(op)
      BY <2>1, <2>2, SwapConstants, Zenon DEF Recoverable
    <2>4. RemoveSwapSetup(op) /\ current' = op /\ UNCHANGED queue
      BY <1>5, <2>1, <2>3, Zenon DEF RemoveSwapSetupFails
    <2>5. \A o \in Op : Recoverable(o)' => o # op /\ Recoverable(o)
      BY <2>1, <2>2, <2>4, SwapConstants DEF Recoverable
    <2>6. \A o \in Op : Recoverable(o) => o \in queue'
      BY <1>0, <2>1, <2>4, Zenon DEF Owns
    <2> QED
      BY <1>0, <1>4, <2>1, <2>3, <2>4, <2>5, <2>6, OwnedKept, SMTT(30)
  <1>11. CASE RecoverDelete
    <2>1. /\ UNCHANGED <<proofs, messages, request, pc, mint>> /\ mint = "recovering"
          /\ current' = NoOp /\ queue' = queue \ {current} /\ sagas' = sagas \ {current}
      BY <1>11, Zenon DEF RecoverDelete, DeleteSagaBestEffort
    <2>2. \A o \in Op : Recoverable(o)' => Recoverable(o) /\ o # current
      BY <1>0, <2>1, Zenon DEF Recoverable, SagaPersisted, Separated
    <2>3. \A o \in Op : Recoverable(o)' => o \in queue'
      BY <1>0, <2>1, <2>2, Zenon DEF Owns
    <2> QED
      BY <1>0, <2>1, <2>2, <2>3, OwnedKept, Zenon
  <1>12. CASE RecoverTxFails
    BY <1>12, Zenon DEF RecoverTxFails
  <1>13. CASE RecoveryDone
    <2>1. UNCHANGED <<proofs, messages, request, sagas, pc, current>> /\ mint' = "running"
      BY <1>13, Zenon DEF RecoveryDone
    <2>2. \A o \in Op : Recoverable(o)' => Recoverable(o)
      BY <2>1, Zenon DEF Recoverable
    <2> QED
      BY <1>0, <2>1, <2>2, OwnedKept
  <1>14. CASE UNCHANGED vars
    <2>1. UNCHANGED <<proofs, messages, request, sagas, pc, mint, queue, current>>
      BY <1>14, Zenon DEF vars
    <2>2. \A o \in Op : Recoverable(o)' => Recoverable(o) /\ Owns(o)
      BY <1>0, <2>1, Zenon DEF Recoverable
    <2>3. \A o \in Op : Recoverable(o)' => (mint' = "recovering" => o \in queue')
      BY <2>1, <2>2, Zenon DEF Owns
    <2> QED
      BY <1>0, <2>1, <2>2, <2>3, OwnedKept
  <1> QED
    <2>1. ASSUME NEW op \in Op, Receive(op) \/ Handle(op) \/ HangUp(op) PROVE SagasOwn'
      BY <1>1, <1>2, <1>3, <1>6, <1>7, <2>1, Zenon DEF Receive, Handle
    <2> QED
      BY <1>8, <1>9, <1>10, <1>11, <1>12, <1>13, <1>14, <2>1, Zenon DEF Next, Recover

(***************************************************************************)
(* When recover_from_incomplete_sagas returns and the mint starts to       *)
(* serve, no row is left of a swap that crashed, hung up or failed: if the *)
(* compensation of a saga and its deletion do not fail and no crash comes  *)
(* between them.  The faults excluded are those that leave a saga without  *)
(* rows, whose compensation may later remove rows of another swap.         *)
(***************************************************************************)
THEOREM RecoveryClearsAll ==
    ASSUME "compensate" \notin Faults, "delete_saga" \notin Faults,
           "stale_saga" \notin Faults, "recovery_tx" \notin Faults
    PROVE  Spec => RecoveryComplete
  <1> DEFINE OwnInv == CoverInv /\ SagasOwn
             Served == mint = "recovering" /\ mint' = "running" =>
                          /\ \A y \in Y : proofs[y] # "Pending"
                          /\ \A b \in B : messages[b] # "Blinded"
  <1>1. Init => OwnInv
    <2>1. Init => CoverInv
      BY InitInv, Zenon DEF CoverInv, Init, SagaPersisted, RowsRecoverable, Holding
    <2>2. Init => SagasOwn
      BY Zenon DEF Init, SagasOwn, Recoverable, Holding
    <2> QED
      BY <2>1, <2>2, Zenon
  <1>2. OwnInv /\ [Next]_vars => OwnInv'
    BY NextInv, CoverNext, OwnsNext, Zenon DEF CoverInv
  <1>3. OwnInv /\ [Next]_vars => [Served]_vars
    <2> SUFFICES ASSUME OwnInv, [Next]_vars, mint = "recovering", mint' = "running"
                 PROVE  /\ \A y \in Y : proofs[y] # "Pending"
                        /\ \A b \in B : messages[b] # "Blinded"
      BY Zenon
    <2>1. RecoveryDone
      BY ZenonT(30) DEF Next, Receive, Handle, Recover, SetupSwap, SetupSwapRefused,
           SetupSwapCommitFails, SignOutputs, SignOutputsFails, SpendInputs, Finalize, FinalizeRefused,
           FinalizeTxFails, Respond, Compensate, DeleteSaga, HangUp, Crash, Restart,
           RecoverCompensate, RecoverDelete, RecoverTxFails, vars
    <2>2. \A op \in Op : ~Recoverable(op)
      BY <2>1, Zenon DEF RecoveryDone, SagasOwn, Owns
    <2> QED
      BY <2>2, Zenon DEF CoverInv, RowsRecoverable
  <1> QED
    BY <1>1, <1>2, <1>3, PTL DEF Spec, RecoveryComplete

=============================================================================
