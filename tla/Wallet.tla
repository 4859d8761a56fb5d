------------------------------- MODULE Wallet -------------------------------
(***************************************************************************)
(* The wallet's store and the operations that change it: sending,          *)
(* receiving, melting, minting, reclaiming, checking pending proofs and    *)
(* restoring from the seed (crates/cdk/src/wallet/, on the store of        *)
(* crates/cdk-sql-common/src/wallet/mod.rs).  A Wallet is cloned freely,   *)
(* so operations run as concurrent tasks that interleave at every call to  *)
(* the store or to the mint, and a task may be dropped at any of them.     *)
(*                                                                         *)
(* store    the proof table: the state of each row, "none" without a row   *)
(* counter  the keyset's counter: secrets 1..counter have been derived     *)
(* mint     the mint's view of a proof: "unsigned", then NUT-07's states   *)
(* paying   melts whose Lightning payment is under way at the mint         *)
(* task     what each task is doing: the proofs it will put in a token     *)
(*          (send), the inputs (ins) and outputs (outs) of its request     *)
(*                                                                         *)
(* given, shared, lost, restored and signed are history that only          *)
(* the properties read: how often a proof was put in a token or a melt,    *)
(* which proofs two tasks had in hand at once, whether the store was lost, *)
(* whether a restore has run, and what the mint had signed when it began.  *)
(*                                                                         *)
(* Values and fees are left out: which proofs an amount selects is open, a *)
(* swap has as many outputs as inputs, and the exchange before a melt      *)
(* splits one proof in two.                                                *)
(* The mint is external: it executes a request or refuses it, and the      *)
(* wallet may see an error in either case (a lost answer, a retry that     *)
(* meets an expired response cache).  Quotes and the transaction log are   *)
(* left out, and so are outputs with spending conditions, whose secrets    *)
(* are random and not restorable.                                          *)
(***************************************************************************)
EXTENDS Naturals, FiniteSets

CONSTANTS
    Task,
    Foreign,        \* proofs of tokens that others send to the wallet
    Initial,        \* the wallet starts with proofs 1..Initial
    MaxIndex,       \* bound: secrets derived from the seed
    MaxOps,         \* bound: operations that are started
    Batch           \* secrets per request of a restore (100 in the code)

VARIABLES store, counter, mint, paying, task, started, given, shared, lost, restored, signed

history == <<given, shared, lost, restored, signed>>

vars == <<store, counter, mint, paying, task, started, given, shared, lost, restored, signed>>

Index == 1..MaxIndex

Proof == Index \cup Foreign

ASSUME WalletConstants ==
    /\ IsFiniteSet(Foreign) /\ Foreign \cap Index = {}
    /\ MaxIndex \in Nat /\ Initial \in 0..MaxIndex
    /\ MaxOps \in Nat
    /\ Batch \in Nat \ {0}

Idle == [op |-> "none", pc |-> "idle", send |-> {}, ins |-> {}, outs |-> {}, from |-> 0, empty |-> 0]

Init ==
    /\ store = [p \in Proof |-> IF p \in 1..Initial THEN "Unspent" ELSE "none"]
    /\ counter = Initial
    /\ mint = [p \in Proof |-> IF p \in 1..Initial \cup Foreign THEN "Unspent" ELSE "unsigned"]
    /\ paying = {}
    /\ task = [t \in Task |-> Idle]
    /\ started = 0
    /\ given = [p \in Proof |-> 0]
    /\ shared = {}
    /\ lost = FALSE
    /\ restored = FALSE
    /\ signed = {}

-----------------------------------------------------------------------------
(* The store.                                                              *)

Rows(states) == {p \in Proof : store[p] \in states}

\* UPDATE ... WHERE y IN: a row that is gone stays gone, and whatever state a
\* row has is overwritten.
UpdateProofsState(ys, state) ==
    [p \in Proof |-> IF p \in ys /\ store[p] # "none" THEN state ELSE store[p]]

\* One transaction: insert or overwrite the added rows, delete the removed ones.
UpdateProofs(reserved, unspent, removed) ==
    [p \in Proof |-> CASE p \in removed -> "none"
                       [] p \in reserved \ removed -> "Reserved"
                       [] p \in unspent \ (removed \cup reserved) -> "Unspent"
                       [] OTHER -> store[p]]

\* Mutant: the range starts one secret too low.
DerivedStale(n) == counter..(counter + n - 1)

\* The secrets that increment_keyset_counter(n) sets aside.
Derived(n) == (counter + 1)..(counter + n)

Go(t, pc) == task' = [task EXCEPT ![t].pc = pc]

End(t) == task' = [task EXCEPT ![t] = Idle]

Hands(t) == task[t].send \cup task[t].ins

\* Task t begins an operation.
Start(t, new) ==
    /\ task[t].pc = "idle"
    /\ started < MaxOps
    /\ started' = started + 1
    /\ task' = [task EXCEPT ![t] = new]

\* Task t reads the store and takes the proofs S in hand.
Take(t, op, send, ins) ==
    /\ send \cup ins # {}
    /\ Start(t, [Idle EXCEPT !.op = op, !.pc = "selected", !.send = send, !.ins = ins])
    /\ shared' = shared \cup {p \in send \cup ins : \E u \in Task \ {t} : p \in Hands(u)}

\* create_swap: the inputs are reserved and n outputs derived.
CreateSwap(t, op, send, ins, n) ==
    /\ counter + n <= MaxIndex
    /\ store' = UpdateProofsState(ins, "Reserved")
    /\ counter' = counter + n
    /\ task' = [task EXCEPT ![t] = [Idle EXCEPT !.op = op, !.pc = "posting", !.send = send,
                                                !.ins = ins, !.outs = Derived(n)]]

-----------------------------------------------------------------------------
(* Sending.                                                                *)

\* prepare_send reads the unspent proofs and chooses what to send as it is and
\* what to swap first ...
PrepareSend(t) ==
    /\ \E send, ins \in SUBSET Rows({"Unspent"}) :
           send \cap ins = {} /\ Take(t, "send", send, ins)
    /\ UNCHANGED <<store, counter, mint, paying, given, lost, restored, signed>>

\* ... and reserves them in a later statement.
Reserve(t) ==
    /\ task[t].op = "send" /\ task[t].pc = "selected"
    /\ store' = UpdateProofsState(Hands(t), "Reserved")
    /\ Go(t, "prepared")
    /\ UNCHANGED <<counter, mint, paying, started, history>>

Confirm(t) ==
    /\ task[t].pc = "prepared"
    /\ \/ /\ task[t].ins = {}
          /\ Go(t, "swapped")
          /\ UNCHANGED <<store, counter>>
       \/ /\ task[t].ins # {}
          /\ CreateSwap(t, "send", task[t].send, task[t].ins, Cardinality(task[t].ins))
    /\ UNCHANGED <<mint, paying, started, history>>

\* confirm looks whether the proofs may still be sent ...
ConfirmCheck(t) ==
    /\ task[t].pc = "swapped"
    /\ IF task[t].send \subseteq Rows({"Reserved", "Unspent"}) THEN Go(t, "checked") ELSE End(t)
    /\ UNCHANGED <<store, counter, mint, paying, started, history>>

\* ... and marks them and returns the token in a later statement.
ConfirmSend(t) ==
    /\ task[t].pc = "checked"
    /\ store' = UpdateProofsState(task[t].send, "PendingSpent")
    /\ given' = [p \in Proof |-> IF p \in task[t].send THEN given[p] + 1 ELSE given[p]]
    /\ End(t)
    /\ UNCHANGED <<counter, mint, paying, started, shared, lost, restored, signed>>

CancelCheck(t) ==
    /\ task[t].pc = "prepared"
    /\ IF Hands(t) \subseteq Rows({"Reserved"}) THEN Go(t, "cancelling") ELSE End(t)
    /\ UNCHANGED <<store, counter, mint, paying, started, history>>

Cancel(t) ==
    /\ task[t].pc = "cancelling"
    /\ store' = UpdateProofsState(Hands(t), "Unspent")
    /\ End(t)
    /\ UNCHANGED <<counter, mint, paying, started, history>>

-----------------------------------------------------------------------------
(* Receiving and minting.                                                  *)

\* receive_proofs stores the foreign proofs as pending ...
Receive(t) ==
    /\ \E f \in SUBSET Foreign : Take(t, "receive", {}, f)
    /\ store' = [p \in Proof |-> IF p \in task'[t].ins THEN "Pending" ELSE store[p]]
    /\ UNCHANGED <<counter, mint, paying, given, lost, restored, signed>>

\* ... and swaps them.
ReceiveSwap(t) ==
    /\ task[t].op = "receive" /\ task[t].pc = "selected"
    /\ CreateSwap(t, "receive", {}, task[t].ins, Cardinality(task[t].ins))
    /\ UNCHANGED <<mint, paying, started, history>>

\* mint: secrets for a paid quote.
MintTokens(t) ==
    /\ counter < MaxIndex
    /\ counter' = counter + 1
    /\ Start(t, [Idle EXCEPT !.op = "mint", !.pc = "posting", !.outs = Derived(1)])
    /\ UNCHANGED <<store, mint, paying, history>>

-----------------------------------------------------------------------------
(* Melting and reclaiming.                                                 *)

\* melt reads the unspent proofs and chooses the inputs.  If they are worth too
\* much one of them (ins) is exchanged first; the others (send) stay as they are.
MeltSelect(t) ==
    /\ \/ \E ins \in SUBSET Rows({"Unspent"}) : Take(t, "melt", {}, ins)
       \/ \E p \in Rows({"Unspent"}) :
              \E others \in SUBSET (Rows({"Unspent"}) \ {p}) : Take(t, "exchange", others, {p})
    /\ UNCHANGED <<store, counter, mint, paying, given, lost, restored, signed>>

\* The swap of one proof for the exact amount and the change.
Exchange(t) ==
    /\ task[t].op = "exchange" /\ task[t].pc = "selected"
    /\ CreateSwap(t, "exchange", task[t].send, task[t].ins, 2)
    /\ UNCHANGED <<mint, paying, started, history>>

\* melt_proofs: the inputs become pending and one blank output is derived.
Melt(t) ==
    /\ task[t].op = "melt" /\ task[t].pc = "selected"
    /\ counter < MaxIndex
    /\ store' = UpdateProofsState(task[t].ins, "Pending")
    /\ counter' = counter + 1
    /\ task' = [task EXCEPT ![t].pc = "posting", ![t].outs = Derived(1)]
    /\ given' = [p \in Proof |-> IF p \in task[t].ins THEN given[p] + 1 ELSE given[p]]
    /\ UNCHANGED <<mint, paying, started, shared, lost, restored, signed>>

\* The proofs of ys that post_check_state reports as unspent.
Reclaimable(ys) == {p \in ys : mint[p] = "Unspent"}

\* reclaim_unspent, after a melt that failed or for a token taken back: what the
\* mint calls unspent is swapped.  A swap of nothing is refused by the mint.
Reclaim(t) ==
    /\ task[t].pc = "reclaim"
    /\ \/ LET ys == Reclaimable(task[t].ins)
          IN  ys # {} /\ CreateSwap(t, "reclaim", {}, ys, Cardinality(ys))
       \/ /\ End(t)                       \* nothing to reclaim, or no answer
          /\ UNCHANGED <<store, counter>>
    /\ UNCHANGED <<mint, paying, started, history>>

\* revert_transaction: the pending-spent proofs of a token.
RevertTransaction(t) ==
    /\ \E ys \in (SUBSET Rows({"PendingSpent"})) \ {{}} :
           Start(t, [Idle EXCEPT !.op = "revert", !.pc = "reclaim", !.ins = ys])
    /\ UNCHANGED <<store, counter, mint, paying, history>>

\* check_all_pending_proofs: rows whose proof the mint reports spent are removed.
CheckAllPendingProofs(t) ==
    /\ task[t].pc = "idle"
    /\ LET spent == {p \in Rows({"Pending", "Reserved", "PendingSpent"}) : mint[p] = "Spent"}
       IN  spent # {} /\ store' = UpdateProofs({}, {}, spent)
    /\ UNCHANGED <<counter, mint, paying, task, started, history>>

-----------------------------------------------------------------------------
(* The mint and the network (external).                                    *)

\* The mint has no row for the blinded messages, not even one of a melt that is
\* under way.
Unsigned(outs) ==
    \A i \in outs : mint[i] = "unsigned" /\ \A m \in paying : i \notin m.outs

\* A swap or a mint request is executed; the wallet may not learn of it.
Execute(t) ==
    /\ task[t].pc = "posting" /\ task[t].op # "melt"
    /\ \A p \in task[t].ins : mint[p] = "Unspent"
    /\ Unsigned(task[t].outs)
    /\ mint' = [p \in Proof |-> CASE p \in task[t].ins -> "Spent"
                                  [] p \in task[t].outs -> "Unspent"
                                  [] OTHER -> mint[p]]
    /\ \E answer \in {"ok", "failed"} : Go(t, answer)
    /\ UNCHANGED <<store, counter, paying, started, history>>

\* A melt request is accepted and its payment started.
StartPayment(t) ==
    /\ task[t].pc = "posting" /\ task[t].op = "melt"
    /\ \A p \in task[t].ins : mint[p] = "Unspent"
    /\ Unsigned(task[t].outs)
    /\ mint' = [p \in Proof |-> IF p \in task[t].ins THEN "Pending" ELSE mint[p]]
    /\ paying' = paying \cup {[ins |-> task[t].ins, outs |-> task[t].outs]}
    /\ Go(t, "waiting")
    /\ UNCHANGED <<store, counter, started, history>>

\* The payment ends, whether or not the wallet still waits for it: the inputs are
\* spent and the change, if any, is signed, or they are unspent again.
EndPayment(m) ==
    LET waiting == {t \in Task : task[t].pc = "waiting" /\ task[t].ins = m.ins}
    IN  /\ m \in paying
        /\ paying' = paying \ {m}
        /\ \E paid, change \in BOOLEAN :
               /\ mint' = [p \in Proof |->
                              CASE p \in m.ins -> IF paid THEN "Spent" ELSE "Unspent"
                                [] p \in m.outs -> IF paid /\ change THEN "Unspent" ELSE mint[p]
                                [] OTHER -> mint[p]]
               /\ task' = [t \in Task |-> IF t \in waiting
                                          THEN [task[t] EXCEPT !.pc = IF paid THEN "ok" ELSE "failed"]
                                          ELSE task[t]]
        /\ UNCHANGED <<store, counter, started, history>>

\* The mint refuses, the request is lost, or the wallet gives up waiting.
PostFails(t) ==
    /\ task[t].pc \in {"posting", "waiting"}
    /\ Go(t, "failed")
    /\ UNCHANGED <<store, counter, mint, paying, started, history>>

\* The receiver of a token, or someone else who holds a foreign proof, spends it.
Redeem(p) ==
    /\ mint[p] = "Unspent"
    /\ given[p] > 0 \/ p \in Foreign
    /\ mint' = [mint EXCEPT ![p] = "Spent"]
    /\ UNCHANGED <<store, counter, paying, task, started, history>>

-----------------------------------------------------------------------------
(* The answer.                                                             *)

\* What a task does with its swapped proofs: a send and the melt after an exchange
\* go on with the proofs they have, if they have any.
Continue(t, proofs) ==
    CASE task[t].op = "send" /\ proofs # {} ->
             task' = [task EXCEPT ![t] = [Idle EXCEPT !.op = "send", !.pc = "swapped",
                                                      !.send = proofs]]
      [] task[t].op = "exchange" /\ proofs # {} ->
             task' = [task EXCEPT ![t] = [Idle EXCEPT !.op = "melt", !.pc = "selected",
                                                      !.ins = proofs]]
      [] OTHER -> End(t)

\* The new proofs replace the inputs in one transaction.  A send and an exchange
\* keep some of them reserved; a receive raises the counter a second time.
SwapOk(t) ==
    /\ task[t].pc = "ok" /\ task[t].op # "melt"
    /\ \E send \in SUBSET task[t].outs :
           /\ task[t].op \notin {"send", "exchange"} => send = {}
           /\ store' = UpdateProofs(send, task[t].outs \ send, task[t].ins)
           /\ Continue(t, task[t].send \cup send)
    /\ LET again == IF task[t].op = "receive" THEN Cardinality(task[t].outs) ELSE 0
       IN  counter + again <= MaxIndex /\ counter' = counter + again
    /\ UNCHANGED <<mint, paying, started, given, shared, lost, restored, signed>>

\* The inputs are removed and the change that the mint signed is stored.
MeltOk(t) ==
    /\ task[t].pc = "ok" /\ task[t].op = "melt"
    /\ LET change == {i \in task[t].outs : mint[i] # "unsigned"}
       IN  /\ store' = UpdateProofs({}, change, task[t].ins)
           /\ End(t)
    /\ UNCHANGED <<counter, mint, paying, started, given, shared, lost, restored, signed>>

\* Mutant: a swap that fails forgets its inputs.
FailForgets(t) ==
    /\ task[t].pc = "failed"
    /\ IF task[t].op = "melt"
       THEN Go(t, "reclaim") /\ UNCHANGED store
       ELSE End(t) /\ store' = UpdateProofs({}, {}, task[t].ins)
    /\ UNCHANGED <<counter, mint, paying, started, history>>

\* Mutant: a melt that fails returns its inputs without asking the mint.
FailUnreserves(t) ==
    /\ task[t].pc = "failed"
    /\ End(t)
    /\ store' = IF task[t].op = "melt" THEN UpdateProofsState(task[t].ins, "Unspent") ELSE store
    /\ UNCHANGED <<counter, mint, paying, started, history>>

\* An error ends the operation and leaves the rows as they are; only a melt asks
\* the mint about its inputs.
Fail(t) ==
    /\ task[t].pc = "failed"
    /\ IF task[t].op = "melt" THEN Go(t, "reclaim") ELSE End(t)
    /\ UNCHANGED <<store, counter, mint, paying, started, history>>

\* The future is dropped or the process ends.
Drop(t) ==
    /\ task[t].pc # "idle"
    /\ End(t)
    /\ UNCHANGED <<store, counter, mint, paying, started, history>>

-----------------------------------------------------------------------------
(* Restoring from the seed.                                                *)

LoseStore ==
    /\ ~lost
    /\ store' = [p \in Proof |-> "none"]
    /\ counter' = 0
    /\ task' = [t \in Task |-> Idle]
    /\ lost' = TRUE
    /\ UNCHANGED <<mint, paying, started, given, shared, restored, signed>>

Restore(t) ==
    /\ ~restored
    /\ restored' = TRUE
    /\ signed' = {i \in Index : mint[i] # "unsigned"}
    /\ Start(t, [Idle EXCEPT !.op = "restore", !.pc = "restore"])
    /\ UNCHANGED <<store, counter, mint, paying, given, shared, lost>>

Asked(t) == {i \in Index : task[t].from < i /\ i <= task[t].from + Batch}

\* Mutant: the first empty batch ends the restore.
RestoreEndsEarly(t) == task[t].empty = 1

\* Three empty batches in a row.
RestoreEnds(t) == task[t].empty = 3

\* One batch: the counter rises by the number of signatures found, spent proofs
\* lose their row, the others get one that says unspent, whatever it said before.
RestoreBatch(t) ==
    /\ task[t].pc = "restore" /\ ~RestoreEnds(t)
    /\ LET found == {i \in Asked(t) : mint[i] # "unsigned"}
           spent == {i \in found : mint[i] = "Spent"}
       IN  /\ counter + Cardinality(found) <= MaxIndex
           /\ counter' = counter + Cardinality(found)
           /\ store' = UpdateProofs({}, found, spent)
           /\ task' = [task EXCEPT ![t].from = @ + Batch,
                                   ![t].empty = IF found = {} THEN @ + 1 ELSE 0]
    /\ UNCHANGED <<mint, paying, started, given, shared, lost, restored, signed>>

RestoreDone(t) ==
    /\ task[t].pc = "restore" /\ RestoreEnds(t)
    /\ End(t)
    /\ signed' = {}
    /\ UNCHANGED <<store, counter, mint, paying, started, given, shared, lost, restored>>

-----------------------------------------------------------------------------

Step(t) ==
    \/ PrepareSend(t) \/ Reserve(t) \/ Confirm(t) \/ ConfirmCheck(t) \/ ConfirmSend(t)
    \/ CancelCheck(t) \/ Cancel(t)
    \/ Receive(t) \/ ReceiveSwap(t) \/ MintTokens(t)
    \/ MeltSelect(t) \/ Exchange(t) \/ Melt(t)
    \/ Reclaim(t) \/ RevertTransaction(t) \/ CheckAllPendingProofs(t)
    \/ Execute(t) \/ StartPayment(t) \/ PostFails(t)
    \/ SwapOk(t) \/ MeltOk(t) \/ Fail(t) \/ Drop(t)
    \/ Restore(t) \/ RestoreBatch(t) \/ RestoreDone(t)

Next ==
    \/ \E t \in Task : Step(t)
    \/ \E m \in paying : EndPayment(m)
    \/ \E p \in Proof : Redeem(p)
    \/ LoseStore

Spec == Init /\ [][Next]_vars

-----------------------------------------------------------------------------
(* Properties.                                                             *)

StoreState == {"none", "Unspent", "Reserved", "Pending", "PendingSpent"}

\* The rows, the counter and the tasks are what the code's types allow, and no row
\* exists for a secret that the mint has not signed (ProofInfo, State).
TypeOK ==
    /\ store \in [Proof -> StoreState]
    /\ mint \in [Proof -> {"unsigned", "Unspent", "Pending", "Spent"}]
    /\ counter \in 0..MaxIndex
    /\ \A p \in Proof : store[p] # "none" => mint[p] # "unsigned"

\* The wallet never throws money away: a row is removed only if its proof is spent
\* at the mint, however tasks interleave, whichever answers are lost and wherever a task is
\* dropped (update_proofs in swap, receive, melt and check_all_pending_proofs).
DeletedIsSpent ==
    [][\A p \in Proof :
          store[p] # "none" /\ store'[p] = "none" => mint'[p] = "Spent" \/ LoseStore]_vars

\* Until the store is lost, a secret is used in one request only: the counter is
\* ahead of every secret that the mint has signed or that a running request
\* contains, and no two requests share one (increment_keyset_counter).
FreshSecrets ==
    ~lost => /\ \A i \in Index :
                    \/ mint[i] # "unsigned"
                    \/ \E t \in Task : i \in task[t].outs
                    \/ \E m \in paying : i \in m.outs
                    => i <= counter
             /\ \A t, u \in Task : t # u => task[t].outs \cap task[u].outs = {}
             /\ \A t \in Task : task[t].pc = "posting" => Unsigned(task[t].outs)

\* As long as no restore has run, the only way to put a proof into two tokens or
\* melts, or to show one that was given away as unspent, is two tasks having it in
\* hand at the same time: between reading the unspent proofs and reserving them
\* (prepare_send) nothing keeps the second task away.
GivenOnce ==
    ~restored => \A p \in Proof \ shared :
                     /\ given[p] <= 1
                     /\ given[p] = 1 => store[p] # "Unspent"

\* Batch k of a restore, and a batch of which nothing was signed when it began.
BatchOf(i) == (i - 1) \div Batch

EmptyBatch(k) == \A i \in signed : BatchOf(i) # k

\* A restore finds every unspent proof of the seed that was signed when it began,
\* unless three batches of unsigned secrets in a row come before it: secrets of
\* requests that failed leave such gaps (restore).
RestoreComplete ==
    \A t \in Task :
        task[t].pc = "restore" /\ RestoreEnds(t)
        => \A i \in signed :
               \/ mint[i] # "Unspent"
               \/ store[i] # "none"
               \/ \E k \in 0..BatchOf(i) : \A j \in k..(k + 2) : j < BatchOf(i) /\ EmptyBatch(j)

=============================================================================
