---------------------------- MODULE WalletProofs ----------------------------
(***************************************************************************)
(* Proofs about Wallet, for any number of tasks, secrets, operations and   *)
(* foreign proofs, and for any size of a batch.                            *)
(***************************************************************************)
EXTENDS Wallet, FiniteSetTheorems, TLAPS

TaskRec ==
    [op : {"none", "send", "receive", "mint", "exchange", "melt", "reclaim", "revert", "restore"},
     pc : {"idle", "selected", "prepared", "swapped", "checked", "cancelling", "posting",
           "waiting", "ok", "failed", "reclaim", "restore"},
     send : SUBSET Proof, ins : SUBSET Proof, outs : SUBSET Index, from : Nat, empty : Nat]

Types ==
    /\ store \in [Proof -> StoreState]
    /\ mint \in [Proof -> {"unsigned", "Unspent", "Pending", "Spent"}]
    /\ counter \in 0..MaxIndex
    /\ paying \in SUBSET [ins : SUBSET Proof, outs : SUBSET Index]
    /\ task \in [Task -> TaskRec]

(***************************************************************************)
(* The mint: the inputs of a melt under way are pending and its outputs    *)
(* unsigned, no two melts share one of either, and every proof that the    *)
(* wallet may have a row for is signed.                                    *)
(***************************************************************************)
Ledger ==
    /\ \A m \in paying : /\ \A p \in m.ins : mint[p] = "Pending"
                         /\ \A i \in m.outs : mint[i] = "unsigned"
    /\ \A m, n \in paying : m # n => m.ins \cap n.ins = {} /\ m.outs \cap n.outs = {}
    /\ \A p \in Foreign : mint[p] # "unsigned"
    /\ \A p \in Proof : store[p] # "none" => mint[p] # "unsigned"

(***************************************************************************)
(* What an answer means: the inputs are spent, and the outputs of a swap   *)
(* are signed.                                                             *)
(***************************************************************************)
Answers ==
    \A t \in Task :
        /\ task[t].pc = "waiting" => task[t].op = "melt"
        /\ task[t].pc = "ok" => \A p \in task[t].ins : mint[p] = "Spent"
        /\ task[t].pc = "ok" /\ task[t].op # "melt" =>
              \A i \in task[t].outs : mint[i] # "unsigned"

WalletInv == Types /\ Ledger /\ Answers /\ FreshSecrets

-----------------------------------------------------------------------------
(***************************************************************************)
(* A new wallet, with the proofs that it starts with.                      *)
(***************************************************************************)
LEMMA WalletInit == Init => WalletInv
  <1> SUFFICES ASSUME Init PROVE WalletInv
    BY Zenon
  <1>1. /\ Idle \in TaskRec
        /\ Idle.pc = "idle" /\ Idle.outs = {}
    BY Zenon DEF Idle, TaskRec
  <1>2. /\ \A p \in Proof : mint[p] = IF p \in 1..Initial \cup Foreign
                                    THEN "Unspent" ELSE "unsigned"
        /\ \A p \in Proof : store[p] = IF p \in 1..Initial THEN "Unspent" ELSE "none"
        /\ paying = {} /\ counter = Initial
        /\ \A t \in Task : task[t] = Idle
    BY Zenon DEF Init
  <1>3. Types
    BY <1>1, WalletConstants, Zenon DEF Init, Types, StoreState
  <1>4. Ledger
    BY <1>2, Zenon DEF Ledger, Proof
  <1>5. Answers
    BY <1>1, <1>2, Zenon DEF Answers
  <1>6. FreshSecrets
    <2>1. ASSUME NEW i \in Index, mint[i] # "unsigned" PROVE i <= counter
      BY <1>2, <2>1, WalletConstants DEF Proof, Index
    <2> QED
      BY <1>1, <1>2, <2>1, Zenon DEF FreshSecrets
  <1> QED
    BY <1>3, <1>4, <1>5, <1>6, Zenon DEF WalletInv

(***************************************************************************)
(* A step of one task that the mint has no part in.  It stores only what   *)
(* is signed and removes only what is spent, and the outputs it takes are  *)
(* set aside by raising the counter.                                       *)
(***************************************************************************)
StoreStep ==
    /\ store' \in [Proof -> StoreState]
    /\ \A p \in Proof : store'[p] # "none" => mint[p] # "unsigned"
    /\ \A p \in Proof : store[p] # "none" /\ store'[p] = "none" => mint[p] = "Spent"

TaskStep(t) ==
    /\ task' \in [Task -> TaskRec]
    /\ \A u \in Task \ {t} : task'[u] = task[u]
    /\ task'[t].pc \notin {"ok", "waiting"}
    /\ \/ task'[t].outs \subseteq (counter + 1)..counter'
       \/ task'[t].outs \subseteq task[t].outs /\ task'[t].pc # "posting"

Quiet(t) ==
    /\ mint' = mint /\ paying' = paying /\ lost' = lost
    /\ counter' \in counter..MaxIndex
    /\ StoreStep
    /\ TaskStep(t)

(***************************************************************************)
(* A step that signs nothing, spends nothing and sends no request keeps    *)
(* the invariant, if it keeps the rows and the task in order.              *)
(***************************************************************************)
LEMMA QuietStep ==
    ASSUME WalletInv, NEW t \in Task, Quiet(t)
    PROVE  WalletInv'
  <1>1. /\ mint' = mint /\ paying' = paying /\ lost' = lost
        /\ counter \in Nat /\ counter' \in Nat /\ counter <= counter' /\ counter' <= MaxIndex
        /\ MaxIndex \in Nat
    BY WalletConstants DEF WalletInv, Types, Quiet
  <1>2. Types'
    BY <1>1 DEF WalletInv, Types, Quiet, StoreStep, TaskStep
  <1>3. Ledger'
    BY <1>1, Zenon DEF WalletInv, Ledger, Quiet, StoreStep
  <1>4. Answers'
    BY <1>1 DEF WalletInv, Answers, Quiet, TaskStep
  <1>5. ASSUME ~lost PROVE FreshSecrets'
    <2>1. /\ \A i \in Index : \/ mint[i] # "unsigned"
                              \/ \E u \in Task : i \in task[u].outs
                              \/ \E m \in paying : i \in m.outs
                              => i <= counter
          /\ \A u, v \in Task : u # v => task[u].outs \cap task[v].outs = {}
          /\ \A u \in Task : task[u].pc = "posting" => Unsigned(task[u].outs)
      BY <1>5, Zenon DEF WalletInv, FreshSecrets
    <2>2. /\ \A u \in Task \ {t} : task'[u] = task[u]
          /\ \A u \in Task : task[u].outs \subseteq Index /\ task'[u].outs \subseteq Index
          /\ \/ task'[t].outs \subseteq (counter + 1)..counter'
             \/ task'[t].outs \subseteq task[t].outs /\ task'[t].pc # "posting"
      BY Zenon DEF WalletInv, Types, Quiet, TaskStep, TaskRec
    <2>3. \A i \in Index : i \in Nat
      BY DEF Index
    <2>4. \A i \in task'[t].outs :
              /\ i <= counter'
              /\ i \in task[t].outs \/ i > counter
      BY <1>1, <2>1, <2>2, <2>3
    <2>5. \A i \in Index : \/ mint'[i] # "unsigned"
                           \/ \E u \in Task : i \in task'[u].outs
                           \/ \E m \in paying' : i \in m.outs
                           => i <= counter'
      <3> SUFFICES ASSUME NEW i \in Index, NEW u \in Task, i \in task'[u].outs
                   PROVE  i <= counter'
        BY <1>1, <2>1, <2>3
      <3>1. CASE u = t
        BY <2>4, <3>1, Zenon
      <3>2. CASE u # t
        BY <1>1, <2>1, <2>2, <2>3, <3>2
      <3> QED
        BY <3>1, <3>2, Zenon
    <2>6. \A u, v \in Task : u # v => task'[u].outs \cap task'[v].outs = {}
      <3>1. ASSUME NEW u \in Task \ {t} PROVE task'[t].outs \cap task'[u].outs = {}
        BY <1>1, <2>1, <2>2, <2>3, <2>4
      <3> QED
        BY <2>1, <2>2, <3>1
    <2>7. ASSUME NEW u \in Task, task'[u].pc = "posting" PROVE Unsigned(task[u].outs)'
      <3>1. CASE u = t
        <4>1. \A i \in task'[t].outs : i \in Index /\ ~(i <= counter)
          BY <1>1, <2>2, <2>3, <2>7, <3>1
        <4> QED
          BY <1>1, <2>1, <3>1, <4>1, Zenon DEF Unsigned
      <3>2. CASE u # t
        BY <1>1, <2>1, <2>2, <2>7, <3>2, Zenon DEF Unsigned
      <3> QED
        BY <3>1, <3>2, Zenon
    <2> QED
      BY <2>5, <2>6, <2>7, Zenon DEF FreshSecrets
  <1> QED
    BY <1>1, <1>2, <1>3, <1>4, <1>5, Zenon DEF WalletInv, FreshSecrets

(***************************************************************************)
(* A step of the mint.  A signed proof stays signed and a spent one spent. *)
(***************************************************************************)
MintStep ==
    /\ mint' \in [Proof -> {"unsigned", "Unspent", "Pending", "Spent"}]
    /\ \A p \in Proof : /\ mint[p] # "unsigned" => mint'[p] # "unsigned"
                        /\ mint[p] = "Spent" => mint'[p] = "Spent"

(***************************************************************************)
(* A swap or a mint request is executed.                                   *)
(***************************************************************************)
LEMMA ExecuteStep ==
    ASSUME WalletInv, NEW t \in Task, Execute(t)
    PROVE  WalletInv' /\ MintStep
  <1>1. /\ store' = store /\ counter' = counter /\ paying' = paying /\ lost' = lost
        /\ task[t].pc = "posting" /\ task[t].op # "melt"
        /\ \A p \in task[t].ins : mint[p] = "Unspent"
        /\ \A i \in task[t].outs : mint[i] = "unsigned" /\ \A m \in paying : i \notin m.outs
    BY Zenon DEF Execute, history, Unsigned
  <1>2. /\ task[t].ins \subseteq Proof /\ task[t].outs \subseteq Index /\ Index \subseteq Proof
        /\ \A m \in paying : m.ins \subseteq Proof /\ m.outs \subseteq Index
        /\ \A u \in Task : task[u].ins \subseteq Proof /\ task[u].outs \subseteq Index
    BY Zenon DEF WalletInv, Types, TaskRec, Proof
  <1>3. \A p \in Proof :
            mint'[p] = IF p \in task[t].ins THEN "Spent"
                       ELSE IF p \in task[t].outs THEN "Unspent" ELSE mint[p]
    BY <1>1, Zenon DEF Execute
  <1>4. MintStep
    <2>1. mint' \in [Proof -> {"unsigned", "Unspent", "Pending", "Spent"}]
      <3>1. DOMAIN mint' = Proof /\ mint' = [p \in Proof |-> mint'[p]]
        BY DEF Execute
      <3> QED
        BY <1>3, <3>1, Zenon DEF WalletInv, Types
    <2> QED
      BY <1>1, <1>3, <2>1, Zenon DEF MintStep
  <1>5. /\ task' \in [Task -> TaskRec]
        /\ task'[t].pc \in {"ok", "failed"}
        /\ task'[t].op = task[t].op /\ task'[t].ins = task[t].ins
        /\ task'[t].outs = task[t].outs
        /\ \A u \in Task \ {t} : task'[u] = task[u]
    BY SMTT(30) DEF Execute, Go, WalletInv, Types, TaskRec
  <1>6. Types'
    BY <1>1, <1>4, <1>5, Zenon DEF WalletInv, Types, MintStep
  <1>7. Ledger'
    <2>1. ASSUME NEW m \in paying
          PROVE  /\ \A p \in m.ins : mint'[p] = "Pending"
                 /\ \A i \in m.outs : mint'[i] = "unsigned"
      BY <1>1, <1>2, <1>3 DEF WalletInv, Ledger
    <2>2. /\ \A p \in Foreign : mint'[p] # "unsigned"
          /\ \A p \in Proof : store'[p] # "none" => mint'[p] # "unsigned"
      BY <1>1, <1>4, Zenon DEF WalletInv, Ledger, MintStep, Proof
    <2> QED
      BY <1>1, <2>1, <2>2, Zenon DEF WalletInv, Ledger
  <1>8. Answers'
    <2>1. /\ \A p \in task[t].ins : mint'[p] = "Spent"
          /\ \A i \in task[t].outs : mint'[i] # "unsigned"
      BY <1>2, <1>3, Zenon
    <2>2. ASSUME NEW u \in Task \ {t}
          PROVE  /\ task[u].pc = "ok" => \A p \in task[u].ins : mint'[p] = "Spent"
                 /\ task[u].pc = "ok" /\ task[u].op # "melt" =>
                       \A i \in task[u].outs : mint'[i] # "unsigned"
      BY <1>2, <1>4, Zenon DEF WalletInv, Answers, MintStep
    <2> QED
      BY <1>5, <2>1, <2>2 DEF WalletInv, Answers
  <1>9. FreshSecrets'
    <2> SUFFICES ASSUME ~lost PROVE FreshSecrets'
      BY <1>1, Zenon DEF FreshSecrets
    <2>1. /\ \A i \in Index : \/ mint[i] # "unsigned"
                              \/ \E u \in Task : i \in task[u].outs
                              \/ \E m \in paying : i \in m.outs
                              => i <= counter
          /\ \A u, v \in Task : u # v => task[u].outs \cap task[v].outs = {}
          /\ \A u \in Task : task[u].pc = "posting" => Unsigned(task[u].outs)
      BY Zenon DEF WalletInv, FreshSecrets
    <2>2. \A u \in Task : task'[u].outs = task[u].outs
      BY <1>5, Zenon
    <2>3. \A i \in Index : mint'[i] # "unsigned" => mint[i] # "unsigned" \/ i \in task[t].outs
      BY <1>1, <1>2, <1>3, Zenon
    <2>4. \A i \in Index : \/ mint'[i] # "unsigned"
                           \/ \E u \in Task : i \in task'[u].outs
                           \/ \E m \in paying' : i \in m.outs
                           => i <= counter'
      BY <1>1, <2>1, <2>2, <2>3, Zenon
    <2>5. ASSUME NEW u \in Task, task'[u].pc = "posting" PROVE Unsigned(task[u].outs)'
      <3>1. u # t /\ task[u].pc = "posting"
        BY <1>5, <2>5, Zenon
      <3>2. \A i \in task[u].outs : i \in Index /\ i \notin task[t].outs
        BY <1>2, <2>1, <3>1, Zenon
      <3> QED
        BY <1>1, <2>1, <2>2, <2>3, <3>1, <3>2, Zenon DEF Unsigned
    <2> QED
      BY <2>1, <2>2, <2>4, <2>5, Zenon DEF FreshSecrets
  <1> QED
    BY <1>4, <1>6, <1>7, <1>8, <1>9, Zenon DEF WalletInv

(***************************************************************************)
(* A melt is accepted: its inputs become pending, and its outputs belong   *)
(* to a payment.                                                           *)
(***************************************************************************)
LEMMA StartPaymentStep ==
    ASSUME WalletInv, NEW t \in Task, StartPayment(t)
    PROVE  WalletInv' /\ MintStep
  <1> DEFINE new == [ins |-> task[t].ins, outs |-> task[t].outs]
  <1>1. /\ store' = store /\ counter' = counter /\ lost' = lost
        /\ paying' = paying \cup {new}
        /\ task[t].pc = "posting" /\ task[t].op = "melt"
        /\ \A p \in task[t].ins : mint[p] = "Unspent"
        /\ \A i \in task[t].outs : mint[i] = "unsigned" /\ \A m \in paying : i \notin m.outs
    BY Zenon DEF StartPayment, history, Unsigned
  <1>2. /\ task[t].ins \subseteq Proof /\ task[t].outs \subseteq Index /\ Index \subseteq Proof
        /\ \A m \in paying : m.ins \subseteq Proof /\ m.outs \subseteq Index
        /\ \A u \in Task : task[u].ins \subseteq Proof /\ task[u].outs \subseteq Index
        /\ new.ins = task[t].ins /\ new.outs = task[t].outs
    BY Zenon DEF WalletInv, Types, TaskRec, Proof
  <1>3. \A p \in Proof : mint'[p] = IF p \in task[t].ins THEN "Pending" ELSE mint[p]
    BY Zenon DEF StartPayment
  <1>4. MintStep
    <2>1. mint' \in [Proof -> {"unsigned", "Unspent", "Pending", "Spent"}]
      BY Zenon DEF StartPayment, WalletInv, Types
    <2> QED
      BY <1>1, <1>3, <2>1, Zenon DEF MintStep
  <1>5. /\ task' \in [Task -> TaskRec]
        /\ task'[t].pc = "waiting" /\ task'[t].op = task[t].op
        /\ task'[t].outs = task[t].outs
        /\ \A u \in Task \ {t} : task'[u] = task[u]
    BY DEF StartPayment, Go, WalletInv, Types, TaskRec
  <1>6. Types'
    <2>1. paying' \in SUBSET [ins : SUBSET Proof, outs : SUBSET Index]
      BY <1>1, <1>2, Zenon DEF WalletInv, Types
    <2> QED
      BY <1>1, <1>4, <1>5, <2>1, Zenon DEF WalletInv, Types, MintStep
  <1>7. \A i \in Index : mint'[i] = "unsigned" <=> mint[i] = "unsigned"
    BY <1>1, <1>2, <1>3, Zenon
  <1> HIDE DEF new
  <1>8. Ledger'
    <2>1. ASSUME NEW m \in paying
          PROVE  /\ \A p \in m.ins : mint'[p] = "Pending"
                 /\ \A i \in m.outs : mint'[i] = "unsigned"
                 /\ m.ins \cap new.ins = {} /\ m.outs \cap new.outs = {}
      <3>1. /\ \A p \in m.ins : mint[p] = "Pending"
            /\ \A i \in m.outs : mint[i] = "unsigned"
        BY Zenon DEF WalletInv, Ledger
      <3> QED
        BY <1>1, <1>2, <1>3, <1>7, <3>1, Zenon
    <2>2. /\ \A p \in new.ins : mint'[p] = "Pending"
          /\ \A i \in new.outs : mint'[i] = "unsigned"
      BY <1>1, <1>2, <1>3, <1>7, Zenon
    <2>3. /\ \A p \in Foreign : mint'[p] # "unsigned"
          /\ \A p \in Proof : store'[p] # "none" => mint'[p] # "unsigned"
      BY <1>1, <1>4, Zenon DEF WalletInv, Ledger, MintStep, Proof
    <2>4. \A m, n \in paying' : m # n => m.ins \cap n.ins = {} /\ m.outs \cap n.outs = {}
      BY <1>1, <2>1, Zenon DEF WalletInv, Ledger
    <2> QED
      BY <1>1, <2>1, <2>2, <2>3, <2>4, Zenon DEF Ledger
  <1>9. Answers'
    <2>1. ASSUME NEW u \in Task \ {t}
          PROVE  /\ task[u].pc = "ok" => \A p \in task[u].ins : mint'[p] = "Spent"
                 /\ task[u].pc = "ok" /\ task[u].op # "melt" =>
                       \A i \in task[u].outs : mint'[i] # "unsigned"
      BY <1>2, <1>4, Zenon DEF WalletInv, Answers, MintStep
    <2> QED
      BY <1>1, <1>5, <2>1 DEF WalletInv, Answers
  <1>10. FreshSecrets'
    <2> SUFFICES ASSUME ~lost PROVE FreshSecrets'
      BY <1>1, Zenon DEF FreshSecrets
    <2>1. /\ \A i \in Index : \/ mint[i] # "unsigned"
                              \/ \E u \in Task : i \in task[u].outs
                              \/ \E m \in paying : i \in m.outs
                              => i <= counter
          /\ \A u, v \in Task : u # v => task[u].outs \cap task[v].outs = {}
          /\ \A u \in Task : task[u].pc = "posting" => Unsigned(task[u].outs)
      BY Zenon DEF WalletInv, FreshSecrets
    <2>2. \A u \in Task : task'[u].outs = task[u].outs
      BY <1>5, Zenon
    <2>3. \A i \in Index : \/ mint'[i] # "unsigned"
                           \/ \E u \in Task : i \in task'[u].outs
                           \/ \E m \in paying' : i \in m.outs
                           => i <= counter'
      BY <1>1, <1>2, <1>7, <2>1, <2>2
    <2>4. ASSUME NEW u \in Task, task'[u].pc = "posting" PROVE Unsigned(task[u].outs)'
      <3>1. u # t /\ task[u].pc = "posting"
        BY <1>5, <2>4, Zenon
      <3>2. \A i \in task[u].outs : i \in Index /\ i \notin new.outs
        BY <1>2, <2>1, <3>1, Zenon
      <3> QED
        BY <1>1, <1>7, <2>1, <2>2, <3>1, <3>2, Zenon DEF Unsigned
    <2> QED
      BY <2>1, <2>2, <2>3, <2>4, Zenon DEF FreshSecrets
  <1> QED
    BY <1>4, <1>6, <1>8, <1>9, <1>10, Zenon DEF WalletInv

(***************************************************************************)
(* A payment ends.  Nobody else can have touched its inputs or outputs.    *)
(***************************************************************************)
LEMMA EndPaymentStep ==
    ASSUME WalletInv, NEW m \in paying, EndPayment(m)
    PROVE  WalletInv' /\ MintStep
  <1>1. store' = store /\ counter' = counter /\ lost' = lost /\ paying' = paying \ {m}
    BY Zenon DEF EndPayment, history
  <1>2. /\ m.ins \subseteq Proof /\ m.outs \subseteq Index /\ Index \subseteq Proof
        /\ \A n \in paying : n.ins \subseteq Proof /\ n.outs \subseteq Index
        /\ \A u \in Task : task[u].ins \subseteq Proof /\ task[u].outs \subseteq Index
    BY Zenon DEF WalletInv, Types, TaskRec, Proof
  <1>3. /\ \A p \in m.ins : mint[p] = "Pending" /\ p \notin m.outs
        /\ \A i \in m.outs : mint[i] = "unsigned" /\ i \notin m.ins
    BY Zenon DEF WalletInv, Ledger
  <1>4. PICK paid, change \in BOOLEAN :
            /\ mint' = [p \in Proof |->
                           CASE p \in m.ins -> IF paid THEN "Spent" ELSE "Unspent"
                             [] p \in m.outs -> IF paid /\ change THEN "Unspent" ELSE mint[p]
                             [] OTHER -> mint[p]]
            /\ task' = [t \in Task |->
                           IF t \in {u \in Task : task[u].pc = "waiting" /\ task[u].ins = m.ins}
                           THEN [task[t] EXCEPT !.pc = IF paid THEN "ok" ELSE "failed"]
                           ELSE task[t]]
    BY Zenon DEF EndPayment
  <1>5. \A p \in Proof :
            /\ p \in m.ins => mint'[p] = IF paid THEN "Spent" ELSE "Unspent"
            /\ p \in m.outs => mint'[p] \in {"unsigned", "Unspent"}
            /\ p \notin m.ins /\ p \notin m.outs => mint'[p] = mint[p]
    BY <1>3, <1>4, Zenon
  <1>6. MintStep
    <2>1. mint' = [p \in Proof |-> mint'[p]]
      BY <1>4
    <2>2. \A p \in Proof : mint'[p] \in {"unsigned", "Unspent", "Pending", "Spent"}
      BY <1>5, Zenon DEF WalletInv, Types
    <2>3. mint' \in [Proof -> {"unsigned", "Unspent", "Pending", "Spent"}]
      BY <2>1, <2>2, Zenon
    <2> QED
      BY <1>3, <1>5, <2>3, Zenon DEF MintStep
  <1>7. /\ task' \in [Task -> TaskRec]
        /\ \A u \in Task : /\ task'[u].outs = task[u].outs /\ task'[u].ins = task[u].ins
                           /\ task'[u].op = task[u].op
                           /\ \/ task'[u].pc = task[u].pc
                              \/ task[u].pc = "waiting" /\ task'[u].pc = "failed"
                              \/ /\ task[u].pc = "waiting" /\ task'[u].pc = "ok"
                                 /\ paid /\ task[u].ins = m.ins
    <2>1. ASSUME NEW u \in Task
          PROVE  /\ task'[u] \in TaskRec
                 /\ task'[u].outs = task[u].outs /\ task'[u].ins = task[u].ins
                 /\ task'[u].op = task[u].op
                 /\ \/ task'[u].pc = task[u].pc
                    \/ task[u].pc = "waiting" /\ task'[u].pc = "failed"
                    \/ /\ task[u].pc = "waiting" /\ task'[u].pc = "ok"
                       /\ paid /\ task[u].ins = m.ins
      <3>1. task[u] \in TaskRec
        BY Zenon DEF WalletInv, Types
      <3>2. CASE task[u].pc = "waiting" /\ task[u].ins = m.ins
        <4>1. task'[u] = [task[u] EXCEPT !.pc = IF paid THEN "ok" ELSE "failed"]
          BY <1>4, <3>2, Zenon
        <4> QED
          BY <3>1, <3>2, <4>1, Zenon DEF TaskRec
      <3>3. CASE ~(task[u].pc = "waiting" /\ task[u].ins = m.ins)
        <4>1. task'[u] = task[u]
          BY <1>4, <3>3, Zenon
        <4> QED
          BY <3>1, <4>1, Zenon
      <3> QED
        BY <3>2, <3>3, Zenon
    <2>2. task' = [u \in Task |-> task'[u]]
      BY <1>4, Zenon
    <2> QED
      BY <2>1, <2>2, Zenon
  <1>8. Types'
    <2>1. paying' \in SUBSET [ins : SUBSET Proof, outs : SUBSET Index]
      BY <1>1, Zenon DEF WalletInv, Types
    <2> QED
      BY <1>1, <1>6, <1>7, <2>1, Zenon DEF WalletInv, Types, MintStep
  <1>9. Ledger'
    <2>1. ASSUME NEW n \in paying, n # m
          PROVE  /\ \A p \in n.ins : mint'[p] = "Pending"
                 /\ \A i \in n.outs : mint'[i] = "unsigned"
      <3>1. /\ \A p \in n.ins : mint[p] = "Pending" /\ p \notin m.ins
            /\ \A i \in n.outs : mint[i] = "unsigned" /\ i \notin m.outs
        BY <2>1, Zenon DEF WalletInv, Ledger
      <3> QED
        BY <1>2, <1>3, <1>5, <3>1, Zenon
    <2>2. /\ \A p \in Foreign : mint'[p] # "unsigned"
          /\ \A p \in Proof : store'[p] # "none" => mint'[p] # "unsigned"
      BY <1>1, <1>6, Zenon DEF WalletInv, Ledger, MintStep, Proof
    <2>3. \A n, o \in paying' : n # o => n.ins \cap o.ins = {} /\ n.outs \cap o.outs = {}
      BY <1>1, Zenon DEF WalletInv, Ledger
    <2> QED
      BY <1>1, <2>1, <2>2, <2>3, Zenon DEF Ledger
  <1>10. Answers'
    <2>1. ASSUME NEW u \in Task
          PROVE  /\ task[u].pc = "ok" => \A p \in task[u].ins : mint'[p] = "Spent"
                 /\ task[u].pc = "ok" /\ task[u].op # "melt" =>
                       \A i \in task[u].outs : mint'[i] # "unsigned"
                 /\ paid /\ task[u].ins = m.ins => \A p \in task[u].ins : mint'[p] = "Spent"
                 /\ task[u].pc = "waiting" => task[u].op = "melt"
      BY <1>2, <1>5, <1>6, Zenon DEF WalletInv, Answers, MintStep
    <2> QED
      BY <1>7, <2>1 DEF Answers
  <1>11. FreshSecrets'
    <2> SUFFICES ASSUME ~lost PROVE FreshSecrets'
      BY <1>1, Zenon DEF FreshSecrets
    <2>1. /\ \A i \in Index : \/ mint[i] # "unsigned"
                              \/ \E u \in Task : i \in task[u].outs
                              \/ \E n \in paying : i \in n.outs
                              => i <= counter
          /\ \A u, v \in Task : u # v => task[u].outs \cap task[v].outs = {}
          /\ \A u \in Task : task[u].pc = "posting" => Unsigned(task[u].outs)
      BY Zenon DEF WalletInv, FreshSecrets
    <2>2. \A i \in Index : mint'[i] # "unsigned" => mint[i] # "unsigned" \/ i \in m.outs
      BY <1>2, <1>3, <1>5, Zenon
    <2>3. \A i \in Index : \/ mint'[i] # "unsigned"
                           \/ \E u \in Task : i \in task'[u].outs
                           \/ \E n \in paying' : i \in n.outs
                           => i <= counter'
      BY <1>1, <1>7, <2>1, <2>2, Zenon
    <2>4. ASSUME NEW u \in Task, task'[u].pc = "posting" PROVE Unsigned(task[u].outs)'
      <3>1. task[u].pc = "posting" /\ task[u].outs \subseteq Index
        BY <1>2, <1>7, <2>4, Zenon
      <3>2. \A i \in task[u].outs : mint[i] = "unsigned" /\ \A n \in paying : i \notin n.outs
        BY <2>1, <3>1, Zenon DEF Unsigned
      <3> QED
        BY <1>1, <1>7, <2>2, <3>1, <3>2, Zenon DEF Unsigned
    <2> QED
      BY <1>7, <2>1, <2>3, <2>4, Zenon DEF FreshSecrets
  <1> QED
    BY <1>6, <1>8, <1>9, <1>10, <1>11, Zenon DEF WalletInv

(***************************************************************************)
(* A receiver redeems a proof.                                             *)
(***************************************************************************)
LEMMA RedeemStep ==
    ASSUME WalletInv, NEW q \in Proof, Redeem(q)
    PROVE  WalletInv' /\ MintStep
  <1>1. /\ store' = store /\ counter' = counter /\ paying' = paying /\ task' = task
        /\ lost' = lost /\ mint[q] = "Unspent"
        /\ mint' = [mint EXCEPT ![q] = "Spent"]
    BY Zenon DEF Redeem, history
  <1>2. /\ mint' \in [Proof -> {"unsigned", "Unspent", "Pending", "Spent"}]
        /\ mint'[q] = "Spent"
        /\ \A p \in Proof : p # q => mint'[p] = mint[p]
    BY <1>1, Zenon DEF WalletInv, Types
  <1>3. /\ Index \subseteq Proof /\ Foreign \subseteq Proof
        /\ \A n \in paying : n.ins \subseteq Proof /\ n.outs \subseteq Index
        /\ \A u \in Task : task[u].ins \subseteq Proof /\ task[u].outs \subseteq Index
    BY Zenon DEF WalletInv, Types, TaskRec, Proof
  <1>4. Types'
    BY <1>1, <1>2, Zenon DEF WalletInv, Types
  <1>5. Ledger'
    BY <1>1, <1>2, <1>3 DEF WalletInv, Ledger
  <1>6. Answers'
    BY <1>1, <1>2, <1>3 DEF WalletInv, Answers
  <1>7. FreshSecrets'
    <2>1. \A i \in Index : mint'[i] = "unsigned" <=> mint[i] = "unsigned"
      BY <1>1, <1>2, <1>3, Zenon
    <2> QED
      BY <1>1, <1>3, <2>1, Zenon DEF WalletInv, FreshSecrets, Unsigned
  <1>8. MintStep
    BY <1>1, <1>2 DEF MintStep
  <1> QED
    BY <1>4, <1>5, <1>6, <1>7, <1>8, Zenon DEF WalletInv

(***************************************************************************)
(* The store is lost.                                                      *)
(***************************************************************************)
LEMMA LoseStoreStep ==
    ASSUME WalletInv, LoseStore
    PROVE  WalletInv'
  <1>1. /\ Idle \in TaskRec
        /\ Idle.pc = "idle"
    BY Zenon DEF Idle, TaskRec
  <1>2. /\ mint' = mint /\ paying' = paying /\ counter' = 0 /\ lost' = TRUE
        /\ \A p \in Proof : store'[p] = "none"
        /\ \A u \in Task : task'[u] = Idle
    BY Zenon DEF LoseStore
  <1>3. Types'
    BY <1>1, <1>2, WalletConstants DEF WalletInv, Types, LoseStore, StoreState
  <1>4. Ledger'
    BY <1>2, Zenon DEF WalletInv, Ledger
  <1>5. Answers'
    BY <1>1, <1>2, Zenon DEF Answers
  <1> QED
    BY <1>2, <1>3, <1>4, <1>5, Zenon DEF WalletInv, FreshSecrets

(***************************************************************************)
(* A set of proofs is finite: Foreign is, and the secrets are bounded.     *)
(***************************************************************************)
LEMMA Counted ==
    ASSUME NEW S \in SUBSET Proof
    PROVE  Cardinality(S) \in Nat
  <1>1. IsFiniteSet(Index)
    BY FS_Interval, WalletConstants DEF Index
  <1>2. IsFiniteSet(Proof)
    BY <1>1, FS_Union, WalletConstants, Zenon DEF Proof
  <1>3. IsFiniteSet(S)
    BY <1>2, FS_Subset, Zenon
  <1> QED
    BY <1>3, FS_CardinalityType, Zenon

(***************************************************************************)
(* update_proofs_state creates no row and deletes none.                    *)
(***************************************************************************)
LEMMA StateStep ==
    ASSUME WalletInv, NEW ys, NEW state \in StoreState \ {"none"},
           store' = UpdateProofsState(ys, state)
    PROVE  StoreStep
  <1>1. \A p \in Proof : store'[p] = IF p \in ys /\ store[p] # "none" THEN state ELSE store[p]
    BY Zenon DEF UpdateProofsState
  <1>2. store' \in [Proof -> StoreState]
    BY Zenon DEF WalletInv, Types, UpdateProofsState
  <1>3. \A p \in Proof : store[p] # "none" => mint[p] # "unsigned"
    BY Zenon DEF WalletInv, Ledger
  <1> QED
    BY <1>1, <1>2, <1>3, Zenon DEF StoreStep

(***************************************************************************)
(* update_proofs may add what is signed and remove what is spent.          *)
(***************************************************************************)
LEMMA RowsStep ==
    ASSUME WalletInv, NEW reserved, NEW unspent, NEW removed,
           \A p \in reserved \cup unspent : mint[p] # "unsigned",
           \A p \in removed : mint[p] = "Spent",
           store' = UpdateProofs(reserved, unspent, removed)
    PROVE  StoreStep
  <1>1. \A p \in Proof :
            store'[p] = IF p \in removed THEN "none"
                        ELSE IF p \in reserved THEN "Reserved"
                        ELSE IF p \in unspent THEN "Unspent" ELSE store[p]
    BY Zenon DEF UpdateProofs
  <1>2. store' = [p \in Proof |-> store'[p]]
    BY Zenon DEF UpdateProofs
  <1>3. \A p \in Proof : store'[p] \in StoreState
    BY <1>1, Zenon DEF WalletInv, Types, StoreState
  <1>4. store' \in [Proof -> StoreState]
    BY <1>2, <1>3, Zenon
  <1>5. \A p \in Proof : store[p] # "none" => mint[p] # "unsigned"
    BY Zenon DEF WalletInv, Ledger
  <1> QED
    BY <1>1, <1>4, <1>5, Zenon DEF StoreStep

(***************************************************************************)
(* A step that leaves the store alone.                                     *)
(***************************************************************************)
LEMMA NoStoreStep ==
    ASSUME WalletInv, store' = store
    PROVE  StoreStep
  BY Zenon DEF WalletInv, Types, Ledger, StoreStep

(***************************************************************************)
(* Task t becomes a new record, whose outputs were just set aside.         *)
(***************************************************************************)
LEMMA NewTask ==
    ASSUME WalletInv, NEW t \in Task, NEW new \in TaskRec,
           new.pc \notin {"ok", "waiting"},
           new.outs \subseteq (counter + 1)..counter',
           task' = [task EXCEPT ![t] = new]
    PROVE  TaskStep(t)
  <1>1. task \in [Task -> TaskRec]
    BY Zenon DEF WalletInv, Types
  <1>2. /\ task' \in [Task -> TaskRec]
        /\ task'[t] = new
        /\ \A u \in Task \ {t} : task'[u] = task[u]
    BY <1>1, Zenon
  <1> QED
    BY <1>2, Zenon DEF TaskStep

(***************************************************************************)
(* A task ends, or goes on without posting a request.                      *)
(***************************************************************************)
LEMMA EndTask ==
    ASSUME WalletInv, NEW t \in Task, End(t)
    PROVE  TaskStep(t)
  <1>1. Idle \in TaskRec /\ Idle.pc = "idle" /\ Idle.outs = {}
    BY Zenon DEF Idle, TaskRec
  <1>2. task' = [task EXCEPT ![t] = Idle]
    BY Zenon DEF End
  <1>3. Idle.pc \notin {"ok", "waiting"} /\ Idle.outs \subseteq (counter + 1)..counter'
    BY <1>1, Zenon
  <1> QED
    BY <1>1, <1>2, <1>3, NewTask, Zenon

(***************************************************************************)
(* A task that goes on to another point of its operation, with outputs     *)
(* that are already derived, stays in order.                               *)
(***************************************************************************)
LEMMA GoTask ==
    ASSUME WalletInv, NEW t \in Task,
           NEW pc \in {"prepared", "swapped", "checked", "cancelling", "failed", "reclaim"},
           Go(t, pc)
    PROVE  TaskStep(t)
  <1>1. task \in [Task -> TaskRec] /\ task[t] \in TaskRec
    BY Zenon DEF WalletInv, Types
  <1>2. task'[t] \in TaskRec /\ task'[t].pc = pc /\ task'[t].outs = task[t].outs
    BY <1>1, Zenon DEF Go, TaskRec
  <1>3. /\ task' \in [Task -> TaskRec]
        /\ \A u \in Task \ {t} : task'[u] = task[u]
    <2>1. task' = [task EXCEPT ![t] = task'[t]]
      BY <1>1, Zenon DEF Go
    <2> QED
      BY <1>1, <1>2, <2>1, Zenon
  <1> QED
    BY <1>2, <1>3, Zenon DEF TaskStep

(***************************************************************************)
(* create_swap: as many secrets are set aside as there are outputs.        *)
(***************************************************************************)
LEMMA CreateSwapTask ==
    ASSUME WalletInv, NEW t \in Task, NEW op \in {"send", "receive", "exchange", "reclaim"},
           NEW send \in SUBSET Proof, NEW ins \in SUBSET Proof, NEW n \in Nat,
           CreateSwap(t, op, send, ins, n)
    PROVE  /\ counter' \in counter..MaxIndex
           /\ StoreStep
           /\ TaskStep(t)
  <1>1. /\ counter \in Nat /\ MaxIndex \in Nat
        /\ counter' = counter + n /\ counter' <= MaxIndex
    BY WalletConstants DEF CreateSwap, WalletInv, Types
  <1>2. StoreStep
    BY StateStep, Zenon DEF CreateSwap, StoreState
  <1> DEFINE new == [Idle EXCEPT !.op = op, !.pc = "posting", !.send = send,
                                 !.ins = ins, !.outs = Derived(n)]
  <1>3. Derived(n) = (counter + 1)..counter'
    BY <1>1, Zenon DEF Derived
  <1>4. Derived(n) \subseteq Index
    BY <1>1 DEF Derived, Index
  <1>5. /\ new \in TaskRec
        /\ new.pc \notin {"ok", "waiting"}
        /\ new.outs \subseteq (counter + 1)..counter'
    BY <1>3, <1>4, Zenon DEF Idle, TaskRec
  <1>6. task' = [task EXCEPT ![t] = new]
    BY Zenon DEF CreateSwap
  <1> HIDE DEF new
  <1>7. TaskStep(t)
    BY <1>5, <1>6, NewTask, Zenon
  <1> QED
    BY <1>1, <1>2, <1>7

(***************************************************************************)
(* A task that takes proofs in hand has no outputs yet.                    *)
(***************************************************************************)
LEMMA TakeTask ==
    ASSUME WalletInv, NEW t \in Task, NEW op \in {"send", "receive", "exchange", "melt"},
           NEW send \in SUBSET Proof, NEW ins \in SUBSET Proof,
           Take(t, op, send, ins)
    PROVE  TaskStep(t)
  <1> DEFINE new == [Idle EXCEPT !.op = op, !.pc = "selected", !.send = send, !.ins = ins]
  <1>1. /\ new \in TaskRec
        /\ new.pc \notin {"ok", "waiting"}
        /\ new.outs \subseteq (counter + 1)..counter'
    BY Zenon DEF Idle, TaskRec
  <1>2. task' = [task EXCEPT ![t] = new]
    BY Zenon DEF Take, Start
  <1> HIDE DEF new
  <1> QED
    BY <1>1, <1>2, NewTask, Zenon

(***************************************************************************)
(* prepare_send, confirm and cancel.                                       *)
(***************************************************************************)
LEMMA SendSteps ==
    ASSUME WalletInv, NEW t \in Task,
           \/ PrepareSend(t) \/ Reserve(t) \/ Confirm(t) \/ ConfirmCheck(t)
           \/ ConfirmSend(t) \/ CancelCheck(t) \/ Cancel(t)
    PROVE  Quiet(t)
  <1>1. /\ counter \in counter..MaxIndex
        /\ task[t].send \in SUBSET Proof /\ task[t].ins \in SUBSET Proof
        /\ Cardinality(task[t].ins) \in Nat
    BY WalletConstants, Counted DEF WalletInv, Types, TaskRec
  <1>2. CASE PrepareSend(t)
    <2>1. /\ mint' = mint /\ paying' = paying /\ lost' = lost /\ counter' = counter
          /\ store' = store
      BY <1>2, Zenon DEF PrepareSend
    <2>2. PICK send \in SUBSET Proof, ins \in SUBSET Proof : Take(t, "send", send, ins)
      BY <1>2, Zenon DEF PrepareSend, Rows
    <2> QED
      BY <1>1, <2>1, <2>2, NoStoreStep, TakeTask, Zenon DEF Quiet
  <1>3. CASE Reserve(t)
    <2>1. /\ mint' = mint /\ paying' = paying /\ lost' = lost /\ counter' = counter
          /\ store' = UpdateProofsState(Hands(t), "Reserved")
          /\ Go(t, "prepared")
      BY <1>3, Zenon DEF Reserve, history
    <2>2. StoreStep
      BY <2>1, StateStep, Zenon DEF StoreState
    <2> QED
      BY <1>1, <2>1, <2>2, GoTask, Zenon DEF Quiet
  <1>4. CASE Confirm(t)
    <2>1. mint' = mint /\ paying' = paying /\ lost' = lost
      BY <1>4, Zenon DEF Confirm, history
    <2>2. CASE Go(t, "swapped") /\ store' = store /\ counter' = counter
      BY <1>1, <2>1, <2>2, NoStoreStep, GoTask, Zenon DEF Quiet
    <2>3. CASE CreateSwap(t, "send", task[t].send, task[t].ins, Cardinality(task[t].ins))
      BY <1>1, <2>1, <2>3, CreateSwapTask, Zenon DEF Quiet
    <2> QED
      BY <1>4, <2>2, <2>3, Zenon DEF Confirm
  <1>5. CASE ConfirmCheck(t)
    <2>1. /\ mint' = mint /\ paying' = paying /\ lost' = lost /\ counter' = counter
          /\ store' = store
          /\ Go(t, "checked") \/ End(t)
      BY <1>5, Zenon DEF ConfirmCheck, history
    <2> QED
      BY <1>1, <2>1, NoStoreStep, GoTask, EndTask, Zenon DEF Quiet
  <1>6. CASE ConfirmSend(t)
    <2>1. /\ mint' = mint /\ paying' = paying /\ lost' = lost /\ counter' = counter
          /\ store' = UpdateProofsState(task[t].send, "PendingSpent")
          /\ End(t)
      BY <1>6, Zenon DEF ConfirmSend
    <2>2. StoreStep
      BY <2>1, StateStep, Zenon DEF StoreState
    <2> QED
      BY <1>1, <2>1, <2>2, EndTask, Zenon DEF Quiet
  <1>7. CASE CancelCheck(t)
    <2>1. /\ mint' = mint /\ paying' = paying /\ lost' = lost /\ counter' = counter
          /\ store' = store
          /\ Go(t, "cancelling") \/ End(t)
      BY <1>7, Zenon DEF CancelCheck, history
    <2> QED
      BY <1>1, <2>1, NoStoreStep, GoTask, EndTask, Zenon DEF Quiet
  <1>8. CASE Cancel(t)
    <2>1. /\ mint' = mint /\ paying' = paying /\ lost' = lost /\ counter' = counter
          /\ store' = UpdateProofsState(Hands(t), "Unspent")
          /\ End(t)
      BY <1>8, Zenon DEF Cancel, history
    <2>2. StoreStep
      BY <2>1, StateStep, Zenon DEF StoreState
    <2> QED
      BY <1>1, <2>1, <2>2, EndTask, Zenon DEF Quiet
  <1> QED
    BY <1>2, <1>3, <1>4, <1>5, <1>6, <1>7, <1>8, Zenon

(***************************************************************************)
(* receive, mint, melt, reclaim_unspent, revert_transaction and            *)
(* check_all_pending_proofs.                                               *)
(***************************************************************************)
LEMMA RequestSteps ==
    ASSUME WalletInv, NEW t \in Task,
           \/ Receive(t) \/ ReceiveSwap(t) \/ MintTokens(t) \/ MeltSelect(t) \/ Exchange(t)
           \/ Melt(t) \/ Reclaim(t) \/ RevertTransaction(t) \/ CheckAllPendingProofs(t)
    PROVE  Quiet(t)
  <1>1. /\ counter \in counter..MaxIndex /\ counter \in Nat /\ MaxIndex \in Nat
        /\ task[t].send \in SUBSET Proof /\ task[t].ins \in SUBSET Proof
        /\ task \in [Task -> TaskRec] /\ task[t] \in TaskRec
    BY WalletConstants DEF WalletInv, Types, TaskRec
  <1>2. CASE Receive(t)
    <2>1. /\ mint' = mint /\ paying' = paying /\ lost' = lost /\ counter' = counter
          /\ store' = [p \in Proof |-> IF p \in task'[t].ins THEN "Pending" ELSE store[p]]
      BY <1>2, Zenon DEF Receive
    <2>2. PICK f \in SUBSET Foreign : Take(t, "receive", {}, f)
      BY <1>2, Zenon DEF Receive
    <2>3. task'[t].ins = f
      BY <1>1, <2>2, Zenon DEF Take, Start, Idle
    <2>4. StoreStep
      <3>1. store' \in [Proof -> StoreState]
        BY <2>1, Zenon DEF WalletInv, Types, StoreState
      <3>2. \A p \in Proof : store'[p] = IF p \in f THEN "Pending" ELSE store[p]
        BY <2>1, <2>3, Zenon
      <3> QED
        BY <3>1, <3>2, Zenon DEF WalletInv, Ledger, StoreStep
    <2>5. TaskStep(t)
      BY <2>2, TakeTask, Zenon DEF Proof
    <2> QED
      BY <1>1, <2>1, <2>4, <2>5, Zenon DEF Quiet
  <1>3. CASE ReceiveSwap(t)
    <2>1. /\ mint' = mint /\ paying' = paying /\ lost' = lost
          /\ CreateSwap(t, "receive", {}, task[t].ins, Cardinality(task[t].ins))
      BY <1>3, Zenon DEF ReceiveSwap, history
    <2>2. Cardinality(task[t].ins) \in Nat
      BY <1>1, Counted, Zenon
    <2> QED
      BY <1>1, <2>1, <2>2, CreateSwapTask, Zenon DEF Quiet
  <1>4. CASE MintTokens(t)
    <2>1. /\ mint' = mint /\ paying' = paying /\ lost' = lost
          /\ counter' = counter + 1 /\ counter < MaxIndex /\ store' = store
      BY <1>4, Zenon DEF MintTokens, history
    <2> DEFINE new == [Idle EXCEPT !.op = "mint", !.pc = "posting", !.outs = Derived(1)]
    <2>2. Derived(1) = (counter + 1)..counter' /\ Derived(1) \subseteq Index
      BY <1>1, <2>1 DEF Derived, Index
    <2>3. /\ new \in TaskRec
          /\ new.pc \notin {"ok", "waiting"}
          /\ new.outs \subseteq (counter + 1)..counter'
      BY <2>2, Zenon DEF Idle, TaskRec
    <2>4. task' = [task EXCEPT ![t] = new]
      BY <1>4, Zenon DEF MintTokens, Start
    <2> HIDE DEF new
    <2>5. TaskStep(t)
      BY <2>3, <2>4, NewTask, Zenon
    <2> QED
      BY <1>1, <2>1, <2>5, NoStoreStep DEF Quiet
  <1>5. CASE MeltSelect(t)
    <2>1. /\ mint' = mint /\ paying' = paying /\ lost' = lost /\ counter' = counter
          /\ store' = store
      BY <1>5, Zenon DEF MeltSelect
    <2>2. PICK op \in {"exchange", "melt"}, send \in SUBSET Proof, ins \in SUBSET Proof :
              Take(t, op, send, ins)
      BY <1>5, Zenon DEF MeltSelect, Rows
    <2> QED
      BY <1>1, <2>1, <2>2, NoStoreStep, TakeTask, Zenon DEF Quiet
  <1>6. CASE Melt(t)
    <2>1. /\ mint' = mint /\ paying' = paying /\ lost' = lost
          /\ counter' = counter + 1 /\ counter < MaxIndex
          /\ store' = UpdateProofsState(task[t].ins, "Pending")
          /\ task' = [task EXCEPT ![t].pc = "posting", ![t].outs = Derived(1)]
      BY <1>6, Zenon DEF Melt
    <2>2. Derived(1) = (counter + 1)..counter' /\ Derived(1) \subseteq Index
      BY <1>1, <2>1 DEF Derived, Index
    <2> DEFINE new == [task[t] EXCEPT !.pc = "posting", !.outs = Derived(1)]
    <2>3. task' = [task EXCEPT ![t] = new]
      BY <1>1, <2>1, Zenon
    <2>4. /\ new \in TaskRec
          /\ new.pc \notin {"ok", "waiting"}
          /\ new.outs \subseteq (counter + 1)..counter'
      BY <1>1, <2>2, Zenon DEF TaskRec
    <2> HIDE DEF new
    <2>5. TaskStep(t)
      BY <2>3, <2>4, NewTask, Zenon
    <2>6. StoreStep
      BY <2>1, StateStep, Zenon DEF StoreState
    <2> QED
      BY <1>1, <2>1, <2>5, <2>6 DEF Quiet
  <1>7. CASE Reclaim(t)
    <2>1. mint' = mint /\ paying' = paying /\ lost' = lost
      BY <1>7, Zenon DEF Reclaim, history
    <2> DEFINE ys == Reclaimable(task[t].ins)
    <2>2. CASE CreateSwap(t, "reclaim", {}, ys, Cardinality(ys))
      <3>1. ys \in SUBSET Proof /\ Cardinality(ys) \in Nat
        BY <1>1, Counted, Zenon DEF Reclaimable
      <3> QED
        BY <2>1, <2>2, <3>1, CreateSwapTask, Zenon DEF Quiet
    <2>3. CASE End(t) /\ store' = store /\ counter' = counter
      BY <1>1, <2>1, <2>3, NoStoreStep, EndTask, Zenon DEF Quiet
    <2> QED
      BY <1>7, <2>2, <2>3, Zenon DEF Reclaim
  <1>8. CASE RevertTransaction(t)
    <2>1. /\ mint' = mint /\ paying' = paying /\ lost' = lost /\ counter' = counter
          /\ store' = store
      BY <1>8, Zenon DEF RevertTransaction, history
    <2>2. PICK ys \in SUBSET Proof :
              task' = [task EXCEPT ![t] = [Idle EXCEPT !.op = "revert", !.pc = "reclaim",
                                                       !.ins = ys]]
      BY <1>8, Zenon DEF RevertTransaction, Start, Rows
    <2> DEFINE new == [Idle EXCEPT !.op = "revert", !.pc = "reclaim", !.ins = ys]
    <2>3. /\ new \in TaskRec
          /\ new.pc \notin {"ok", "waiting"}
          /\ new.outs \subseteq (counter + 1)..counter'
      BY Zenon DEF Idle, TaskRec
    <2>4. task' = [task EXCEPT ![t] = new]
      BY <2>2, Zenon
    <2> HIDE DEF new
    <2>5. TaskStep(t)
      BY <2>3, <2>4, NewTask, Zenon
    <2> QED
      BY <1>1, <2>1, <2>5, NoStoreStep, Zenon DEF Quiet
  <1>9. CASE CheckAllPendingProofs(t)
    <2>1. /\ mint' = mint /\ paying' = paying /\ lost' = lost /\ counter' = counter
          /\ task' = task /\ task[t].pc = "idle"
      BY <1>9, Zenon DEF CheckAllPendingProofs, history
    <2>2. PICK spent : /\ \A p \in spent : mint[p] = "Spent"
                       /\ store' = UpdateProofs({}, {}, spent)
      BY <1>9, Zenon DEF CheckAllPendingProofs
    <2>3. StoreStep
      BY <2>2, RowsStep
    <2>4. TaskStep(t)
      BY <1>1, <2>1, Zenon DEF TaskStep
    <2> QED
      BY <1>1, <2>1, <2>3, <2>4, Zenon DEF Quiet
  <1>10. CASE Exchange(t)
    <2>1. /\ mint' = mint /\ paying' = paying /\ lost' = lost
          /\ CreateSwap(t, "exchange", task[t].send, task[t].ins, 2)
      BY <1>10, Zenon DEF Exchange, history
    <2>2. 2 \in Nat
      OBVIOUS
    <2> QED
      BY <1>1, <2>1, <2>2, CreateSwapTask, Zenon DEF Quiet
  <1> QED
    BY <1>2, <1>3, <1>4, <1>5, <1>6, <1>7, <1>8, <1>9, <1>10, Zenon

(***************************************************************************)
(* After a swap a task ends, goes on with its token, or goes on to melt.   *)
(***************************************************************************)
LEMMA ContinueCases ==
    ASSUME NEW t \in Task, NEW proofs, Continue(t, proofs)
    PROVE  \/ End(t)
           \/ task' = [task EXCEPT ![t] = [Idle EXCEPT !.op = "send", !.pc = "swapped",
                                                       !.send = proofs]]
           \/ /\ proofs # {}
              /\ task' = [task EXCEPT ![t] = [Idle EXCEPT !.op = "melt", !.pc = "selected",
                                                          !.ins = proofs]]
  BY DEF Continue

(***************************************************************************)
(* It has no outputs then.                                                 *)
(***************************************************************************)
LEMMA ContinueTask ==
    ASSUME WalletInv, NEW t \in Task, NEW proofs \in SUBSET Proof, Continue(t, proofs)
    PROVE  TaskStep(t)
  <1> DEFINE sent == [Idle EXCEPT !.op = "send", !.pc = "swapped", !.send = proofs]
             melt == [Idle EXCEPT !.op = "melt", !.pc = "selected", !.ins = proofs]
  <1>1. End(t) \/ task' = [task EXCEPT ![t] = sent] \/ task' = [task EXCEPT ![t] = melt]
    BY ContinueCases, Zenon
  <1>2. /\ sent \in TaskRec
        /\ sent.pc \notin {"ok", "waiting"}
        /\ sent.outs \subseteq (counter + 1)..counter'
    BY Zenon DEF Idle, TaskRec
  <1>3. /\ melt \in TaskRec
        /\ melt.pc \notin {"ok", "waiting"}
        /\ melt.outs \subseteq (counter + 1)..counter'
    BY Zenon DEF Idle, TaskRec
  <1> HIDE DEF sent, melt
  <1> QED
    BY <1>1, <1>2, <1>3, EndTask, NewTask, Zenon

(***************************************************************************)
(* What a task does with the answer to its request.  Only here do rows     *)
(* disappear, and Answers says that their proofs are spent.                *)
(***************************************************************************)
LEMMA AnswerSteps ==
    ASSUME WalletInv, NEW t \in Task,
           PostFails(t) \/ SwapOk(t) \/ MeltOk(t) \/ Fail(t) \/ Drop(t)
    PROVE  Quiet(t)
  <1>1. /\ counter \in counter..MaxIndex /\ counter \in Nat /\ MaxIndex \in Nat
        /\ task[t].send \in SUBSET Proof /\ task[t].outs \in SUBSET Index
        /\ Index \subseteq Proof
    BY WalletConstants DEF WalletInv, Types, TaskRec, Proof
  <1>2. CASE PostFails(t)
    <2>1. /\ mint' = mint /\ paying' = paying /\ lost' = lost /\ counter' = counter
          /\ store' = store /\ Go(t, "failed")
      BY <1>2, Zenon DEF PostFails, history
    <2> QED
      BY <1>1, <2>1, NoStoreStep, GoTask, Zenon DEF Quiet
  <1>3. CASE SwapOk(t)
    <2>1. /\ mint' = mint /\ paying' = paying /\ lost' = lost
          /\ task[t].pc = "ok" /\ task[t].op # "melt"
      BY <1>3, Zenon DEF SwapOk
    <2>2. counter' \in counter..MaxIndex
      <3>1. Cardinality(task[t].outs) \in Nat
        BY <1>1, Counted, Zenon
      <3>2. PICK again \in {Cardinality(task[t].outs), 0} :
                counter + again <= MaxIndex /\ counter' = counter + again
        BY <1>3, Zenon DEF SwapOk
      <3> QED
        BY <1>1, <3>1, <3>2
    <2>3. PICK send \in SUBSET task[t].outs :
              /\ store' = UpdateProofs(send, task[t].outs \ send, task[t].ins)
              /\ Continue(t, task[t].send \cup send)
      BY <1>3, Zenon DEF SwapOk
    <2>4. StoreStep
      <3>1. /\ \A p \in send \cup (task[t].outs \ send) : mint[p] # "unsigned"
            /\ \A p \in task[t].ins : mint[p] = "Spent"
        BY <2>1, Zenon DEF WalletInv, Answers
      <3> QED
        BY <2>3, <3>1, RowsStep
    <2>5. TaskStep(t)
      <3>1. task[t].send \cup send \in SUBSET Proof
        BY <1>1, Zenon
      <3> QED
        BY <2>3, <3>1, ContinueTask, Zenon
    <2> QED
      BY <2>1, <2>2, <2>4, <2>5, Zenon DEF Quiet
  <1>4. CASE MeltOk(t)
    <2>1. /\ mint' = mint /\ paying' = paying /\ lost' = lost /\ counter' = counter
          /\ task[t].pc = "ok" /\ End(t)
      BY <1>4, Zenon DEF MeltOk
    <2>2. PICK change : /\ \A i \in change : mint[i] # "unsigned"
                        /\ store' = UpdateProofs({}, change, task[t].ins)
      BY <1>4, Zenon DEF MeltOk
    <2>3. StoreStep
      <3>1. \A p \in task[t].ins : mint[p] = "Spent"
        BY <2>1, Zenon DEF WalletInv, Answers
      <3> QED
        BY <2>2, <3>1, RowsStep
    <2> QED
      BY <1>1, <2>1, <2>3, EndTask, Zenon DEF Quiet
  <1>5. CASE Fail(t)
    <2>1. /\ mint' = mint /\ paying' = paying /\ lost' = lost /\ counter' = counter
          /\ store' = store
          /\ Go(t, "reclaim") \/ End(t)
      BY <1>5, Zenon DEF Fail, history
    <2> QED
      BY <1>1, <2>1, NoStoreStep, GoTask, EndTask, Zenon DEF Quiet
  <1>6. CASE Drop(t)
    <2>1. /\ mint' = mint /\ paying' = paying /\ lost' = lost /\ counter' = counter
          /\ store' = store /\ End(t)
      BY <1>6, Zenon DEF Drop, history
    <2> QED
      BY <1>1, <2>1, NoStoreStep, EndTask, Zenon DEF Quiet
  <1> QED
    BY <1>2, <1>3, <1>4, <1>5, <1>6, Zenon

(***************************************************************************)
(* restore: a row is stored for what is signed, removed for what is spent. *)
(***************************************************************************)
LEMMA RestoreSteps ==
    ASSUME WalletInv, NEW t \in Task,
           Restore(t) \/ RestoreBatch(t) \/ RestoreDone(t)
    PROVE  Quiet(t)
  <1>1. /\ counter \in counter..MaxIndex /\ counter \in Nat /\ MaxIndex \in Nat
        /\ Index \subseteq Proof
        /\ task \in [Task -> TaskRec] /\ task[t] \in TaskRec
    BY WalletConstants DEF WalletInv, Types, Proof
  <1>2. CASE Restore(t)
    <2>1. /\ mint' = mint /\ paying' = paying /\ lost' = lost /\ counter' = counter
          /\ store' = store
      BY <1>2, Zenon DEF Restore
    <2> DEFINE new == [Idle EXCEPT !.op = "restore", !.pc = "restore"]
    <2>2. task' = [task EXCEPT ![t] = new]
      BY <1>2, Zenon DEF Restore, Start
    <2>3. /\ new \in TaskRec
          /\ new.pc \notin {"ok", "waiting"}
          /\ new.outs \subseteq (counter + 1)..counter'
      BY Zenon DEF Idle, TaskRec
    <2> HIDE DEF new
    <2>4. TaskStep(t)
      BY <2>2, <2>3, NewTask, Zenon
    <2> QED
      BY <1>1, <2>1, <2>4, NoStoreStep, Zenon DEF Quiet
  <1>3. CASE RestoreBatch(t)
    <2> DEFINE found == {i \in Asked(t) : mint[i] # "unsigned"}
               spent == {i \in found : mint[i] = "Spent"}
    <2>1. /\ mint' = mint /\ paying' = paying /\ lost' = lost
          /\ counter' = counter + Cardinality(found) /\ counter' <= MaxIndex
          /\ store' = UpdateProofs({}, found, spent)
          /\ task[t].pc = "restore"
          /\ task' = [task EXCEPT ![t].from = @ + Batch,
                                  ![t].empty = IF found = {} THEN @ + 1 ELSE 0]
      BY <1>3, Zenon DEF RestoreBatch
    <2>2. /\ found \subseteq Proof
          /\ \A p \in {} \cup found : mint[p] # "unsigned"
          /\ \A p \in spent : mint[p] = "Spent"
      BY <1>1, Zenon DEF Asked
    <2> HIDE DEF found, spent
    <2>3. counter' \in counter..MaxIndex
      <3>1. Cardinality(found) \in Nat
        BY <2>2, Counted, Zenon
      <3> QED
        BY <1>1, <2>1, <3>1
    <2>4. StoreStep
      BY <2>1, <2>2, RowsStep, Zenon
    <2>5. TaskStep(t)
      <3> DEFINE new == [task[t] EXCEPT !.from = @ + Batch,
                                        !.empty = IF found = {} THEN @ + 1 ELSE 0]
      <3>1. task' = [task EXCEPT ![t] = new]
        BY <1>1, <2>1, Zenon
      <3>2. new \in TaskRec /\ new.pc = "restore" /\ new.outs = task[t].outs
        <4> DEFINE from == task[t].from + Batch
                   empty == IF found = {} THEN task[t].empty + 1 ELSE 0
        <4>1. task[t].from \in Nat /\ task[t].empty \in Nat
          BY <1>1, Zenon DEF TaskRec
        <4>2. from \in Nat /\ empty \in Nat
          BY <4>1, WalletConstants
        <4>3. new = [task[t] EXCEPT !.from = from, !.empty = empty]
          BY Zenon
        <4> HIDE DEF new, from, empty
        <4> QED
          BY <1>1, <2>1, <4>2, <4>3, Zenon DEF TaskRec
      <3> HIDE DEF new
      <3>3. /\ task' \in [Task -> TaskRec] /\ task'[t] = new
            /\ \A u \in Task \ {t} : task'[u] = task[u]
        BY <1>1, <3>1, <3>2, Zenon
      <3> QED
        BY <3>2, <3>3, Zenon DEF TaskStep
    <2> QED
      BY <2>1, <2>3, <2>4, <2>5, Zenon DEF Quiet
  <1>4. CASE RestoreDone(t)
    <2>1. /\ mint' = mint /\ paying' = paying /\ lost' = lost /\ counter' = counter
          /\ store' = store /\ End(t)
      BY <1>4, Zenon DEF RestoreDone
    <2> QED
      BY <1>1, <2>1, NoStoreStep, EndTask, Zenon DEF Quiet
  <1> QED
    BY <1>2, <1>3, <1>4, Zenon

-----------------------------------------------------------------------------
(***************************************************************************)
(* Every step of a task is a quiet one or one of the mint's.               *)
(***************************************************************************)
LEMMA TaskKinds ==
    ASSUME WalletInv, NEW t \in Task, Step(t)
    PROVE  Quiet(t) \/ Execute(t) \/ StartPayment(t)
  <1>1. CASE \/ PrepareSend(t) \/ Reserve(t) \/ Confirm(t) \/ ConfirmCheck(t)
             \/ ConfirmSend(t) \/ CancelCheck(t) \/ Cancel(t)
    BY <1>1, SendSteps, Zenon
  <1>2. CASE \/ Receive(t) \/ ReceiveSwap(t) \/ MintTokens(t) \/ MeltSelect(t) \/ Exchange(t)
             \/ Melt(t) \/ Reclaim(t) \/ RevertTransaction(t) \/ CheckAllPendingProofs(t)
    BY <1>2, RequestSteps, Zenon
  <1>3. CASE PostFails(t) \/ SwapOk(t) \/ MeltOk(t) \/ Fail(t) \/ Drop(t)
    BY <1>3, AnswerSteps, Zenon
  <1>4. CASE Restore(t) \/ RestoreBatch(t) \/ RestoreDone(t)
    BY <1>4, RestoreSteps, Zenon
  <1> QED
    BY <1>1, <1>2, <1>3, <1>4, Zenon DEF Step

(***************************************************************************)
(* Every step is one of a task, a payment's end, a redemption, or the loss *)
(* of the store.                                                           *)
(***************************************************************************)
LEMMA StepKinds ==
    ASSUME WalletInv, Next
    PROVE  \/ \E t \in Task : Quiet(t) \/ Execute(t) \/ StartPayment(t)
           \/ \E m \in paying : EndPayment(m)
           \/ \E p \in Proof : Redeem(p)
           \/ LoseStore
  BY TaskKinds, Zenon DEF Next

(***************************************************************************)
(* Every step of the wallet, the mint and the network keeps the invariant. *)
(***************************************************************************)
LEMMA WalletNext == WalletInv /\ [Next]_vars => WalletInv'
  <1> SUFFICES ASSUME WalletInv, [Next]_vars PROVE WalletInv'
    BY Zenon
  <1>1. CASE Next
    BY <1>1, StepKinds, QuietStep, ExecuteStep, StartPaymentStep, EndPaymentStep,
       RedeemStep, LoseStoreStep, SMTT(30)
  <1>2. CASE UNCHANGED vars
    BY <1>2 DEF vars, WalletInv, Types, Ledger, Answers, FreshSecrets, Unsigned
  <1> QED
    BY <1>1, <1>2, Zenon

(***************************************************************************)
(* The inductive invariant of the wallet.                                  *)
(***************************************************************************)
THEOREM WalletInvariant == Spec => []WalletInv
  BY WalletInit, WalletNext, PTL DEF Spec

(***************************************************************************)
(* Rows, counter and tasks have their types, and the wallet has no row for *)
(* a proof that the mint has not signed.                                   *)
(***************************************************************************)
THEOREM WalletTypeCorrect == Spec => []TypeOK
  <1>1. WalletInv => TypeOK
    BY Zenon DEF WalletInv, Types, Ledger, TypeOK
  <1> QED
    BY <1>1, WalletInvariant, PTL

(***************************************************************************)
(* Until the store is lost no secret is part of two requests, whatever     *)
(* tasks run at once and wherever one of them stops                        *)
(* (increment_keyset_counter).                                             *)
(***************************************************************************)
THEOREM SecretsAreFresh == Spec => []FreshSecrets
  <1>1. WalletInv => FreshSecrets
    BY Zenon DEF WalletInv
  <1> QED
    BY <1>1, WalletInvariant, PTL

(***************************************************************************)
(* A row is removed only when its proof is spent at the mint: by the       *)
(* answer to a swap or a melt, by check_all_pending_proofs or by restore.  *)
(***************************************************************************)
THEOREM DeletedWasSpent == Spec => DeletedIsSpent
  <1> DEFINE Removed == \A p \in Proof :
                 store[p] # "none" /\ store'[p] = "none" => mint'[p] = "Spent" \/ LoseStore
  <1>1. ASSUME WalletInv, [Next]_vars PROVE [Removed]_vars
    <2>1. ASSUME NEW t \in Task, Quiet(t) PROVE Removed
      BY <2>1, Zenon DEF Quiet, StoreStep
    <2>2. ASSUME store' = store PROVE Removed
      BY <2>2, Zenon
    <2>3. CASE Next
      <3>1. CASE \E t \in Task : Quiet(t)
        BY <2>1, <3>1, Zenon
      <3>2. CASE \E t \in Task : Execute(t) \/ StartPayment(t)
        BY <2>2, <3>2, Zenon DEF Execute, StartPayment
      <3>3. CASE (\E m \in paying : EndPayment(m)) \/ \E p \in Proof : Redeem(p)
        BY <2>2, <3>3, Zenon DEF EndPayment, Redeem
      <3>4. CASE LoseStore
        BY <3>4, Zenon
      <3> QED
        BY <1>1, <2>3, <3>1, <3>2, <3>3, <3>4, StepKinds, Zenon
    <2> QED
      BY <1>1, <2>3, Zenon
  <1> QED
    BY <1>1, WalletInvariant, PTL DEF Spec, DeletedIsSpent

-----------------------------------------------------------------------------
(* A proof is given away once.                                             *)

(***************************************************************************)
(* What task t may still give away, or show as unspent again: the proofs   *)
(* of its token, and its inputs until they are part of a request.          *)
(***************************************************************************)
Claims(t) ==
    IF \/ task[t].pc \in {"prepared", "cancelling"}
       \/ task[t].pc = "selected" /\ task[t].op # "receive"
    THEN task[t].send \cup task[t].ins
    ELSE task[t].send

\* The outputs of task t that are signed and that it has no rows for yet.
New(t) == {i \in task[t].outs : task[t].pc = "ok" /\ mint[i] # "unsigned"}

\* No two tasks have derived the same secret, whether or not the store was lost.
Apart ==
    /\ \A t \in Task : \A i \in task[t].outs : i <= counter
    /\ \A t, u \in Task : t # u => task[t].outs \cap task[u].outs = {}

\* What was given away, or may be, is signed.
Backed ==
    \A p \in Proof : /\ given[p] \in Nat
                     /\ given[p] > 0 => mint[p] # "unsigned"
                     /\ \A t \in Task : p \in Claims(t) => mint[p] # "unsigned"

\* GivenOnce, and nobody claims what is given away or what another task claims.
Exclusive ==
    \A p \in Proof \ shared :
        /\ given[p] <= 1
        /\ given[p] = 1 => store[p] # "Unspent" /\ \A t \in Task : p \notin Claims(t)
        /\ \A t, u \in Task : p \in Claims(t) /\ p \in Claims(u) => t = u

\* Nobody has seen a new proof, and the mint signs nothing more for its task.
Unseen ==
    \A t \in Task :
        /\ \A i \in New(t) : /\ store[i] = "none" /\ given[i] = 0
                             /\ \A u \in Task : i \notin Claims(u)
        /\ task[t].pc = "ok" =>
              \A i \in task[t].outs :
                  mint[i] = "unsigned" => \A m \in paying : i \notin m.outs

\* A restore is under way only if one has begun.
Unrestored == \A t \in Task : task[t].pc # "restore"

\* A task that waits for a payment waits for its own.
OwnPayment ==
    /\ \A t \in Task : task[t].op = "melt" /\ task[t].pc \in {"selected", "posting", "waiting"} =>
           task[t].ins # {} /\ task[t].send = {}
    /\ \A t \in Task : task[t].pc = "waiting" =>
           [ins |-> task[t].ins, outs |-> task[t].outs] \in paying
    /\ \A t, u \in Task :
           task[t].pc = "waiting" /\ task[u].pc = "waiting" /\ task[t].ins = task[u].ins => t = u

(***************************************************************************)
(* The inductive invariant of GivenOnce, as long as no restore has run.    *)
(***************************************************************************)
GivenInv ==
    ~restored => Apart /\ Backed /\ Exclusive /\ Unseen /\ OwnPayment /\ Unrestored

\* What a task may do to claims, rows and tokens while the mint does nothing.
ClaimStep(t) ==
    /\ restored' = restored
    /\ shared \subseteq shared'
    /\ \A p \in Proof :
           \/ given'[p] = given[p]
           \/ /\ given'[p] = given[p] + 1
              /\ p \in Claims(t) /\ p \notin Claims(t)' /\ store'[p] # "Unspent"
    /\ \A p \in Claims(t)' :
           \/ p \in Claims(t) \cup New(t)
           \/ store[p] = "Unspent" /\ (p \in shared' \/ \A u \in Task \ {t} : p \notin Claims(u))
    /\ \A p \in Proof : store'[p] = "Unspent" =>
           store[p] = "Unspent" \/ p \in Claims(t) \cup New(t)
    /\ \A i \in Index : store'[i] # "none" => store[i] # "none" \/ i \in New(t)
    /\ task'[t].pc # "restore"
    /\ task'[t].op = "melt" /\ task'[t].pc \in {"selected", "posting"} =>
           task'[t].ins # {} /\ task'[t].send = {}

(***************************************************************************)
(* Such a step keeps the invariant: it claims only what it saw unspent or  *)
(* what is new to it, and gives away only what it claimed.                 *)
(***************************************************************************)
LEMMA ClaimStepKeeps ==
    ASSUME WalletInv, GivenInv, NEW t \in Task, Quiet(t), ClaimStep(t)
    PROVE  GivenInv'
  <1> SUFFICES ASSUME ~restored
               PROVE  Apart' /\ Backed' /\ Exclusive' /\ Unseen' /\ OwnPayment' /\ Unrestored'
    BY Zenon DEF ClaimStep, GivenInv
  <1>1. /\ Apart /\ Backed /\ Exclusive /\ Unseen /\ OwnPayment /\ Unrestored
        /\ mint' = mint /\ paying' = paying
        /\ counter \in Nat /\ counter' \in Nat /\ counter <= counter'
        /\ \A u \in Task \ {t} : task'[u] = task[u]
        /\ task'[t].pc \notin {"ok", "waiting"}
        /\ \/ task'[t].outs \subseteq (counter + 1)..counter'
           \/ task'[t].outs \subseteq task[t].outs
    BY WalletConstants DEF GivenInv, WalletInv, Types, Quiet, TaskStep
  <1>2. /\ \A u \in Task : /\ Claims(u) \subseteq Proof /\ Claims(u)' \subseteq Proof
                           /\ task[u].outs \subseteq Index
        /\ Index \subseteq Proof /\ \A i \in Index : i \in Nat
    <2>1. \A u \in Task : task[u] \in TaskRec /\ task'[u] \in TaskRec
      BY Zenon DEF WalletInv, Types, Quiet, TaskStep
    <2>2. \A u \in Task : Claims(u) \subseteq Proof /\ Claims(u)' \subseteq Proof
      BY <2>1, Zenon DEF Claims, TaskRec
    <2> QED
      BY <2>1, <2>2 DEF TaskRec, Index, Proof
  <1>3. \A u \in Task \ {t} : /\ Claims(u)' = Claims(u)
                              /\ New(u)' = New(u)
    BY <1>1, Zenon DEF Claims, New
  <1>4. New(t)' = {}
    BY <1>1, Zenon DEF New
  <1>5. Apart'
    <2>1. \A u \in Task : \A i \in task[u].outs : i \in Nat /\ i <= counter
      BY <1>1, <1>2, Zenon DEF Apart
    <2>2. \A i \in task'[t].outs : i <= counter' /\ (i \in task[t].outs \/ i > counter)
      BY <1>1, <2>1
    <2>3. \A u \in Task : \A i \in task'[u].outs : i <= counter'
      BY <1>1, <2>1, <2>2
    <2>4. \A u \in Task \ {t} : task'[t].outs \cap task'[u].outs = {}
      BY <1>1, <2>1, <2>2 DEF Apart
    <2>5. \A u, v \in Task : u # v => task'[u].outs \cap task'[v].outs = {}
      <3>1. \A u, v \in Task \ {t} : u # v => task'[u].outs \cap task'[v].outs = {}
        BY <1>1 DEF Apart
      <3> QED
        BY <2>4, <3>1
    <2> QED
      BY <2>3, <2>5, Zenon DEF Apart
  <1>6. \A p \in New(t) : /\ store[p] = "none" /\ given[p] = 0 /\ mint[p] # "unsigned"
                          /\ \A u \in Task : p \notin Claims(u)
    BY <1>1, Zenon DEF Unseen, New
  <1>7. \A p \in Proof : store[p] # "none" => mint[p] # "unsigned"
    BY Zenon DEF WalletInv, Ledger
  <1>8. Backed'
    <2>1. \A p \in Claims(t)' : mint[p] # "unsigned"
      BY <1>1, <1>2, <1>6, <1>7, Zenon DEF ClaimStep, Backed
    <2>2. \A p \in Proof : given'[p] \in Nat /\ (given'[p] > 0 => mint[p] # "unsigned")
      <3> SUFFICES ASSUME NEW p \in Proof
                   PROVE  given'[p] \in Nat /\ (given'[p] > 0 => mint[p] # "unsigned")
        BY Zenon
      <3>1. /\ given[p] \in Nat /\ (given[p] > 0 => mint[p] # "unsigned")
            /\ p \in Claims(t) => mint[p] # "unsigned"
        BY <1>1, Zenon DEF Backed
      <3>2. given'[p] = given[p] \/ (given'[p] = given[p] + 1 /\ p \in Claims(t))
        BY Zenon DEF ClaimStep
      <3> QED
        BY <3>1, <3>2
    <2> QED
      BY <1>1, <1>3, <2>1, <2>2, Zenon DEF Backed
  <1>9. Exclusive'
    <2> SUFFICES ASSUME NEW p \in Proof, p \notin shared'
                 PROVE  /\ given'[p] <= 1
                        /\ given'[p] = 1 => store'[p] # "Unspent"
                                            /\ \A u \in Task : p \notin Claims(u)'
                        /\ \A u, v \in Task : p \in Claims(u)' /\ p \in Claims(v)' => u = v
      BY Zenon DEF Exclusive
    <2>1. /\ given[p] \in Nat /\ given[p] <= 1
          /\ given[p] = 1 => store[p] # "Unspent" /\ \A u \in Task : p \notin Claims(u)
          /\ \A u, v \in Task : p \in Claims(u) /\ p \in Claims(v) => u = v
      BY <1>1, Zenon DEF ClaimStep, Exclusive, Backed
    <2>2. \/ given'[p] = given[p]
          \/ /\ given'[p] = given[p] + 1
             /\ p \in Claims(t) /\ p \notin Claims(t)' /\ store'[p] # "Unspent"
      BY Zenon DEF ClaimStep
    <2>3. p \in Claims(t)' =>
              \/ p \in Claims(t) \/ p \in New(t)
              \/ store[p] = "Unspent" /\ \A u \in Task \ {t} : p \notin Claims(u)
      BY Zenon DEF ClaimStep
    <2>4. store'[p] = "Unspent" => store[p] = "Unspent" \/ p \in Claims(t) \/ p \in New(t)
      BY Zenon DEF ClaimStep
    <2>5. \A u, v \in Task : p \in Claims(u)' /\ p \in Claims(v)' => u = v
      BY <1>3, <1>6, <2>1, <2>3, SMTT(30)
    <2>6. CASE given'[p] = given[p]
      <3>1. given[p] = 1 => store'[p] # "Unspent" /\ \A u \in Task : p \notin Claims(u)'
        BY <1>3, <1>6, <2>1, <2>3, <2>4, SMTT(30)
      <3> QED
        BY <2>1, <2>5, <2>6, <3>1, SMTT(30)
    <2>7. CASE /\ given'[p] = given[p] + 1
               /\ p \in Claims(t) /\ p \notin Claims(t)' /\ store'[p] # "Unspent"
      <3>1. \A u \in Task : p \notin Claims(u)'
        BY <1>3, <2>1, <2>7, Zenon
      <3>2. given[p] = 0
        BY <2>1, <2>7
      <3> QED
        BY <2>5, <2>7, <3>1, <3>2
    <2> QED
      BY <2>2, <2>6, <2>7, Zenon
  <1>10. Unseen'
    <2> SUFFICES ASSUME NEW u \in Task
                 PROVE  /\ \A i \in New(u)' : /\ store'[i] = "none" /\ given'[i] = 0
                                              /\ \A v \in Task : i \notin Claims(v)'
                        /\ task'[u].pc = "ok" =>
                              \A i \in task'[u].outs : mint'[i] = "unsigned" =>
                                  \A m \in paying' : i \notin m.outs
      BY Zenon DEF Unseen
    <2>1. CASE u = t
      BY <1>1, <1>4, <2>1, Zenon
    <2>2. CASE u # t
      <3>1. ASSUME NEW i \in New(u)
            PROVE  /\ store'[i] = "none" /\ given'[i] = 0
                   /\ \A v \in Task : i \notin Claims(v)'
        <4>1. /\ store[i] = "none" /\ given[i] = 0 /\ i \in Index /\ i \in Proof
              /\ \A v \in Task : i \notin Claims(v)
          BY <1>1, <1>2, <3>1, Zenon DEF Unseen, New
        <4>2. i \notin New(t)
          BY <1>1, <2>2, <3>1, Zenon DEF Apart, New
        <4>3. store'[i] = "none" /\ given'[i] = given[i] /\ i \notin Claims(t)'
          BY <4>1, <4>2, Zenon DEF ClaimStep
        <4> QED
          BY <1>3, <4>1, <4>3, Zenon
      <3> QED
        BY <1>1, <1>3, <2>2, <3>1, Zenon DEF Unseen
    <2> QED
      BY <2>1, <2>2, Zenon
  <1>11. OwnPayment'
    <2>1. task'[t].op = "melt" /\ task'[t].pc \in {"selected", "posting", "waiting"} =>
              task'[t].ins # {} /\ task'[t].send = {}
      BY <1>1, Zenon DEF ClaimStep
    <2> QED
      BY <1>1, <2>1, ZenonT(30) DEF OwnPayment
  <1>12. Unrestored'
    BY <1>1, Zenon DEF Unrestored, ClaimStep
  <1> QED
    BY <1>5, <1>8, <1>9, <1>10, <1>11, <1>12, Zenon

(***************************************************************************)
(* update_proofs_state creates no row, and shows as unspent only what it   *)
(* is told to.                                                             *)
(***************************************************************************)
LEMMA StateRows ==
    ASSUME NEW ys, NEW state, store' = UpdateProofsState(ys, state)
    PROVE  \A p \in Proof :
               /\ store'[p] # "none" => store[p] # "none"
               /\ store'[p] = "Unspent" =>
                      store[p] = "Unspent" \/ (p \in ys /\ state = "Unspent")
               /\ p \in ys /\ state # "Unspent" => store'[p] # "Unspent"
  <1>1. \A p \in Proof : store'[p] = IF p \in ys /\ store[p] # "none" THEN state ELSE store[p]
    BY Zenon DEF UpdateProofsState
  <1> QED
    BY <1>1, Zenon

(***************************************************************************)
(* update_proofs shows as unspent, and creates, only what it is given.     *)
(***************************************************************************)
LEMMA AddedRows ==
    ASSUME NEW reserved, NEW unspent, NEW removed,
           store' = UpdateProofs(reserved, unspent, removed)
    PROVE  \A p \in Proof :
               /\ store'[p] # "none" => store[p] # "none" \/ p \in reserved \cup unspent
               /\ store'[p] = "Unspent" => store[p] = "Unspent" \/ p \in unspent
  <1>1. \A p \in Proof :
            store'[p] = IF p \in removed THEN "none"
                        ELSE IF p \in reserved THEN "Reserved"
                        ELSE IF p \in unspent THEN "Unspent" ELSE store[p]
    BY Zenon DEF UpdateProofs
  <1> QED
    BY <1>1, Zenon

(***************************************************************************)
(* A task that ends claims nothing.                                        *)
(***************************************************************************)
LEMMA EndClaims ==
    ASSUME WalletInv, NEW t \in Task, End(t)
    PROVE  Claims(t)' = {} /\ task'[t].pc = "idle"
  <1>1. task'[t] = Idle
    BY Zenon DEF End, WalletInv, Types
  <1>2. Idle.pc = "idle" /\ Idle.send = {}
    BY Zenon DEF Idle
  <1> QED
    BY <1>1, <1>2, Zenon DEF Claims

(***************************************************************************)
(* A task that goes on keeps its operation, its inputs and its token.      *)
(***************************************************************************)
LEMMA GoClaims ==
    ASSUME WalletInv, NEW t \in Task, NEW pc, Go(t, pc)
    PROVE  /\ task'[t].pc = pc /\ task'[t].op = task[t].op
           /\ task'[t].send = task[t].send /\ task'[t].ins = task[t].ins
  <1>1. task[t] \in TaskRec /\ task'[t] = [task[t] EXCEPT !.pc = pc]
    BY Zenon DEF Go, WalletInv, Types
  <1> QED
    BY <1>1, Zenon DEF TaskRec

(***************************************************************************)
(* A swap request (create_swap) leaves the task its token, and reserves    *)
(* the inputs.                                                             *)
(***************************************************************************)
LEMMA SwapClaims ==
    ASSUME WalletInv, NEW t \in Task, NEW op, NEW send, NEW ins, NEW n,
           CreateSwap(t, op, send, ins, n)
    PROVE  /\ Claims(t)' = send /\ task'[t].pc = "posting" /\ task'[t].op = op
           /\ \A p \in Proof : /\ store'[p] # "none" => store[p] # "none"
                               /\ store'[p] = "Unspent" => store[p] = "Unspent"
  <1>1. task'[t] = [Idle EXCEPT !.op = op, !.pc = "posting", !.send = send,
                                !.ins = ins, !.outs = Derived(n)]
    BY Zenon DEF CreateSwap, WalletInv, Types
  <1>2. task'[t].pc = "posting" /\ task'[t].op = op /\ task'[t].send = send
    BY <1>1, Zenon DEF Idle
  <1>3. store' = UpdateProofsState(ins, "Reserved")
    BY Zenon DEF CreateSwap
  <1> QED
    BY <1>2, <1>3, StateRows DEF Claims

(***************************************************************************)
(* A task that takes proofs in hand claims them; those that another task   *)
(* claims too become shared.                                               *)
(***************************************************************************)
LEMMA TakeClaims ==
    ASSUME WalletInv, NEW t \in Task, NEW op, NEW send, NEW ins, Take(t, op, send, ins)
    PROVE  /\ op = "receive" => Claims(t)' = send
           /\ op # "receive" => Claims(t)' = send \cup ins
           /\ task'[t].pc = "selected" /\ task'[t].op = op
           /\ task'[t].send = send /\ task'[t].ins = ins
           /\ shared \subseteq shared'
           /\ \A p \in send \cup ins :
                  p \in shared' \/ \A u \in Task \ {t} : p \notin Claims(u)
  <1>1. task'[t] = [Idle EXCEPT !.op = op, !.pc = "selected", !.send = send, !.ins = ins]
    BY Zenon DEF Take, Start, WalletInv, Types
  <1>2. /\ task'[t].pc = "selected" /\ task'[t].op = op
        /\ task'[t].send = send /\ task'[t].ins = ins
    BY <1>1, Zenon DEF Idle
  <1>3. shared' = shared \cup {p \in send \cup ins : \E u \in Task \ {t} : p \in Hands(u)}
    BY Zenon DEF Take
  <1>4. \A u \in Task : Claims(u) \subseteq Hands(u)
    BY Zenon DEF Claims, Hands
  <1> QED
    BY <1>2, <1>3, <1>4, Zenon DEF Claims

(***************************************************************************)
(* After a swap a task claims only the proofs it goes on with.             *)
(***************************************************************************)
LEMMA ContinueClaims ==
    ASSUME WalletInv, NEW t \in Task, NEW proofs, Continue(t, proofs)
    PROVE  /\ Claims(t)' \subseteq proofs /\ task'[t].pc # "restore"
           /\ task'[t].op = "melt" /\ task'[t].pc \in {"selected", "posting"} =>
                  task'[t].ins # {} /\ task'[t].send = {}
  <1>0. task \in [Task -> TaskRec]
    BY Zenon DEF WalletInv, Types
  <1>1. CASE End(t)
    BY <1>1, EndClaims
  <1>2. CASE task' = [task EXCEPT ![t] = [Idle EXCEPT !.op = "send", !.pc = "swapped",
                                                      !.send = proofs]]
    <2>1. task'[t].op = "send" /\ task'[t].pc = "swapped" /\ task'[t].send = proofs
      BY <1>0, <1>2, Zenon DEF Idle
    <2> QED
      BY <2>1 DEF Claims
  <1>3. CASE /\ proofs # {}
             /\ task' = [task EXCEPT ![t] = [Idle EXCEPT !.op = "melt", !.pc = "selected",
                                                         !.ins = proofs]]
    <2>1. /\ task'[t].op = "melt" /\ task'[t].pc = "selected"
          /\ task'[t].send = {} /\ task'[t].ins = proofs
      BY <1>0, <1>3, Zenon DEF Idle
    <2> QED
      BY <1>3, <2>1 DEF Claims
  <1> QED
    BY <1>1, <1>2, <1>3, ContinueCases, Zenon

(***************************************************************************)
(* A step that gives nothing away, shows nothing as unspent, creates no    *)
(* row and claims nothing new.                                             *)
(***************************************************************************)
LEMMA PlainClaims ==
    ASSUME NEW t \in Task, given' = given, restored' = restored, shared' = shared,
           Claims(t)' \subseteq Claims(t),
           \A p \in Proof : /\ store'[p] # "none" => store[p] # "none"
                            /\ store'[p] = "Unspent" => store[p] = "Unspent",
           task'[t].pc # "restore",
           task'[t].op # "melt" \/ task'[t].pc \notin {"selected", "posting"}
    PROVE  ClaimStep(t)
  <1>1. /\ \A p \in Claims(t)' : p \in Claims(t) \cup New(t)
        /\ Index \subseteq Proof
    BY Zenon DEF Proof
  <1> QED
    BY <1>1, Zenon DEF ClaimStep

(***************************************************************************)
(* prepare_send claims what it saw unspent; confirm gives away the claims  *)
(* of its task, and cancel shows them as unspent again.                    *)
(***************************************************************************)
LEMMA SendClaims ==
    ASSUME WalletInv, NEW t \in Task,
           \/ PrepareSend(t) \/ Reserve(t) \/ Confirm(t) \/ ConfirmCheck(t)
           \/ ConfirmSend(t) \/ CancelCheck(t) \/ Cancel(t)
    PROVE  ClaimStep(t)
  <1> USE DEF history
  <1>0. Index \subseteq Proof /\ task[t].send \subseteq Claims(t)
    BY Zenon DEF Proof, Claims
  <1>1. CASE PrepareSend(t)
    <2>1. PICK send \in SUBSET Rows({"Unspent"}), ins \in SUBSET Rows({"Unspent"}) :
              Take(t, "send", send, ins)
      BY <1>1, Zenon DEF PrepareSend
    <2>2. \A p \in send \cup ins : store[p] = "Unspent"
      BY <2>1, Zenon DEF Rows
    <2>3. store' = store /\ given' = given /\ restored' = restored
      BY <1>1, Zenon DEF PrepareSend
    <2> QED
      BY <2>1, <2>2, <2>3, TakeClaims DEF ClaimStep
  <1>2. CASE Reserve(t)
    <2>1. /\ given' = given /\ restored' = restored /\ shared' = shared /\ Go(t, "prepared")
          /\ store' = UpdateProofsState(Hands(t), "Reserved")
          /\ task[t].op = "send" /\ task[t].pc = "selected"
      BY <1>2, Zenon DEF Reserve
    <2>2. Claims(t)' = Claims(t) /\ task'[t].pc = "prepared"
      BY <2>1, GoClaims, ZenonT(30) DEF Claims
    <2>3. \A p \in Proof : /\ store'[p] # "none" => store[p] # "none"
                           /\ store'[p] = "Unspent" => store[p] = "Unspent"
      BY <2>1, StateRows
    <2> QED
      BY <2>1, <2>2, <2>3, PlainClaims, Zenon
  <1>3. CASE Confirm(t)
    <2>1. given' = given /\ restored' = restored /\ shared' = shared
      BY <1>3, Zenon DEF Confirm
    <2>2. CASE Go(t, "swapped") /\ store' = store
      <3>1. Claims(t)' \subseteq Claims(t) /\ task'[t].pc = "swapped"
        BY <2>2, GoClaims DEF Claims
      <3> QED
        BY <2>1, <2>2, <3>1, PlainClaims, ZenonT(30)
    <2>3. CASE CreateSwap(t, "send", task[t].send, task[t].ins, Cardinality(task[t].ins))
      <3>1. /\ Claims(t)' \subseteq Claims(t) /\ task'[t].pc = "posting" /\ task'[t].op = "send"
            /\ \A p \in Proof : /\ store'[p] # "none" => store[p] # "none"
                                /\ store'[p] = "Unspent" => store[p] = "Unspent"
        BY <1>0, <2>3, SwapClaims, Zenon
      <3> QED
        BY <2>1, <3>1, PlainClaims, Zenon
    <2> QED
      BY <1>3, <2>2, <2>3, Zenon DEF Confirm
  <1>4. CASE ConfirmCheck(t) \/ CancelCheck(t)
    <2>1. /\ given' = given /\ restored' = restored /\ shared' = shared /\ store' = store
          /\ \/ End(t)
             \/ Go(t, "checked")
             \/ Go(t, "cancelling") /\ task[t].pc = "prepared"
      BY <1>4, Zenon DEF ConfirmCheck, CancelCheck
    <2>2. Claims(t)' \subseteq Claims(t) /\ task'[t].pc \in {"idle", "checked", "cancelling"}
      BY <2>1, EndClaims, GoClaims DEF Claims
    <2> QED
      BY <2>1, <2>2, PlainClaims, Zenon
  <1>5. CASE ConfirmSend(t)
    <2>1. /\ restored' = restored /\ shared' = shared /\ End(t)
          /\ store' = UpdateProofsState(task[t].send, "PendingSpent")
          /\ given' = [p \in Proof |-> IF p \in task[t].send THEN given[p] + 1 ELSE given[p]]
      BY <1>5, Zenon DEF ConfirmSend
    <2>2. Claims(t)' = {} /\ task'[t].pc = "idle"
      BY <2>1, EndClaims, Zenon
    <2>3. \A p \in Proof : \/ given'[p] = given[p]
                           \/ given'[p] = given[p] + 1 /\ p \in task[t].send
      BY <2>1, Zenon
    <2>4. \A p \in Proof : /\ store'[p] # "none" => store[p] # "none"
                           /\ store'[p] = "Unspent" => store[p] = "Unspent"
                           /\ p \in task[t].send => store'[p] # "Unspent"
      BY <2>1, StateRows
    <2> QED
      BY <1>0, <2>1, <2>2, <2>3, <2>4, Zenon DEF ClaimStep
  <1>6. CASE Cancel(t)
    <2>1. /\ given' = given /\ restored' = restored /\ shared' = shared /\ End(t)
          /\ store' = UpdateProofsState(Hands(t), "Unspent") /\ task[t].pc = "cancelling"
      BY <1>6, Zenon DEF Cancel
    <2>2. Claims(t)' = {} /\ task'[t].pc = "idle"
      BY <2>1, EndClaims, Zenon
    <2>3. Claims(t) = Hands(t)
      BY <2>1, Zenon DEF Claims, Hands
    <2>4. \A p \in Proof : /\ store'[p] # "none" => store[p] # "none"
                           /\ store'[p] = "Unspent" => store[p] = "Unspent" \/ p \in Hands(t)
      BY <2>1, StateRows, Zenon
    <2> QED
      BY <1>0, <2>1, <2>2, <2>3, <2>4, Zenon DEF ClaimStep
  <1> QED
    BY <1>1, <1>2, <1>3, <1>4, <1>5, <1>6, Zenon

(***************************************************************************)
(* receive, mint, reclaim_unspent, revert_transaction and                  *)
(* check_all_pending_proofs claim nothing; melt claims what it saw unspent *)
(* and gives it away with its request, or exchanges some of it first.      *)
(***************************************************************************)
LEMMA RequestClaims ==
    ASSUME WalletInv, GivenInv, ~restored, NEW t \in Task,
           \/ Receive(t) \/ ReceiveSwap(t) \/ MintTokens(t) \/ MeltSelect(t) \/ Exchange(t)
           \/ Melt(t) \/ Reclaim(t) \/ RevertTransaction(t) \/ CheckAllPendingProofs(t)
    PROVE  ClaimStep(t)
  <1> USE DEF history
  <1>0. /\ Index \subseteq Proof /\ Foreign \subseteq Proof /\ Foreign \cap Index = {}
        /\ task \in [Task -> TaskRec] /\ task[t] \in TaskRec
        /\ task[t].send \subseteq Claims(t)
    BY WalletConstants, Zenon DEF Proof, WalletInv, Types, Claims
  <1>1. CASE Receive(t)
    <2>1. PICK f \in SUBSET Foreign : Take(t, "receive", {}, f)
      BY <1>1, Zenon DEF Receive
    <2>2. /\ given' = given /\ restored' = restored
          /\ store' = [p \in Proof |-> IF p \in task'[t].ins THEN "Pending" ELSE store[p]]
      BY <1>1, Zenon DEF Receive
    <2>3. /\ Claims(t)' = {} /\ task'[t].pc = "selected" /\ task'[t].op = "receive"
          /\ task'[t].ins = f /\ shared \subseteq shared'
      BY <2>1, TakeClaims, SMTT(30)
    <2>4. /\ \A i \in Index : store'[i] = store[i]
          /\ \A p \in Proof : store'[p] = "Unspent" => store[p] = "Unspent"
      BY <1>0, <2>2, <2>3
    <2> QED
      BY <2>2, <2>3, <2>4, Zenon DEF ClaimStep
  <1>2. CASE ReceiveSwap(t) \/ Exchange(t) \/ Reclaim(t)
    <2>1. /\ given' = given /\ restored' = restored /\ shared' = shared
          /\ \/ \E op \in {"receive", "exchange", "reclaim"}, send \in SUBSET task[t].send :
                    \E ins, n : CreateSwap(t, op, send, ins, n)
             \/ End(t) /\ store' = store
      BY <1>2, Zenon DEF ReceiveSwap, Exchange, Reclaim
    <2>2. CASE End(t) /\ store' = store
      <3>1. Claims(t)' \subseteq Claims(t) /\ task'[t].pc = "idle"
        BY <2>2, EndClaims, Zenon
      <3> QED
        BY <2>1, <2>2, <3>1, PlainClaims, Zenon
    <2>3. ASSUME NEW op \in {"receive", "exchange", "reclaim"}, NEW send \in SUBSET task[t].send,
                 NEW ins, NEW n, CreateSwap(t, op, send, ins, n)
          PROVE  ClaimStep(t)
      <3>1. /\ Claims(t)' \subseteq Claims(t) /\ task'[t].pc = "posting" /\ task'[t].op # "melt"
            /\ \A p \in Proof : /\ store'[p] # "none" => store[p] # "none"
                                /\ store'[p] = "Unspent" => store[p] = "Unspent"
        BY <1>0, <2>3, SwapClaims, SMTT(30)
      <3> QED
        BY <2>1, <3>1, PlainClaims, Zenon
    <2> QED
      BY <2>1, <2>2, <2>3, Zenon
  <1>3. CASE MintTokens(t) \/ RevertTransaction(t)
    <2>1. /\ given' = given /\ restored' = restored /\ shared' = shared /\ store' = store
      BY <1>3, Zenon DEF MintTokens, RevertTransaction
    <2>2. /\ task'[t].op \in {"mint", "revert"} /\ task'[t].pc \in {"posting", "reclaim"}
          /\ task'[t].send = {}
      <3>1. \/ task'[t] = [Idle EXCEPT !.op = "mint", !.pc = "posting", !.outs = Derived(1)]
            \/ \E ys : task'[t] = [Idle EXCEPT !.op = "revert", !.pc = "reclaim", !.ins = ys]
        BY <1>0, <1>3, Zenon DEF MintTokens, RevertTransaction, Start
      <3> QED
        BY <3>1, Zenon DEF Idle
    <2>3. Claims(t)' \subseteq Claims(t)
      BY <2>2 DEF Claims
    <2> QED
      BY <2>1, <2>2, <2>3, PlainClaims
  <1>4. CASE MeltSelect(t)
    <2>1. PICK op \in {"exchange", "melt"},
               send \in SUBSET Rows({"Unspent"}), ins \in SUBSET Rows({"Unspent"}) :
              Take(t, op, send, ins) /\ (op = "melt" => send = {})
      BY <1>4, Zenon DEF MeltSelect
    <2>2. /\ \A p \in send \cup ins : store[p] = "Unspent"
          /\ op = "melt" => ins # {} /\ send = {}
      BY <2>1, Zenon DEF Rows, Take
    <2>3. store' = store /\ given' = given /\ restored' = restored
      BY <1>4, Zenon DEF MeltSelect
    <2>4. /\ op # "receive" => Claims(t)' = send \cup ins
          /\ task'[t].pc = "selected" /\ task'[t].op = op
          /\ task'[t].ins = ins /\ task'[t].send = send
          /\ shared \subseteq shared'
          /\ \A p \in send \cup ins : p \in shared' \/ \A u \in Task \ {t} : p \notin Claims(u)
      BY <2>1, TakeClaims, Zenon
    <2>5. \A p \in Claims(t)' : /\ store[p] = "Unspent"
                                /\ p \in shared' \/ \A u \in Task \ {t} : p \notin Claims(u)
      BY <2>1, <2>2, <2>4
    <2> QED
      BY <2>2, <2>3, <2>4, <2>5, Zenon DEF ClaimStep
  <1>5. CASE Melt(t)
    <2>1. /\ restored' = restored /\ shared' = shared
          /\ task[t].op = "melt" /\ task[t].pc = "selected"
          /\ store' = UpdateProofsState(task[t].ins, "Pending")
          /\ given' = [p \in Proof |-> IF p \in task[t].ins THEN given[p] + 1 ELSE given[p]]
          /\ task'[t] = [task[t] EXCEPT !.pc = "posting", !.outs = Derived(1)]
      BY <1>0, <1>5, Zenon DEF Melt
    <2>2. /\ task'[t].pc = "posting" /\ task'[t].ins = task[t].ins
          /\ task'[t].send = task[t].send
      BY <1>0, <2>1, Zenon DEF TaskRec
    <2>3. task[t].ins # {} /\ task[t].send = {}
      BY <2>1, Zenon DEF GivenInv, OwnPayment
    <2>4. Claims(t)' = {} /\ Claims(t) = task[t].ins
      BY <2>1, <2>2, <2>3 DEF Claims
    <2>5. \A p \in Proof : \/ given'[p] = given[p]
                           \/ given'[p] = given[p] + 1 /\ p \in task[t].ins
      BY <2>1, Zenon
    <2>6. \A p \in Proof : /\ store'[p] # "none" => store[p] # "none"
                           /\ store'[p] = "Unspent" => store[p] = "Unspent"
                           /\ p \in task[t].ins => store'[p] # "Unspent"
      BY <2>1, StateRows, SMTT(30)
    <2> QED
      BY <1>0, <2>1, <2>2, <2>3, <2>4, <2>5, <2>6, Zenon DEF ClaimStep
  <1>6. CASE CheckAllPendingProofs(t)
    <2>1. /\ given' = given /\ restored' = restored /\ shared' = shared /\ task' = task
          /\ task[t].pc = "idle"
          /\ \E spent : store' = UpdateProofs({}, {}, spent)
      BY <1>6, Zenon DEF CheckAllPendingProofs
    <2>2. Claims(t)' = Claims(t) /\ task'[t].pc = "idle"
      BY <2>1, Zenon DEF Claims
    <2>3. \A p \in Proof : /\ store'[p] # "none" => store[p] # "none"
                           /\ store'[p] = "Unspent" => store[p] = "Unspent"
      BY <2>1, AddedRows
    <2> QED
      BY <2>1, <2>2, <2>3, PlainClaims, SMTT(30)
  <1> QED
    BY <1>1, <1>2, <1>3, <1>4, <1>5, <1>6, Zenon

(***************************************************************************)
(* The answer to a request: the new proofs are stored as unspent, or       *)
(* claimed for the token of the task that asked for them.                  *)
(***************************************************************************)
LEMMA AnswerClaims ==
    ASSUME WalletInv, NEW t \in Task,
           PostFails(t) \/ SwapOk(t) \/ MeltOk(t) \/ Fail(t) \/ Drop(t)
    PROVE  ClaimStep(t)
  <1> USE DEF history
  <1>0. /\ Index \subseteq Proof /\ task[t].send \subseteq Claims(t)
        /\ task \in [Task -> TaskRec]
    BY ZenonT(30) DEF Proof, WalletInv, Types, Claims
  <1>1. CASE PostFails(t) \/ Fail(t) \/ Drop(t)
    <2>1. /\ given' = given /\ restored' = restored /\ shared' = shared /\ store' = store
          /\ End(t) \/ Go(t, "failed") \/ Go(t, "reclaim")
      BY <1>1, Zenon DEF PostFails, Fail, Drop
    <2>2. Claims(t)' \subseteq Claims(t) /\ task'[t].pc \in {"idle", "failed", "reclaim"}
      BY <2>1, EndClaims, GoClaims, SMTT(30) DEF Claims
    <2> QED
      BY <2>1, <2>2, PlainClaims
  <1>2. CASE SwapOk(t)
    <2>1. /\ task[t].pc = "ok" /\ task[t].op # "melt"
          /\ given' = given /\ restored' = restored /\ shared' = shared
      BY <1>2, Zenon DEF SwapOk
    <2>2. PICK send \in SUBSET task[t].outs :
              /\ store' = UpdateProofs(send, task[t].outs \ send, task[t].ins)
              /\ Continue(t, task[t].send \cup send)
      BY <1>2, Zenon DEF SwapOk
    <2>3. New(t) = task[t].outs
      BY <2>1, Zenon DEF New, WalletInv, Answers
    <2>4. /\ Claims(t)' \subseteq task[t].send \cup send
          /\ task'[t].pc # "restore"
          /\ task'[t].op = "melt" /\ task'[t].pc \in {"selected", "posting"} =>
                 task'[t].ins # {} /\ task'[t].send = {}
      BY <2>2, ContinueClaims, Zenon
    <2>5. \A p \in Proof : /\ store'[p] # "none" => store[p] # "none" \/ p \in New(t)
                           /\ store'[p] = "Unspent" => store[p] = "Unspent" \/ p \in New(t)
      BY <2>2, <2>3, AddedRows, SMTT(30)
    <2>6. Claims(t)' \subseteq Claims(t) \cup New(t)
      BY <1>0, <2>3, <2>4, Zenon
    <2> QED
      BY <1>0, <2>1, <2>4, <2>5, <2>6 DEF ClaimStep
  <1>3. CASE MeltOk(t)
    <2> DEFINE change == {i \in task[t].outs : mint[i] # "unsigned"}
    <2>1. /\ task[t].pc = "ok" /\ End(t)
          /\ given' = given /\ restored' = restored /\ shared' = shared
          /\ store' = UpdateProofs({}, change, task[t].ins)
      BY <1>3, Zenon DEF MeltOk
    <2>2. New(t) = change
      BY <2>1, Zenon DEF New
    <2> HIDE DEF change
    <2>3. Claims(t)' = {} /\ task'[t].pc = "idle"
      BY <2>1, EndClaims, Zenon
    <2>4. \A p \in Proof : /\ store'[p] # "none" => store[p] # "none" \/ p \in New(t)
                           /\ store'[p] = "Unspent" => store[p] = "Unspent" \/ p \in New(t)
      BY <2>1, <2>2, AddedRows
    <2> QED
      BY <1>0, <2>1, <2>3, <2>4 DEF ClaimStep
  <1> QED
    BY <1>1, <1>2, <1>3, Zenon

(***************************************************************************)
(* A step of the mint takes no signature back, and changes no row, no      *)
(* token and no claim.                                                     *)
(***************************************************************************)
Signs ==
    /\ store' = store /\ given' = given /\ shared' = shared /\ restored' = restored
    /\ counter' = counter
    /\ \A p \in Proof : mint[p] # "unsigned" => mint'[p] # "unsigned"
    /\ \A t \in Task :
           /\ task'[t].outs = task[t].outs /\ Claims(t)' = Claims(t)
           /\ task'[t].pc # task[t].pc => task'[t].pc \in {"ok", "failed", "waiting"}

(***************************************************************************)
(* Such a step keeps the parts of the invariant that are not about new     *)
(* proofs or payments.                                                     *)
(***************************************************************************)
LEMMA SignsKeeps ==
    ASSUME GivenInv, ~restored, Signs
    PROVE  Apart' /\ Backed' /\ Exclusive' /\ Unrestored'
  <1>1. Apart /\ Backed /\ Exclusive /\ Unrestored
    BY Zenon DEF GivenInv
  <1>2. Apart'
    BY <1>1 DEF Apart, Signs
  <1>3. Backed'
    BY <1>1, Zenon DEF Backed, Signs
  <1>4. Exclusive'
    BY <1>1 DEF Exclusive, Signs
  <1>5. Unrestored'
    BY <1>1 DEF Unrestored, Signs
  <1> QED
    BY <1>2, <1>3, <1>4, <1>5, Zenon

\* What was new to a task and unseen is unseen still.
LEMMA NewUnseen ==
    ASSUME Unseen, Signs, NEW u \in Task, New(u)' = New(u)
    PROVE  \A i \in New(u)' : /\ store'[i] = "none" /\ given'[i] = 0
                              /\ \A v \in Task : i \notin Claims(v)'
  <1>1. /\ store' = store /\ given' = given
        /\ \A v \in Task : Claims(v)' = Claims(v)
    BY Zenon DEF Signs
  <1>2. \A i \in New(u) : /\ store[i] = "none" /\ given[i] = 0
                          /\ \A v \in Task : i \notin Claims(v)
    BY Zenon DEF Unseen
  <1> QED
    BY <1>1, <1>2, Zenon

\* A task whose request is on its way claims the proofs of its token only.
LEMMA PostedClaims ==
    ASSUME NEW t \in Task, task[t].pc \in {"posting", "waiting"}, task'[t].send = task[t].send,
           task'[t].pc \in {"ok", "failed", "waiting"}
    PROVE  Claims(t)' = Claims(t)
  BY DEF Claims

(***************************************************************************)
(* A proof that the mint has not signed is unknown to everybody.           *)
(***************************************************************************)
LEMMA UnsignedUnseen ==
    ASSUME WalletInv, GivenInv, ~restored, NEW i \in Index, mint[i] = "unsigned"
    PROVE  store[i] = "none" /\ given[i] = 0 /\ \A u \in Task : i \notin Claims(u)
  <1>1. i \in Proof
    BY Zenon DEF Proof
  <1>2. store[i] = "none"
    BY <1>1, Zenon DEF WalletInv, Ledger
  <1>3. /\ given[i] \in Nat /\ ~(given[i] > 0)
        /\ \A u \in Task : i \notin Claims(u)
    BY <1>1, Zenon DEF GivenInv, Backed
  <1> QED
    BY <1>2, <1>3

(***************************************************************************)
(* A swap or a mint request is executed: its outputs were unsigned, so     *)
(* nobody has seen them.                                                   *)
(***************************************************************************)
LEMMA ExecuteClaims ==
    ASSUME WalletInv, GivenInv, ~restored, NEW t \in Task, Execute(t)
    PROVE  GivenInv'
  <1>1. /\ Apart /\ Unseen /\ OwnPayment
        /\ task \in [Task -> TaskRec] /\ \A u \in Task : task[u].outs \subseteq Index
        /\ Index \subseteq Proof
    BY Zenon DEF GivenInv, WalletInv, Types, TaskRec, Proof
  <1>2. /\ store' = store /\ given' = given /\ shared' = shared /\ restored' = restored
        /\ counter' = counter /\ paying' = paying
        /\ task[t].pc = "posting"
        /\ \A p \in task[t].ins : mint[p] = "Unspent"
        /\ \A i \in task[t].outs : mint[i] = "unsigned"
    BY Zenon DEF Execute, history, Unsigned
  <1>3. PICK answer \in {"ok", "failed"} : task' = [task EXCEPT ![t].pc = answer]
    BY Zenon DEF Execute, Go
  <1>4. /\ task'[t].pc = answer /\ task'[t].send = task[t].send /\ task'[t].ins = task[t].ins
        /\ task'[t].outs = task[t].outs
        /\ \A u \in Task \ {t} : task'[u] = task[u]
    BY <1>1, <1>3, Zenon DEF TaskRec
  <1>5. \A p \in Proof : mint'[p] = IF p \in task[t].ins THEN "Spent"
                                    ELSE IF p \in task[t].outs THEN "Unspent" ELSE mint[p]
    <2>1. \A p \in task[t].ins : p \notin task[t].outs
      BY <1>2
    <2> QED
      BY <2>1, Zenon DEF Execute
  <1>6. Signs
    <2>1. \A p \in Proof : mint[p] # "unsigned" => mint'[p] # "unsigned"
      BY <1>5
    <2>2. Claims(t)' = Claims(t)
      BY <1>2, <1>4, PostedClaims
    <2>3. \A u \in Task \ {t} : Claims(u)' = Claims(u)
      BY <1>4, Zenon DEF Claims
    <2>4. \A u \in Task : /\ task'[u].outs = task[u].outs /\ Claims(u)' = Claims(u)
                          /\ task'[u].pc # task[u].pc => task'[u].pc \in {"ok", "failed", "waiting"}
      BY <1>3, <1>4, <2>2, <2>3
    <2> QED
      BY <1>2, <2>1, <2>4, Zenon DEF Signs
  <1>7. Unseen'
    <2>1. ASSUME NEW i \in task[t].outs
          PROVE  /\ mint'[i] # "unsigned"
                 /\ store'[i] = "none" /\ given'[i] = 0
                 /\ \A u \in Task : i \notin Claims(u)'
      <3>1. i \in Index /\ i \in Proof /\ mint[i] = "unsigned"
        BY <1>1, <1>2, <2>1, Zenon
      <3>2. mint'[i] # "unsigned"
        BY <1>5, <2>1, <3>1, SMTT(30)
      <3> QED
        BY <1>2, <1>6, <3>1, <3>2, UnsignedUnseen, Zenon DEF Signs
    <2>2. ASSUME NEW u \in Task \ {t}, NEW i \in task[u].outs
          PROVE  mint'[i] = "unsigned" <=> mint[i] = "unsigned"
      <3>1. i \in Proof /\ i \notin task[t].outs
        BY <1>1, <2>2, Zenon DEF Apart
      <3> QED
        BY <1>2, <1>5, <3>1, SMTT(30)
    <2>3. ASSUME NEW u \in Task \ {t}
          PROVE  New(u)' = New(u)
      BY <1>4, <2>2, <2>3, Zenon DEF New
    <2> SUFFICES ASSUME NEW u \in Task
                 PROVE  /\ \A i \in New(u)' : /\ store'[i] = "none" /\ given'[i] = 0
                                              /\ \A v \in Task : i \notin Claims(v)'
                        /\ task'[u].pc = "ok" =>
                              \A i \in task'[u].outs : mint'[i] = "unsigned" =>
                                  \A m \in paying' : i \notin m.outs
      BY Zenon DEF Unseen
    <2>4. CASE u = t
      <3>1. \A i \in New(t)' : i \in task[t].outs
        BY <1>4, Zenon DEF New
      <3> QED
        BY <1>4, <2>1, <2>4, <3>1, Zenon
    <2>5. CASE u # t
      <3>1. \A i \in New(u)' : /\ store'[i] = "none" /\ given'[i] = 0
                               /\ \A v \in Task : i \notin Claims(v)'
        BY <1>1, <1>6, <2>3, <2>5, NewUnseen, Zenon
      <3>2. task'[u].pc = "ok" =>
                \A i \in task'[u].outs : mint'[i] = "unsigned" =>
                    \A m \in paying' : i \notin m.outs
        <4>1. task[u].pc = "ok" =>
                  \A i \in task[u].outs : mint[i] = "unsigned" =>
                      \A m \in paying : i \notin m.outs
          BY <1>1, Zenon DEF Unseen
        <4>2. task'[u] = task[u] /\ paying' = paying
          BY <1>2, <1>4, <2>5, Zenon
        <4>3. \A i \in task[u].outs : mint'[i] = "unsigned" => mint[i] = "unsigned"
          BY <2>2, <2>5, Zenon
        <4> QED
          BY <4>1, <4>2, <4>3, Zenon
      <3> QED
        BY <3>1, <3>2, Zenon
    <2> QED
      BY <2>4, <2>5, Zenon
  <1>8. OwnPayment'
    BY <1>1, <1>2, <1>4 DEF OwnPayment
  <1> QED
    BY <1>6, <1>7, <1>8, SignsKeeps, Zenon DEF GivenInv

(***************************************************************************)
(* A melt is accepted: its task waits for this payment and for no other,   *)
(* since the inputs of the others are pending.                             *)
(***************************************************************************)
LEMMA StartPaymentClaims ==
    ASSUME WalletInv, GivenInv, ~restored, NEW t \in Task, StartPayment(t)
    PROVE  GivenInv'
  <1>1. /\ Apart /\ Unseen /\ OwnPayment
        /\ task \in [Task -> TaskRec] /\ \A u \in Task : task[u].outs \subseteq Index
        /\ Index \subseteq Proof
    BY Zenon DEF GivenInv, WalletInv, Types, TaskRec, Proof
  <1> DEFINE rec == [ins |-> task[t].ins, outs |-> task[t].outs]
  <1>2. /\ store' = store /\ given' = given /\ shared' = shared /\ restored' = restored
        /\ counter' = counter /\ paying' = paying \cup {rec}
        /\ task[t].pc = "posting" /\ task[t].op = "melt"
        /\ \A p \in task[t].ins : mint[p] = "Unspent"
        /\ task' = [task EXCEPT ![t].pc = "waiting"]
    BY Zenon DEF StartPayment, history, Go
  <1>3. rec.ins = task[t].ins /\ rec.outs = task[t].outs
    BY Zenon
  <1>4. /\ task'[t].pc = "waiting" /\ task'[t].send = task[t].send /\ task'[t].ins = task[t].ins
        /\ task'[t].outs = task[t].outs /\ task'[t].op = task[t].op
        /\ \A u \in Task \ {t} : task'[u] = task[u]
    BY <1>1, <1>2, Zenon DEF TaskRec
  <1>5. \A p \in Proof : mint'[p] = "unsigned" <=> mint[p] = "unsigned"
    <2>1. \A p \in Proof : mint'[p] = IF p \in task[t].ins THEN "Pending" ELSE mint[p]
      BY Zenon DEF StartPayment
    <2> QED
      BY <1>2, <2>1
  <1> HIDE DEF rec
  <1>6. Signs
    <2>1. Claims(t)' = Claims(t)
      BY <1>2, <1>4, PostedClaims
    <2>2. \A u \in Task \ {t} : Claims(u)' = Claims(u)
      BY <1>4, Zenon DEF Claims
    <2>3. \A u \in Task : /\ task'[u].outs = task[u].outs /\ Claims(u)' = Claims(u)
                          /\ task'[u].pc # task[u].pc => task'[u].pc \in {"ok", "failed", "waiting"}
      BY <1>4, <2>1, <2>2
    <2> QED
      BY <1>2, <1>5, <2>3, Zenon DEF Signs
  <1>7. Unseen'
    <2> SUFFICES ASSUME NEW u \in Task
                 PROVE  /\ \A i \in New(u)' : /\ store'[i] = "none" /\ given'[i] = 0
                                              /\ \A v \in Task : i \notin Claims(v)'
                        /\ task'[u].pc = "ok" =>
                              \A i \in task'[u].outs : mint'[i] = "unsigned" =>
                                  \A m \in paying' : i \notin m.outs
      BY Zenon DEF Unseen
    <2>1. CASE u = t
      BY <1>4, <2>1 DEF New
    <2>2. CASE u # t
      <3>1. task'[u] = task[u] /\ \A i \in task[u].outs : i \in Proof
        BY <1>1, <1>4, <2>2, Zenon
      <3>2. New(u)' = New(u)
        BY <1>5, <3>1, Zenon DEF New
      <3>3. \A i \in task[u].outs : i \notin rec.outs
        BY <1>1, <1>3, <2>2, Zenon DEF Apart
      <3>4. task'[u].pc = "ok" =>
                \A i \in task'[u].outs : mint'[i] = "unsigned" =>
                    \A m \in paying' : i \notin m.outs
        <4>1. task[u].pc = "ok" =>
                  \A i \in task[u].outs : mint[i] = "unsigned" =>
                      \A m \in paying : i \notin m.outs
          BY <1>1, Zenon DEF Unseen
        <4> QED
          BY <1>2, <1>5, <3>1, <3>3, <4>1, Zenon
      <3> QED
        BY <1>1, <1>6, <3>2, <3>4, NewUnseen, Zenon
    <2> QED
      BY <2>1, <2>2, Zenon
  <1>8. OwnPayment'
    <2>1. task[t].ins # {} /\ task[t].send = {}
      BY <1>1, <1>2, Zenon DEF OwnPayment
    <2>2. ASSUME NEW u \in Task \ {t}, task[u].pc = "waiting" PROVE task[u].ins # task[t].ins
      <3>1. [ins |-> task[u].ins, outs |-> task[u].outs] \in paying
        BY <1>1, <2>2, Zenon DEF OwnPayment
      <3>2. \A p \in task[u].ins : mint[p] = "Pending"
        BY <3>1, Zenon DEF WalletInv, Ledger
      <3> QED
        BY <1>2, <2>1, <3>2
    <2>3. [ins |-> task'[t].ins, outs |-> task'[t].outs] \in paying'
      <3>1. [ins |-> task'[t].ins, outs |-> task'[t].outs] = rec
        BY <1>4 DEF rec
      <3> QED
        BY <1>2, <3>1, SMTT(30)
    <2>4. \A u \in Task : task'[u].pc = "waiting" =>
              [ins |-> task'[u].ins, outs |-> task'[u].outs] \in paying'
      <3>1. \A u \in Task : task[u].pc = "waiting" =>
                [ins |-> task[u].ins, outs |-> task[u].outs] \in paying
        BY <1>1, Zenon DEF OwnPayment
      <3>2. ASSUME NEW u \in Task \ {t}, task'[u].pc = "waiting"
            PROVE  [ins |-> task'[u].ins, outs |-> task'[u].outs] \in paying'
        <4>1. task'[u] = task[u]
          BY <1>4, Zenon
        <4>2. [ins |-> task[u].ins, outs |-> task[u].outs] \in paying
          BY <3>1, <3>2, <4>1, Zenon
        <4>3. [ins |-> task[u].ins, outs |-> task[u].outs] \in paying'
          BY <1>2, <4>2, SMTT(30)
        <4> QED
          BY <4>1, <4>3, Zenon
      <3> QED
        BY <2>3, <3>2, Zenon
    <2>5. \A u, v \in Task :
              task'[u].pc = "waiting" /\ task'[v].pc = "waiting" /\ task'[u].ins = task'[v].ins
              => u = v
      BY <1>1, <1>4, <2>2, SMTT(30) DEF OwnPayment
    <2>6. \A u \in Task :
              task'[u].op = "melt" /\ task'[u].pc \in {"selected", "posting", "waiting"} =>
                  task'[u].ins # {} /\ task'[u].send = {}
      BY <1>1, <1>4, <2>1 DEF OwnPayment
    <2> QED
      BY <2>4, <2>5, <2>6, Zenon DEF OwnPayment
  <1> QED
    BY <1>6, <1>7, <1>8, SignsKeeps, Zenon DEF GivenInv

(***************************************************************************)
(* A payment ends: the task that waits for it, if any, is the one whose    *)
(* outputs are its change.                                                 *)
(***************************************************************************)
LEMMA EndPaymentClaims ==
    ASSUME WalletInv, GivenInv, ~restored, NEW m \in paying, EndPayment(m)
    PROVE  GivenInv'
  <1> DEFINE waiting == {t \in Task : task[t].pc = "waiting" /\ task[t].ins = m.ins}
  <1>1. /\ Apart /\ Unseen /\ OwnPayment
        /\ task \in [Task -> TaskRec] /\ \A u \in Task : task[u].outs \subseteq Index
        /\ Index \subseteq Proof
        /\ m.outs \subseteq Index
        /\ \A u \in Task : task[u].pc = "waiting" => task[u].op = "melt"
    BY Zenon DEF GivenInv, WalletInv, Types, TaskRec, Proof, Answers
  <1>2. /\ store' = store /\ given' = given /\ shared' = shared /\ restored' = restored
        /\ counter' = counter /\ paying' = paying \ {m}
    BY Zenon DEF EndPayment, history
  <1>3. /\ \A p \in m.ins : mint[p] = "Pending"
        /\ \A i \in m.outs : mint[i] = "unsigned"
        /\ \A n \in paying \ {m} : m.ins \cap n.ins = {} /\ m.outs \cap n.outs = {}
    BY Zenon DEF WalletInv, Ledger
  <1>4. PICK paid \in BOOLEAN, change \in BOOLEAN :
            /\ mint' = [p \in Proof |->
                              CASE p \in m.ins -> IF paid THEN "Spent" ELSE "Unspent"
                                [] p \in m.outs -> IF paid /\ change THEN "Unspent" ELSE mint[p]
                                [] OTHER -> mint[p]]
            /\ task' = [t \in Task |-> IF t \in waiting
                                       THEN [task[t] EXCEPT !.pc = IF paid THEN "ok" ELSE "failed"]
                                       ELSE task[t]]
    BY Zenon DEF EndPayment
  <1>5. /\ \A p \in Proof \ m.outs : mint'[p] = "unsigned" <=> mint[p] = "unsigned"
        /\ \A p \in Proof : mint[p] # "unsigned" => mint'[p] # "unsigned"
    <2>1. \A p \in m.ins : p \notin m.outs
      BY <1>3
    <2>2. \A p \in Proof : mint'[p] =
              IF p \in m.ins THEN IF paid THEN "Spent" ELSE "Unspent"
              ELSE IF p \in m.outs THEN IF paid /\ change THEN "Unspent" ELSE mint[p]
              ELSE mint[p]
      BY <1>4, <2>1, Zenon
    <2> QED
      BY <1>3, <2>2
  <1>6. /\ \A u \in Task \ waiting : task'[u] = task[u]
        /\ \A u \in waiting : /\ task'[u].pc \in {"ok", "failed"}
                              /\ task'[u].send = task[u].send /\ task'[u].outs = task[u].outs
    <2>1. \A u \in waiting : task'[u] = [task[u] EXCEPT !.pc = IF paid THEN "ok" ELSE "failed"]
      BY <1>4, Zenon
    <2>2. \A u \in waiting : task[u] \in TaskRec
      BY <1>1, Zenon
    <2> QED
      BY <1>4, <2>1, <2>2, Zenon DEF TaskRec
  <1>7. \A u \in waiting : task[u].outs = m.outs
    <2> SUFFICES ASSUME NEW u \in waiting PROVE task[u].outs = m.outs
      BY Zenon
    <2> DEFINE n == [ins |-> task[u].ins, outs |-> task[u].outs]
    <2>1. n \in paying /\ task[u].ins # {} /\ task[u].ins = m.ins
      BY <1>1, Zenon DEF OwnPayment
    <2>2. n.ins = task[u].ins /\ n.outs = task[u].outs
      BY Zenon
    <2> HIDE DEF n
    <2> QED
      BY <1>3, <2>1, <2>2
  <1>8. Signs
    <2>1. \A u \in waiting : Claims(u)' = Claims(u)
      BY <1>6, PostedClaims
    <2>2. \A u \in Task \ waiting : Claims(u)' = Claims(u)
      BY <1>6, Zenon DEF Claims
    <2> HIDE DEF waiting
    <2>3. \A u \in Task : /\ task'[u].outs = task[u].outs /\ Claims(u)' = Claims(u)
                          /\ task'[u].pc # task[u].pc => task'[u].pc \in {"ok", "failed", "waiting"}
      BY <1>6, <2>1, <2>2
    <2> QED
      BY <1>2, <1>5, <2>3, Zenon DEF Signs
  <1>9. Unseen'
    <2> SUFFICES ASSUME NEW u \in Task
                 PROVE  /\ \A i \in New(u)' : /\ store'[i] = "none" /\ given'[i] = 0
                                              /\ \A v \in Task : i \notin Claims(v)'
                        /\ task'[u].pc = "ok" =>
                              \A i \in task'[u].outs : mint'[i] = "unsigned" =>
                                  \A n \in paying' : i \notin n.outs
      BY Zenon DEF Unseen
    <2>1. CASE u \in waiting
      <3>1. task'[u].outs = m.outs
        BY <1>6, <1>7, <2>1, Zenon
      <3>2. \A i \in m.outs : /\ store'[i] = "none" /\ given'[i] = 0
                              /\ \A v \in Task : i \notin Claims(v)'
        <4> SUFFICES ASSUME NEW i \in m.outs
                     PROVE  /\ store'[i] = "none" /\ given'[i] = 0
                            /\ \A v \in Task : i \notin Claims(v)'
          BY Zenon
        <4>1. /\ store[i] = "none" /\ given[i] = 0
              /\ \A v \in Task : i \notin Claims(v)
          BY <1>1, <1>3, UnsignedUnseen, Zenon
        <4> QED
          BY <1>2, <1>8, <4>1, Zenon DEF Signs
      <3>3. New(u)' \subseteq m.outs
        BY <3>1, Zenon DEF New
      <3>4. \A i \in m.outs : \A n \in paying' : i \notin n.outs
        BY <1>2, <1>3, Zenon
      <3> QED
        BY <3>1, <3>2, <3>3, <3>4, Zenon
    <2>2. CASE u \notin waiting
      <3>1. task'[u] = task[u] /\ \A i \in task[u].outs : i \in Proof
        BY <1>1, <1>6, <2>2, Zenon
      <3>2. CASE task[u].pc # "ok"
        BY <3>1, <3>2, Zenon DEF New
      <3>3. CASE task[u].pc = "ok"
        <4>1. \A i \in task[u].outs : i \notin m.outs
          BY <1>1, <1>3, <3>3, Zenon DEF Unseen
        <4>2. \A i \in task[u].outs : mint'[i] = "unsigned" <=> mint[i] = "unsigned"
          BY <1>5, <3>1, <4>1, Zenon
        <4>3. New(u)' = New(u)
          BY <3>1, <4>2, Zenon DEF New
        <4>4. \A i \in task'[u].outs : mint'[i] = "unsigned" =>
                  \A n \in paying' : i \notin n.outs
          BY <1>1, <1>2, <3>1, <3>3, <4>2, Zenon DEF Unseen
        <4> QED
          BY <1>1, <1>8, <4>3, <4>4, NewUnseen, Zenon
      <3> QED
        BY <3>2, <3>3, Zenon
    <2> QED
      BY <2>1, <2>2, Zenon
  <1>10. OwnPayment'
    <2>1. \A u \in Task : task'[u].pc \in {"selected", "posting", "waiting"} =>
              u \notin waiting /\ task'[u] = task[u]
      BY <1>6
    <2>2. ASSUME NEW u \in Task, task'[u].pc = "waiting"
          PROVE  [ins |-> task'[u].ins, outs |-> task'[u].outs] \in paying'
      <3> DEFINE n == [ins |-> task[u].ins, outs |-> task[u].outs]
      <3>1. task'[u] = task[u] /\ task[u].ins # m.ins /\ n \in paying
        BY <1>1, <2>1, <2>2, Zenon DEF OwnPayment
      <3>2. n # m
        <4>1. n.ins = task[u].ins
          BY Zenon
        <4> HIDE DEF n
        <4> QED
          BY <3>1, <4>1, Zenon
      <3> QED
        BY <1>2, <3>1, <3>2, Zenon
    <2> HIDE DEF waiting
    <2>3. \A u, v \in Task :
              task'[u].pc = "waiting" /\ task'[v].pc = "waiting" /\ task'[u].ins = task'[v].ins
              => u = v
      BY <1>1, <2>1, SMTT(30) DEF OwnPayment
    <2>4. \A u \in Task :
              task'[u].op = "melt" /\ task'[u].pc \in {"selected", "posting", "waiting"} =>
                  task'[u].ins # {} /\ task'[u].send = {}
      BY <1>1, <2>1 DEF OwnPayment
    <2> QED
      BY <2>2, <2>3, <2>4, ZenonT(30) DEF OwnPayment
  <1> QED
    BY <1>8, <1>9, <1>10, SignsKeeps, Zenon DEF GivenInv

(***************************************************************************)
(* Someone else spends a proof of a token, or the store is lost.           *)
(***************************************************************************)
LEMMA RedeemClaims ==
    ASSUME WalletInv, GivenInv, ~restored, NEW q \in Proof, Redeem(q)
    PROVE  GivenInv'
  <1>1. /\ Unseen /\ OwnPayment
        /\ \A u \in Task : \A i \in task[u].outs : i \in Proof
    BY Zenon DEF GivenInv, WalletInv, Types, TaskRec, Proof
  <1>2. /\ store' = store /\ given' = given /\ shared' = shared /\ restored' = restored
        /\ counter' = counter /\ paying' = paying /\ task' = task
        /\ mint[q] = "Unspent" /\ mint' = [mint EXCEPT ![q] = "Spent"]
    BY Zenon DEF Redeem, history
  <1>3. \A p \in Proof : mint'[p] = "unsigned" <=> mint[p] = "unsigned"
    BY <1>2 DEF WalletInv, Types
  <1>4. Signs
    <2>1. \A u \in Task : Claims(u)' = Claims(u)
      BY <1>2, Zenon DEF Claims
    <2> QED
      BY <1>2, <1>3, <2>1, Zenon DEF Signs
  <1>5. Unseen'
    <2> SUFFICES ASSUME NEW u \in Task
                 PROVE  /\ \A i \in New(u)' : /\ store'[i] = "none" /\ given'[i] = 0
                                              /\ \A v \in Task : i \notin Claims(v)'
                        /\ task'[u].pc = "ok" =>
                              \A i \in task'[u].outs : mint'[i] = "unsigned" =>
                                  \A m \in paying' : i \notin m.outs
      BY Zenon DEF Unseen
    <2>1. New(u)' = New(u)
      BY <1>1, <1>2, <1>3, Zenon DEF New
    <2>2. task[u].pc = "ok" => \A i \in task[u].outs : mint[i] = "unsigned" =>
                                   \A m \in paying : i \notin m.outs
      BY <1>1, Zenon DEF Unseen
    <2> QED
      BY <1>1, <1>2, <1>3, <1>4, <2>1, <2>2, NewUnseen, Zenon
  <1>6. OwnPayment'
    BY <1>1, <1>2, Zenon DEF OwnPayment
  <1> QED
    BY <1>4, <1>5, <1>6, SignsKeeps, Zenon DEF GivenInv

(***************************************************************************)
(* With the store every task and every claim is lost.                      *)
(***************************************************************************)
LEMMA LoseStoreClaims ==
    ASSUME WalletInv, GivenInv, ~restored, LoseStore
    PROVE  GivenInv'
  <1>1. Backed /\ Exclusive
    BY Zenon DEF GivenInv
  <1>2. /\ given' = given /\ shared' = shared /\ mint' = mint
        /\ \A p \in Proof : store'[p] = "none"
        /\ \A u \in Task : task'[u] = Idle
    BY Zenon DEF LoseStore
  <1>3. /\ Idle.pc = "idle" /\ Idle.send = {} /\ Idle.outs = {} /\ Idle.op = "none"
    BY Zenon DEF Idle
  <1>4. \A u \in Task : Claims(u)' = {} /\ New(u)' = {}
    BY <1>2, <1>3, SMTT(30) DEF Claims, New
  <1>5. Apart' /\ Unrestored' /\ OwnPayment'
    BY <1>2, <1>3 DEF Apart, Unrestored, OwnPayment
  <1>6. Backed'
    BY <1>1, <1>2, <1>4, Zenon DEF Backed
  <1>7. Exclusive'
    BY <1>1, <1>2, <1>4, SMTT(30) DEF Exclusive
  <1>8. Unseen'
    BY <1>2, <1>3, <1>4 DEF Unseen
  <1> QED
    BY <1>5, <1>6, <1>7, <1>8, Zenon DEF GivenInv

(***************************************************************************)
(* A new wallet has given nothing away.                                    *)
(***************************************************************************)
LEMMA GivenInit == Init => GivenInv
  <1> SUFFICES ASSUME Init PROVE GivenInv
    BY Zenon
  <1>1. /\ \A p \in Proof : given[p] = 0
        /\ \A t \in Task : task[t] = Idle
        /\ paying = {}
    BY Zenon DEF Init
  <1>2. Idle.pc = "idle" /\ Idle.send = {} /\ Idle.outs = {} /\ Idle.op = "none"
    BY Zenon DEF Idle
  <1>3. \A t \in Task : Claims(t) = {} /\ New(t) = {}
    BY <1>1, <1>2, SMTT(30) DEF Claims, New
  <1>4. Apart /\ Unrestored /\ OwnPayment
    BY <1>1, <1>2, SMTT(30) DEF Apart, Unrestored, OwnPayment
  <1>5. Backed /\ Exclusive
    BY <1>1, <1>3, SMTT(30) DEF Backed, Exclusive
  <1>6. Unseen
    BY <1>1, <1>2, <1>3 DEF Unseen
  <1> QED
    BY <1>4, <1>5, <1>6, Zenon DEF GivenInv

(***************************************************************************)
(* Every step of the wallet, the mint and the network keeps it.            *)
(***************************************************************************)
LEMMA GivenNext == WalletInv /\ GivenInv /\ [Next]_vars => GivenInv'
  <1> SUFFICES ASSUME WalletInv, GivenInv, [Next]_vars PROVE GivenInv'
    BY Zenon
  <1>1. CASE UNCHANGED vars
    <2>1. /\ store' = store /\ counter' = counter /\ mint' = mint /\ paying' = paying
          /\ task' = task /\ given' = given /\ shared' = shared /\ restored' = restored
      BY <1>1, Zenon DEF vars
    <2>2. \A t \in Task : Claims(t)' = Claims(t) /\ New(t)' = New(t)
      BY <2>1, Zenon DEF Claims, New
    <2>3. (Apart <=> Apart') /\ (OwnPayment <=> OwnPayment') /\ (Unrestored <=> Unrestored')
      BY <2>1, Zenon DEF Apart, OwnPayment, Unrestored
    <2>4. Backed => Backed'
      BY <2>1, <2>2, Zenon DEF Backed
    <2>5. Exclusive => Exclusive'
      BY <2>1, <2>2, SMTT(30) DEF Exclusive
    <2>6. Unseen => Unseen'
      BY <2>1, <2>2 DEF Unseen
    <2> QED
      BY <2>1, <2>3, <2>4, <2>5, <2>6, Zenon DEF GivenInv
  <1>2. CASE restored'
    BY <1>2, Zenon DEF GivenInv
  <1>3. ASSUME Next, ~restored' PROVE ~restored
    <2>1. ASSUME NEW t \in Task, Step(t) PROVE restored' \in {restored, TRUE}
      <3>1. CASE \/ PrepareSend(t) \/ Reserve(t) \/ Confirm(t) \/ ConfirmCheck(t)
                 \/ ConfirmSend(t) \/ CancelCheck(t) \/ Cancel(t) \/ Receive(t)
                 \/ ReceiveSwap(t) \/ MintTokens(t) \/ MeltSelect(t) \/ Exchange(t) \/ Melt(t)
        BY <3>1, Zenon DEF PrepareSend, Reserve, Confirm, ConfirmCheck, ConfirmSend, CancelCheck,
             Cancel, Receive, ReceiveSwap, MintTokens, MeltSelect, Exchange, Melt, history
      <3>2. CASE \/ Reclaim(t) \/ RevertTransaction(t) \/ CheckAllPendingProofs(t)
                 \/ Execute(t) \/ StartPayment(t) \/ PostFails(t) \/ SwapOk(t) \/ MeltOk(t)
                 \/ Fail(t) \/ Drop(t) \/ Restore(t) \/ RestoreBatch(t) \/ RestoreDone(t)
        BY <3>2, Zenon DEF Reclaim, RevertTransaction, CheckAllPendingProofs, Execute,
             StartPayment, PostFails, SwapOk, MeltOk, Fail, Drop, Restore, RestoreBatch,
             RestoreDone, history
      <3> QED
        BY <2>1, <3>1, <3>2, Zenon DEF Step
    <2>2. ASSUME \/ \E m \in paying : EndPayment(m)
                 \/ \E p \in Proof : Redeem(p)
                 \/ LoseStore
          PROVE  restored' = restored
      BY <2>2, Zenon DEF EndPayment, Redeem, LoseStore, history
    <2> QED
      BY <1>3, <2>1, <2>2, Zenon DEF Next
  <1>4. ASSUME ~restored, NEW t \in Task, Step(t), ~restored' PROVE GivenInv'
    <2>1. CASE \/ PrepareSend(t) \/ Reserve(t) \/ Confirm(t) \/ ConfirmCheck(t)
               \/ ConfirmSend(t) \/ CancelCheck(t) \/ Cancel(t)
      BY <2>1, SendSteps, SendClaims, ClaimStepKeeps, Zenon
    <2>2. CASE \/ Receive(t) \/ ReceiveSwap(t) \/ MintTokens(t) \/ MeltSelect(t) \/ Exchange(t)
               \/ Melt(t) \/ Reclaim(t) \/ RevertTransaction(t) \/ CheckAllPendingProofs(t)
      BY <1>4, <2>2, RequestSteps, RequestClaims, ClaimStepKeeps, Zenon
    <2>3. CASE PostFails(t) \/ SwapOk(t) \/ MeltOk(t) \/ Fail(t) \/ Drop(t)
      BY <2>3, AnswerSteps, AnswerClaims, ClaimStepKeeps, Zenon
    <2>4. CASE Restore(t) \/ RestoreBatch(t) \/ RestoreDone(t)
      BY <1>4, <2>4, Zenon DEF Restore, RestoreBatch, RestoreDone, GivenInv, Unrestored
    <2>5. CASE Execute(t) \/ StartPayment(t)
      BY <1>4, <2>5, ExecuteClaims, StartPaymentClaims, Zenon
    <2> QED
      BY <1>4, <2>1, <2>2, <2>3, <2>4, <2>5, Zenon DEF Step
  <1> QED
    BY <1>1, <1>2, <1>3, <1>4, EndPaymentClaims, RedeemClaims, LoseStoreClaims, Zenon DEF Next

(***************************************************************************)
(* As long as no restore has run, a proof that no two tasks had in hand at *)
(* once is given away once at most, and is never again shown as unspent:   *)
(* not when tasks are dropped, answers are lost, a melt fails and is       *)
(* reclaimed, or the whole store is lost (send, melt, reclaim_unspent).    *)
(***************************************************************************)
THEOREM NoSecondGiving == Spec => []GivenOnce
  <1>1. WalletInv /\ GivenInv => GivenOnce
    BY Zenon DEF GivenInv, Exclusive, GivenOnce
  <1> QED
    BY <1>1, WalletInit, WalletNext, GivenInit, GivenNext, PTL DEF Spec

-----------------------------------------------------------------------------
(* A restore finds what was signed.                                        *)

(***************************************************************************)
(* Task t has asked for k batches.  The last ones, as many as it counts,   *)
(* were empty, and what the others had is stored or spent.                 *)
(***************************************************************************)
Progress(t, k) ==
    /\ task[t].from = k * Batch
    /\ task[t].empty <= k
    /\ \A j \in Nat : k <= j + task[t].empty /\ j < k => EmptyBatch(j)
    /\ \A i \in signed : i <= task[t].from => mint[i] = "Spent" \/ store[i] # "none"

(***************************************************************************)
(* The inductive invariant of RestoreComplete.                             *)
(***************************************************************************)
RestoreInv ==
    /\ \A i \in signed : i \in Index /\ mint[i] # "unsigned"
    /\ ~restored => Unrestored
    /\ \A t \in Task : task[t].pc = "restore" => \E k \in Nat : Progress(t, k)

(***************************************************************************)
(* Secret i is in batch k exactly if it is asked for after k batches.      *)
(***************************************************************************)
LEMMA Batches ==
    ASSUME NEW i \in Index, NEW k \in Nat
    PROVE  /\ BatchOf(i) \in Nat
           /\ BatchOf(i) = k => k * Batch < i /\ i <= k * Batch + Batch
           /\ k * Batch < i => k <= BatchOf(i)
  <1> DEFINE q == BatchOf(i)
  <1>1. Batch \in Nat /\ Batch > 0 /\ i \in Nat /\ i - 1 \in Nat
    BY WalletConstants DEF Index
  <1>2. q \in Nat
    BY <1>1 DEF BatchOf
  <1>3. i - 1 = Batch * q + ((i - 1) % Batch) /\ (i - 1) % Batch \in 0..(Batch - 1)
    BY <1>1 DEF BatchOf
  <1> HIDE DEF q
  <1>4. q * Batch < i /\ i <= q * Batch + Batch
    BY <1>1, <1>2, <1>3, SMTT(30)
  <1>5. ASSUME q < k PROVE q * Batch + Batch <= k * Batch
    <2>1. PICK d \in Nat : k = q + 1 + d
      <3>1. k - q - 1 \in Nat
        BY <1>2, <1>5
      <3> QED
        BY <1>2, <3>1
    <2>2. k * Batch = q * Batch + Batch + d * Batch
      BY <1>1, <1>2, <2>1
    <2>3. d * Batch \in Nat /\ q * Batch \in Nat
      BY <1>1, <1>2
    <2> QED
      BY <1>1, <2>2, <2>3
  <1>6. q * Batch \in Nat /\ k * Batch \in Nat
    BY <1>1, <1>2
  <1>7. k * Batch < i => k <= q
    BY <1>1, <1>2, <1>4, <1>5, <1>6, SMTT(30)
  <1> QED
    BY <1>2, <1>4, <1>7 DEF q

(***************************************************************************)
(* A step that takes no signature back, removes only rows of spent proofs  *)
(* and leaves a task that restores alone.                                  *)
(***************************************************************************)
LEMMA RestoreKept ==
    ASSUME RestoreInv, signed' \subseteq signed, restored' = restored,
           \A p \in Proof : /\ mint[p] # "unsigned" => mint'[p] # "unsigned"
                            /\ mint[p] = "Spent" => mint'[p] = "Spent"
                            /\ store[p] # "none" /\ store'[p] = "none" => mint'[p] = "Spent",
           \A u \in Task : task'[u].pc = "restore" => task'[u] = task[u]
    PROVE  RestoreInv'
  <1>1. \A i \in signed : i \in Proof /\ i \in Index /\ mint[i] # "unsigned"
    BY Zenon DEF RestoreInv, Proof
  <1>2. ~restored' => Unrestored'
    BY Zenon DEF RestoreInv, Unrestored
  <1>3. ASSUME NEW u \in Task, task'[u].pc = "restore" PROVE \E k \in Nat : Progress(u, k)'
    <2>1. task'[u] = task[u]
      BY <1>3, Zenon
    <2>2. PICK k \in Nat : Progress(u, k)
      BY <1>3, <2>1, Zenon DEF RestoreInv
    <2>3. \A j \in Nat : EmptyBatch(j) => EmptyBatch(j)'
      BY Zenon DEF EmptyBatch, BatchOf
    <2>4. \A i \in signed' : i <= task[u].from => mint'[i] = "Spent" \/ store'[i] # "none"
      BY <1>1, <2>2, Zenon DEF Progress
    <2>5. Progress(u, k)'
      BY <2>1, <2>2, <2>3, <2>4, Zenon DEF Progress
    <2> QED
      BY <2>5, Zenon
  <1> QED
    BY <1>1, <1>2, <1>3, Zenon DEF RestoreInv

(***************************************************************************)
(* No other step of a task begins or goes on with a restore.               *)
(***************************************************************************)
LEMMA OtherSteps ==
    ASSUME WalletInv, NEW t \in Task, Step(t), ~Restore(t), ~RestoreBatch(t), ~RestoreDone(t)
    PROVE  /\ signed' = signed /\ restored' = restored
           /\ task'[t].pc # "restore"
  <1> USE DEF history
  <1>1. CASE \/ Reserve(t) \/ ConfirmCheck(t) \/ ConfirmSend(t) \/ CancelCheck(t) \/ Cancel(t)
             \/ Execute(t) \/ StartPayment(t) \/ PostFails(t) \/ MeltOk(t) \/ Fail(t) \/ Drop(t)
    <2>1. /\ signed' = signed /\ restored' = restored
          /\ \/ End(t)
             \/ \E pc \in {"prepared", "checked", "cancelling", "ok", "failed", "waiting",
                           "reclaim"} : Go(t, pc)
      BY <1>1, ZenonT(30) DEF Reserve, ConfirmCheck, ConfirmSend, CancelCheck, Cancel, Execute,
                         StartPayment, PostFails, MeltOk, Fail, Drop
    <2> QED
      BY <2>1, EndClaims, GoClaims, SMTT(30)
  <1>2. CASE Confirm(t) \/ ReceiveSwap(t) \/ Exchange(t) \/ Reclaim(t)
    <2>1. /\ signed' = signed /\ restored' = restored
          /\ \/ End(t) \/ Go(t, "swapped")
             \/ \E op, send, ins, n : CreateSwap(t, op, send, ins, n)
      BY <1>2, Zenon DEF Confirm, ReceiveSwap, Exchange, Reclaim
    <2>2. ASSUME NEW op, NEW send, NEW ins, NEW n, CreateSwap(t, op, send, ins, n)
          PROVE  task'[t].pc = "posting"
      BY <2>2, SwapClaims, SMTT(30)
    <2> QED
      BY <2>1, <2>2, EndClaims, GoClaims, SMTT(30)
  <1>3. CASE PrepareSend(t) \/ Receive(t) \/ MeltSelect(t)
    <2>1. /\ signed' = signed /\ restored' = restored
          /\ \E op, send, ins : Take(t, op, send, ins)
      BY <1>3, Zenon DEF PrepareSend, Receive, MeltSelect
    <2>2. ASSUME NEW op, NEW send, NEW ins, Take(t, op, send, ins)
          PROVE  task'[t].pc = "selected"
      BY <2>2, TakeClaims
    <2> QED
      BY <2>1, <2>2
  <1>4. CASE MintTokens(t) \/ RevertTransaction(t) \/ Melt(t) \/ CheckAllPendingProofs(t)
    <2>1. /\ signed' = signed /\ restored' = restored
      BY <1>4, Zenon DEF MintTokens, RevertTransaction, Melt, CheckAllPendingProofs
    <2>2. task \in [Task -> TaskRec] /\ task[t] \in TaskRec
      BY Zenon DEF WalletInv, Types
    <2>3. \/ task'[t] = [Idle EXCEPT !.op = "mint", !.pc = "posting", !.outs = Derived(1)]
          \/ \E ys : task'[t] = [Idle EXCEPT !.op = "revert", !.pc = "reclaim", !.ins = ys]
          \/ task'[t] = [task[t] EXCEPT !.pc = "posting", !.outs = Derived(1)]
          \/ task'[t].pc = "idle"
      BY <1>4, <2>2, Zenon DEF MintTokens, RevertTransaction, Melt, CheckAllPendingProofs, Start
    <2>4. task'[t].pc \in {"posting", "reclaim", "idle"}
      BY <2>2, <2>3, ZenonT(30) DEF Idle, TaskRec
    <2> QED
      BY <2>1, <2>4
  <1>5. CASE SwapOk(t)
    <2>1. /\ signed' = signed /\ restored' = restored
          /\ \E proofs : Continue(t, proofs)
      BY <1>5, Zenon DEF SwapOk
    <2> QED
      BY <2>1, ContinueClaims, Zenon
  <1> QED
    BY <1>1, <1>2, <1>3, <1>4, <1>5, ZenonT(30) DEF Step

(***************************************************************************)
(* Restore begins with batch 0.                                            *)
(***************************************************************************)
LEMMA RestoreBegins ==
    ASSUME WalletInv, RestoreInv, NEW t \in Task, Restore(t)
    PROVE  RestoreInv'
  <1>1. /\ ~restored /\ restored' /\ mint' = mint
        /\ signed' = {i \in Index : mint[i] # "unsigned"}
        /\ task' = [task EXCEPT ![t] = [Idle EXCEPT !.op = "restore", !.pc = "restore"]]
    BY Zenon DEF Restore, Start
  <1>2. /\ \A u \in Task : task[u].pc # "restore"
        /\ \A u \in Task \ {t} : task'[u] = task[u]
        /\ task'[t] = [Idle EXCEPT !.op = "restore", !.pc = "restore"]
    BY <1>1, Zenon DEF RestoreInv, Unrestored, WalletInv, Types
  <1>3. task'[t].from = 0 /\ task'[t].empty = 0
    BY <1>2 DEF Idle
  <1>4. \A i \in signed' : i \in Nat /\ i > 0
    BY <1>1 DEF Index
  <1>5. Progress(t, 0)'
    BY <1>3, <1>4, WalletConstants DEF Progress
  <1>6. \A u \in Task : task'[u].pc = "restore" => \E k \in Nat : Progress(u, k)'
    BY <1>2, <1>5
  <1> QED
    BY <1>1, <1>6, Zenon DEF RestoreInv

(***************************************************************************)
(* A batch stores the signatures it finds, and counts if there is none.    *)
(***************************************************************************)
LEMMA RestoreGoesOn ==
    ASSUME WalletInv, RestoreInv, NEW t \in Task, RestoreBatch(t)
    PROVE  RestoreInv'
  <1> DEFINE found == {i \in Asked(t) : mint[i] # "unsigned"}
             spent == {i \in found : mint[i] = "Spent"}
  <1>1. /\ task[t].pc = "restore"
        /\ mint' = mint /\ signed' = signed /\ restored' = restored
        /\ store' = UpdateProofs({}, found, spent)
        /\ task' = [task EXCEPT ![t].from = @ + Batch,
                                ![t].empty = IF found = {} THEN @ + 1 ELSE 0]
    BY Zenon DEF RestoreBatch
  <1>2. /\ \A u \in Task \ {t} : task'[u] = task[u]
        /\ task[t] \in TaskRec
        /\ task'[t] = [task[t] EXCEPT !.from = @ + Batch,
                                      !.empty = IF found = {} THEN @ + 1 ELSE 0]
    BY <1>1 DEF WalletInv, Types
  <1>3. /\ task'[t].from = task[t].from + Batch
        /\ task'[t].empty = IF found = {} THEN task[t].empty + 1 ELSE 0
        /\ task[t].from \in Nat /\ task[t].empty \in Nat
    BY <1>2 DEF TaskRec
  <1>4. \A p \in Proof : /\ p \in found => store'[p] # "none" \/ mint[p] = "Spent"
                         /\ store[p] # "none" /\ store'[p] = "none" => mint[p] = "Spent"
    <2>1. \A p \in Proof : store'[p] = IF p \in spent THEN "none"
                                       ELSE IF p \in found THEN "Unspent" ELSE store[p]
      BY <1>1 DEF UpdateProofs
    <2> QED
      BY <2>1
  <1>5. \A i \in signed : i \in Proof /\ i \in Index /\ i \in Nat /\ mint[i] # "unsigned"
    BY DEF RestoreInv, Proof, Index
  <1>6. PICK k \in Nat : Progress(t, k)
    BY <1>1, Zenon DEF RestoreInv
  <1>7. /\ task[t].from = k * Batch /\ task[t].empty <= k
        /\ \A j \in Nat : k <= j + task[t].empty /\ j < k => EmptyBatch(j)
        /\ \A i \in signed : i <= task[t].from => mint[i] = "Spent" \/ store[i] # "none"
    BY <1>6, Zenon DEF Progress
  <1>8. \A i \in signed : task[t].from < i /\ i <= task[t].from + Batch => i \in found
    BY <1>5 DEF Asked
  <1>9. found = {} => EmptyBatch(k)
    BY <1>5, <1>7, <1>8, Batches, SMTT(30) DEF EmptyBatch
  <1> HIDE DEF found, spent
  <1>10. \A j \in Nat : EmptyBatch(j)' <=> EmptyBatch(j)
    BY <1>1, Zenon DEF EmptyBatch, BatchOf
  <1>11. Progress(t, k + 1)'
    <2>1. task'[t].from = (k + 1) * Batch
      BY <1>3, <1>7, WalletConstants, SMTT(30)
    <2>2. task'[t].empty <= k + 1
      BY <1>3, <1>7, SMTT(30)
    <2>3. \A j \in Nat : k + 1 <= j + task'[t].empty /\ j < k + 1 => EmptyBatch(j)
      BY <1>3, <1>7, <1>9, SMTT(30)
    <2>4. \A i \in signed : i <= task'[t].from => mint[i] = "Spent" \/ store'[i] # "none"
      BY <1>3, <1>4, <1>5, <1>7, <1>8, SMTT(30)
    <2> QED
      BY <1>1, <1>10, <2>1, <2>2, <2>3, <2>4, ZenonT(30) DEF Progress
  <1>12. ASSUME NEW u \in Task, u # t, task'[u].pc = "restore"
         PROVE  \E l \in Nat : Progress(u, l)'
    <2>1. PICK l \in Nat : Progress(u, l)
      BY <1>2, <1>12, Zenon DEF RestoreInv
    <2>2. Progress(u, l)'
      BY <1>1, <1>2, <1>4, <1>5, <1>10, <1>12, <2>1, ZenonT(30) DEF Progress
    <2> QED
      BY <2>2, Zenon
  <1>13. \A u \in Task : task'[u].pc = "restore" => \E l \in Nat : Progress(u, l)'
    BY <1>11, <1>12
  <1>14. restored
    BY <1>1, Zenon DEF RestoreInv, Unrestored
  <1> QED
    BY <1>1, <1>5, <1>13, <1>14, Zenon DEF RestoreInv

(***************************************************************************)
(* In the initial state nothing is being restored.                         *)
(***************************************************************************)
LEMMA RestoreInit == Init => RestoreInv
  <1> SUFFICES ASSUME Init PROVE RestoreInv
    BY Zenon
  <1>1. signed = {} /\ \A t \in Task : task[t].pc = "idle"
    BY Zenon DEF Init, Idle
  <1> QED
    BY <1>1 DEF RestoreInv, Unrestored

(***************************************************************************)
(* Every step of the wallet, the mint and the network keeps it.            *)
(***************************************************************************)
LEMMA RestoreNext == WalletInv /\ RestoreInv /\ [Next]_vars => RestoreInv'
  <1> SUFFICES ASSUME WalletInv, RestoreInv, [Next]_vars PROVE RestoreInv'
    BY Zenon
  <1>1. ASSUME NEW t \in Task, Quiet(t), signed' \subseteq signed, restored' = restored,
               task'[t].pc # "restore"
        PROVE  RestoreInv'
    <2>1. \A u \in Task : task'[u].pc = "restore" => task'[u] = task[u]
      BY <1>1, Zenon DEF Quiet, TaskStep
    <2>2. \A p \in Proof : /\ mint[p] # "unsigned" => mint'[p] # "unsigned"
                           /\ mint[p] = "Spent" => mint'[p] = "Spent"
                           /\ store[p] # "none" /\ store'[p] = "none" => mint'[p] = "Spent"
      BY <1>1, Zenon DEF Quiet, StoreStep
    <2> QED
      BY <1>1, <2>1, <2>2, RestoreKept, Zenon
  <1>2. ASSUME MintStep, store' = store, signed' = signed, restored' = restored,
               \A u \in Task : task'[u].pc = "restore" => task'[u] = task[u]
        PROVE  RestoreInv'
    BY <1>2, RestoreKept, Zenon DEF MintStep
  <1>3. ASSUME NEW t \in Task, Execute(t) \/ StartPayment(t) PROVE RestoreInv'
    <2>1. MintStep
      BY <1>3, ExecuteStep, StartPaymentStep, Zenon
    <2>2. /\ store' = store
          /\ signed' = signed /\ restored' = restored
          /\ \E pc \in {"ok", "failed", "waiting"} : Go(t, pc)
      BY <1>3, Zenon DEF Execute, StartPayment, history
    <2>3. task'[t].pc \in {"ok", "failed", "waiting"}
      BY <2>2, GoClaims, Zenon
    <2>4. \A u \in Task \ {t} : task'[u] = task[u]
      BY <2>2, Zenon DEF Go, WalletInv, Types
    <2> QED
      BY <1>2, <2>1, <2>2, <2>3, <2>4, SMTT(30)
  <1>4. ASSUME NEW m \in paying, EndPayment(m) PROVE RestoreInv'
    <2>1. MintStep
      BY <1>4, EndPaymentStep, Zenon
    <2>2. /\ store' = store
          /\ signed' = signed /\ restored' = restored
          /\ \A u \in Task : task'[u].pc = "restore" => task'[u] = task[u]
      BY <1>4 DEF EndPayment, history, WalletInv, Types, TaskRec
    <2> QED
      BY <1>2, <2>1, <2>2, Zenon
  <1>5. ASSUME NEW p \in Proof, Redeem(p) PROVE RestoreInv'
    <2>1. MintStep
      BY <1>5, RedeemStep, Zenon
    <2>2. store' = store /\ signed' = signed /\ restored' = restored /\ task' = task
      BY <1>5, Zenon DEF Redeem, history
    <2> QED
      BY <1>2, <2>1, <2>2, Zenon
  <1>6. ASSUME LoseStore PROVE RestoreInv'
    <2>1. /\ mint' = mint /\ signed' = signed
          /\ \A u \in Task : task'[u].pc = "idle"
      BY <1>6, Zenon DEF LoseStore, Idle
    <2> QED
      BY <2>1 DEF RestoreInv, Unrestored
  <1>7. ASSUME NEW t \in Task, RestoreDone(t) PROVE RestoreInv'
    <2>1. Quiet(t)
      BY <1>7, RestoreSteps, Zenon
    <2>2. signed' \subseteq signed /\ restored' = restored /\ task'[t].pc = "idle"
      BY <1>7, EndClaims, Zenon DEF RestoreDone
    <2> QED
      BY <1>1, <2>1, <2>2
  <1>8. ASSUME NEW t \in Task, Step(t) PROVE RestoreInv'
    <2>1. CASE Restore(t) \/ RestoreBatch(t) \/ RestoreDone(t)
      BY <1>7, <2>1, RestoreBegins, RestoreGoesOn, Zenon
    <2>2. CASE Execute(t) \/ StartPayment(t)
      BY <1>3, <2>2, Zenon
    <2>3. CASE ~(Restore(t) \/ RestoreBatch(t) \/ RestoreDone(t) \/ Execute(t) \/ StartPayment(t))
      <3>1. Quiet(t)
        BY <1>8, <2>3, TaskKinds, Zenon
      <3>2. signed' = signed /\ restored' = restored /\ task'[t].pc # "restore"
        BY <1>8, <2>3, OtherSteps, Zenon
      <3> QED
        BY <1>1, <3>1, <3>2, Zenon
    <2> QED
      BY <2>1, <2>2, <2>3, Zenon
  <1>9. CASE UNCHANGED vars
    BY <1>9, RestoreKept, Zenon DEF vars
  <1> QED
    BY <1>3, <1>4, <1>5, <1>6, <1>8, <1>9, ZenonT(30) DEF Next

(***************************************************************************)
(* Whatever else runs meanwhile, a restore that ends has a row for every   *)
(* unspent proof that was signed when it began, up to the first three      *)
(* empty batches in a row (restore).                                       *)
(***************************************************************************)
THEOREM RestoreFindsAll == Spec => []RestoreComplete
  <1>1. ASSUME RestoreInv PROVE RestoreComplete
    <2> SUFFICES ASSUME NEW t \in Task, task[t].pc = "restore", task[t].empty = 3,
                        NEW i \in signed, mint[i] = "Unspent", store[i] = "none"
                 PROVE  \E k \in 0..BatchOf(i) : \A j \in k..(k + 2) :
                            j < BatchOf(i) /\ EmptyBatch(j)
      BY Zenon DEF RestoreComplete, RestoreEnds
    <2>1. PICK k \in Nat : Progress(t, k)
      BY <1>1, Zenon DEF RestoreInv
    <2>2. i \in Index /\ i \in Nat
      BY <1>1 DEF RestoreInv, Index
    <2>3. /\ task[t].from = k * Batch /\ 3 <= k
          /\ \A j \in Nat : k <= j + 3 /\ j < k => EmptyBatch(j)
          /\ ~(i <= task[t].from)
      BY <2>1 DEF Progress
    <2>4. k * Batch \in Nat
      BY WalletConstants
    <2>5. BatchOf(i) \in Nat /\ k <= BatchOf(i)
      BY <2>2, <2>3, <2>4, Batches, SMTT(30)
    <2>6. k - 3 \in 0..BatchOf(i)
      BY <2>3, <2>5, SMTT(30)
    <2>7. \A j \in (k - 3)..((k - 3) + 2) : j < BatchOf(i) /\ EmptyBatch(j)
      BY <2>3, <2>5
    <2> QED
      BY <2>6, <2>7, Zenon
  <1> QED
    BY <1>1, RestoreInit, RestoreNext, WalletInvariant, PTL DEF Spec

=============================================================================
