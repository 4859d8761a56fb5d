------------------------------- MODULE MintDb -------------------------------
(***************************************************************************)
(* The tables of the mint database that the transactions of a swap touch,  *)
(* and the statements on them (crates/cdk-sql-common/src/mint/mod.rs).     *)
(*                                                                         *)
(* proof            a function from the key Y of a proof to its state;     *)
(*                  "None" means that the table has no row for it.         *)
(* blind_signature  a function from a blinded message to "None" (no row),  *)
(*                  "Blinded" (a row whose column c is NULL) or "Signed".  *)
(*                                                                         *)
(* A statement S is a pair of operators: SOk(table, ...) says that it      *)
(* returns Ok, and S(table, ...) is the table it leaves in that case.  A   *)
(* statement that returns Err leaves its transaction to be rolled back, so *)
(* it has no effect.  The operation_id columns are written and never read  *)
(* by the mint: they are left out.                                         *)
(***************************************************************************)
EXTENDS Naturals

ProofState == {"None", "Unspent", "Pending", "Spent"}

MessageState == {"None", "Blinded", "Signed"}

CheckStateTransition(current, new) ==
    \/ current = "Unspent" /\ new \in {"Pending", "Spent"}
    \/ current = "Pending" /\ new \in {"Unspent", "Spent"}

-----------------------------------------------------------------------------
(* The proof table.                                                        *)

SetAll(table, keys, value) ==
    [k \in DOMAIN table |-> IF k \in keys THEN value ELSE table[k]]

\* Any row for one of the proofs is an error, whatever its state.
AddProofsOk(proofs, ys) ==
    \A y \in ys : proofs[y] = "None"

AddProofs(proofs, ys) ==
    SetAll(proofs, ys, "Unspent")

UpdateProofsStatesOk(proofs, ys, new) ==
    \A y \in ys : proofs[y] # "None" /\ CheckStateTransition(proofs[y], new)

UpdateProofsStates(proofs, ys, new) ==
    SetAll(proofs, ys, new)

\* Mutant: the exclusion of spent rows from the DELETE is dropped.
DeletableSpent(proofs, ys) ==
    {y \in ys : proofs[y] # "None"}

\* The rows that the DELETE of remove_proofs matches: it excludes spent ones.
Deletable(proofs, ys) ==
    {y \in ys : proofs[y] \in {"Unspent", "Pending"}}

(***************************************************************************)
(* As many rows must be deleted as there are keys: a key with a spent row  *)
(* is an error, and so is a key without a row.                             *)
(***************************************************************************)
RemoveProofsOk(proofs, ys) ==
    Deletable(proofs, ys) = ys

RemoveProofs(proofs, ys) ==
    SetAll(proofs, Deletable(proofs, ys), "None")

-----------------------------------------------------------------------------
(* The blind_signature table.                                              *)

\* The primary key refuses a message that has a row, signed or not.
AddBlindedMessagesOk(messages, bs) ==
    \A b \in bs : messages[b] = "None"

AddBlindedMessages(messages, bs) ==
    SetAll(messages, bs, "Blinded")

\* Mutant: the messages are not deleted at all.
DeleteBlindedMessagesSkipped(messages, bs) ==
    messages

\* Only unsigned rows are deleted, and their number is not checked.
DeleteBlindedMessages(messages, bs) ==
    SetAll(messages, {b \in bs : messages[b] = "Blinded"}, "None")

\* A message without a row is inserted, an unsigned one updated.
AddBlindSignaturesOk(messages, bs) ==
    \A b \in bs : messages[b] # "Signed"

AddBlindSignatures(messages, bs) ==
    SetAll(messages, bs, "Signed")

=============================================================================
