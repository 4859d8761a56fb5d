----------------------------- MODULE SwapLedger -----------------------------
(***************************************************************************)
(* What a swap promises, whatever requests run side by side and whatever   *)
(* fails: the mint keeps the set of spent proofs and the set of signed     *)
(* messages, and changes them together, in one step, for one acceptable    *)
(* trade whose inputs are unspent and whose outputs are unsigned.          *)
(***************************************************************************)
CONSTANT Trades  \* the acceptable trades, records [inputs, outputs]

VARIABLES
    spent,   \* the proofs that have been spent
    issued   \* the blinded messages that have been signed

Init ==
    /\ spent = {}
    /\ issued = {}

Swap(t) ==
    /\ t.inputs \cap spent = {}
    /\ t.outputs \cap issued = {}
    /\ spent' = spent \cup t.inputs
    /\ issued' = issued \cup t.outputs

Next == \E t \in Trades : Swap(t)

Spec == Init /\ [][Next]_<<spent, issued>>

=============================================================================
