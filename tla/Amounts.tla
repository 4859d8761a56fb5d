------------------------------ MODULE Amounts ------------------------------
(***************************************************************************)
(* Amounts of ecash and how they are split into the amounts that a keyset  *)
(* has keys for (cashu/src/amount.rs, and the split of change in           *)
(* cdk/src/wallet/mod.rs).  The source keeps a list of amounts and sorts   *)
(* it; here it is a bag, the number of times each amount occurs.           *)
(***************************************************************************)
EXTENDS Integers, FiniteSets, FiniteSetsExt, SequencesExt

CONSTANT Denomination    \* FeeAndAmounts::amounts, the same for every keyset

ASSUME DenominationsArePowersOfTwo ==
    \E k \in 0 .. 63 : Denomination = {2^i : i \in 0 .. k}

Descending == SetToSortSeq(Denomination, LAMBDA a, b : a > b)

NoParts == [d \in Denomination |-> 0]

Plus(p, q) == [d \in Denomination |-> p[d] + q[d]]

Minus(p, q) == [d \in Denomination |-> p[d] - q[d]]

\* The parts that p and q have in common.
Common(p, q) == [d \in Denomination |-> Min({p[d], q[d]})]

Worth(parts) == MapThenSumSet(LAMBDA d : d * parts[d], Denomination)

Count(parts) == MapThenSumSet(LAMBDA d : parts[d], Denomination)

DivCeil(ppk) == (ppk + 999) \div 1000

-----------------------------------------------------------------------------
(* Amount::split, split_targeted and split_with_fee.                       *)

Split(amount) ==
    FoldLeft(LAMBDA acc, d : [parts |-> IF acc.total >= d
                                        THEN [acc.parts EXCEPT ![d] = @ + 1]
                                        ELSE acc.parts,
                              total |-> acc.total % d],
             [parts |-> NoParts, total |-> amount], Descending).parts

\* The parts of a split from the largest on.
SplitList(amount) ==
    SelectSeq(Descending, LAMBDA d : Split(amount)[d] = 1)

\* One pass over the parts of the target value; the last part that does not fit
\* is replaced by the split of what is left.
ValueRound(amount, list, parts) ==
    FoldLeft(LAMBDA acc, d : CASE Worth(acc) = amount -> acc
                               [] d + Worth(acc) <= amount ->
                                      [acc EXCEPT ![d] = @ + 1]
                               [] OTHER -> Plus(acc, Split(amount - Worth(acc))),
             parts, list)

RECURSIVE ValueRounds(_, _, _)
ValueRounds(amount, list, parts) ==
    IF Worth(parts) < amount
    THEN ValueRounds(amount, list, ValueRound(amount, list, parts))
    ELSE parts

\* SplitTarget::Value.  A target of zero has no parts, and the loop of the source
\* would not end.
SplitByValue(amount, value) ==
    IF amount <= value THEN Split(amount)
    ELSE ValueRounds(amount, SplitList(value), NoParts)

\* SplitTarget::Values; it is an error if the values are worth more than the amount.
SplitValuesGreater(amount, values) == Worth(values) > amount

SplitByValues(amount, values) ==
    Plus(values, Split(amount - Worth(values)))

RECURSIVE SplitWithFee(_, _)
SplitWithFee(amount, ppk) ==
    LET new == amount + DivCeil(ppk * Count(Split(amount)))
        net == new - DivCeil(ppk * Count(Split(new)))
    IN  IF net >= amount THEN Split(new) ELSE SplitWithFee(amount + 1, ppk)

-----------------------------------------------------------------------------
(* The split of change.                                                    *)

\* amounts_needed_for_state_target, for the unspent proofs held of each amount
AmountsNeeded(held, target) ==
    [d \in Denomination |-> Max({0, target - held[d]})]

\* Mutant: a value is added although the sum passes the change.
FittingOver(sum, d, change) == (change - sum + d - 1) \div d

\* How many more of d keep the sum within the change.
Fitting(sum, d, change) == (change - sum) \div d

\* determine_split_target_values: the needed amounts from the smallest on, each
\* one as long as the sum stays within the change.
DetermineSplitTargetValues(change, needed) ==
    LET Take(acc, d) ==
            LET n == Min({needed[d], Fitting(acc.sum, d, change)})
            IN  [parts |-> [acc.parts EXCEPT ![d] = n], sum |-> acc.sum + n * d]
    IN  FoldLeft(Take, [parts |-> NoParts, sum |-> 0], Reverse(Descending)).parts

=============================================================================
