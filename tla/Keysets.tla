------------------------------ MODULE Keysets ------------------------------
(***************************************************************************)
(* The keysets of a mint: the signatory that creates, rotates and uses     *)
(* them (crates/cdk-signatory/src/db_signatory.rs, common.rs) behind the   *)
(* pipeline of embedded.rs, and the list of them that the mint keeps       *)
(* (crates/cdk/src/mint/keysets/mod.rs).                                   *)
(*                                                                         *)
(* The pipeline hands the signatory one request at a time, so a request to *)
(* the signatory is one step here; start-up is one step per transaction.   *)
(* Nothing here is shown for a signatory behind gRPC, which is not         *)
(* serialised.  build_with_seed passes no custom derivation paths, so a    *)
(* keyset is determined by its unit, its derivation index and the number   *)
(* of its amounts; a new database has no rows without an index.            *)
(***************************************************************************)
EXTENDS Integers, FiniteSets, Functions

CONSTANTS
    Unit,
    Auth,           \* the unit of auth proofs, one of Unit
    Order,          \* numbers of amounts of a keyset (max_order)
    Fee,            \* input fees
    Config,         \* the configurations the mint may be started with
    Admin,          \* those who ask for rotations
    MaxIndex,       \* bound: derivation indices
    MaxChanges      \* bound: starts of the mint and rotations

\* A configuration gives fee and order of each supported unit; 1 is the order
\* of the auth keyset and 0 its fee.
ASSUME KeysetConstants ==
    /\ Auth \in Unit
    /\ Order \subseteq Nat /\ 1 \in Order
    /\ Fee \subseteq Nat /\ 0 \in Fee
    /\ \A c \in Config :
           /\ DOMAIN c \subseteq Unit \ {Auth}
           /\ \A u \in DOMAIN c : c[u].fee \in Fee /\ c[u].order \in Order
    /\ MaxIndex \in Nat \ {0}
    /\ MaxChanges \in Nat

Id == [unit : Unit, index : 0..MaxIndex, order : Order]

VARIABLES
    rows,       \* table keyset: a function from ids to fee and active flag
    state,      \* "down", "init" and "new" during start-up, "up"
    config,     \* what the mint was started with last
    covered,    \* the units start-up has activated a keyset of
    memory,     \* the keysets the signatory has loaded, like rows
    keysets,    \* the list of the mint, like rows
    rotating,   \* where each admin's rotate_keyset is
    list,       \* the list it has got from the signatory
    changes,    \* the number of starts and rotations
    kept,       \* history: the units supported at every start
    settled     \* history: the last rotation since the start, if any, began with no
                \* other under way, and it did not fail nor was it dropped

vars == <<rows, state, config, covered, memory, keysets, rotating, list, changes, kept, settled>>

Empty == <<>>

Init ==
    /\ rows = Empty
    /\ state = "down"
    /\ config = Empty
    /\ covered = {}
    /\ memory = Empty
    /\ keysets = Empty
    /\ rotating = [a \in Admin |-> "idle"]
    /\ list = [a \in Admin |-> Empty]
    /\ changes = 0
    /\ kept = Unit \ {Auth}
    /\ settled = TRUE

-----------------------------------------------------------------------------
(* The table.                                                              *)

IdsOf(r, u) == {k \in DOMAIN r : k.unit = u}

Active(r, u) == {k \in IdsOf(r, u) : r[k].active}

\* The row with the highest index; the order among equals is up to the database.
IsHighest(r, k) == \A j \in IdsOf(r, k.unit) : j.index <= k.index

\* Mutant: the keyset that was active before stays active.
AddActiveToo(r, k, fee) ==
    [j \in DOMAIN r \cup {k} |-> IF j = k THEN [fee |-> fee, active |-> TRUE] ELSE r[j]]

\* add_keyset_info, which replaces a row of the same id, and set_active_keyset.
AddActive(r, k, fee) ==
    [j \in DOMAIN r \cup {k} |->
        IF j = k THEN [fee |-> fee, active |-> TRUE]
        ELSE [r[j] EXCEPT !.active = @ /\ j.unit # k.unit]]

-----------------------------------------------------------------------------
(* Start-up: init_keysets, then the rest of DbSignatory::new and Mint::new. *)

\* The keyset of highest index if it is as configured, else a new one, with the
\* amounts of the old one.
Successor(r, k, c) ==
    IF r[k].fee = c[k.unit].fee /\ k.order = c[k.unit].order THEN k
    ELSE [k EXCEPT !.index = @ + 1]

InitKeysets(c) ==
    LET units == {u \in DOMAIN c : IdsOf(rows, u) # {}}
        Chosen(u) == {Successor(rows, k, c) :
                         k \in {k \in IdsOf(rows, u) : IsHighest(rows, k)}}
    IN  /\ state = "down"
        /\ changes < MaxChanges
        /\ \A u \in units : \A k \in Chosen(u) : k.index <= MaxIndex
        /\ \E new \in [units -> UNION {Chosen(u) : u \in units}] :
               /\ \A u \in units : new[u] \in Chosen(u)
               /\ rows' = [k \in DOMAIN rows \cup Range(new) |->
                              [fee |-> IF k \in DOMAIN rows THEN rows[k].fee
                                       ELSE c[k.unit].fee,
                               active |-> k \in Range(new)]]
        /\ covered' = units
        /\ config' = c
        /\ changes' = changes + 1
        /\ kept' = kept \cap DOMAIN c
        /\ state' = "init"
        /\ settled' = TRUE
        /\ UNCHANGED <<memory, keysets, rotating, list>>

\* A first keyset for the supported units that have none; the auth unit is always
\* taken as supported, but only from here on.
NewKeysets ==
    LET c == [u \in DOMAIN config \cup {Auth} |->
                 IF u \in DOMAIN config THEN config[u] ELSE [fee |-> 0, order |-> 1]]
        new == {[unit |-> u, index |-> 0, order |-> c[u].order] : u \in DOMAIN c \ covered}
    IN  /\ state = "init"
        /\ rows' = [k \in DOMAIN rows \cup new |->
                       IF k \in new THEN [fee |-> c[k.unit].fee, active |-> TRUE]
                       ELSE [rows[k] EXCEPT !.active = @ /\ k.unit \in covered]]
        /\ state' = "new"
        /\ UNCHANGED <<config, covered, memory, keysets, rotating, list, changes, kept, settled>>

\* Mutant: only the active keysets are loaded.
ReloadKeysActive(r) == [k \in {k \in DOMAIN r : r[k].active} |-> r[k]]

\* reload_keys_from_db
ReloadKeys(r) == r

\* The keysets are loaded; a mint without an active keyset does not start.
Load ==
    /\ state = "new"
    /\ IF \E u \in Unit \ {Auth} : Active(rows, u) # {}
       THEN /\ state' = "up"
            /\ memory' = ReloadKeys(rows)
            /\ keysets' = memory'
       ELSE /\ state' = "down"
            /\ UNCHANGED <<memory, keysets>>
    /\ UNCHANGED <<rows, config, covered, rotating, list, changes, kept, settled>>

-----------------------------------------------------------------------------
(* Rotation: the mint asks the signatory to rotate, asks it for the list    *)
(* and stores the list.                                                    *)

\* Mutant: the index of the new keyset is that of the active one.
PathIndexSame(u) ==
    IF Active(rows, u) = {} THEN 1
    ELSE (CHOOSE k \in Active(rows, u) : TRUE).index

PathIndex(u) ==
    IF Active(rows, u) = {} THEN 1
    ELSE (CHOOSE k \in Active(rows, u) : TRUE).index + 1

\* The signatory's part; when the reload fails the signatory has forgotten all
\* keysets, and the error ends the rotation.
RotateKeyset(a, u, order, fee) ==
    /\ state = "up"
    /\ rotating[a] = "idle"
    /\ changes < MaxChanges
    /\ PathIndex(u) <= MaxIndex
    /\ rows' = AddActive(rows, [unit |-> u, index |-> PathIndex(u), order |-> order], fee)
    /\ \/ /\ memory' = ReloadKeys(rows')
          /\ rotating' = [rotating EXCEPT ![a] = "rotated"]
          /\ settled' = \A b \in Admin : rotating[b] = "idle"
       \/ /\ memory' = Empty
          /\ settled' = FALSE
          /\ UNCHANGED rotating
    /\ changes' = changes + 1
    /\ UNCHANGED <<state, config, covered, keysets, list, kept>>

ListKeysets(a) ==
    /\ rotating[a] = "rotated"
    /\ rotating' = [rotating EXCEPT ![a] = "listed"]
    /\ list' = [list EXCEPT ![a] = memory]
    /\ UNCHANGED <<rows, state, config, covered, memory, keysets, changes, kept, settled>>

\* The signatory has rotated, but its list is not had: the request for it fails,
\* or the handler that waits for an answer is dropped.
DropRotation(a) ==
    /\ rotating[a] = "rotated"
    /\ rotating' = [rotating EXCEPT ![a] = "idle"]
    /\ settled' = FALSE
    /\ UNCHANGED <<rows, state, config, covered, memory, keysets, list, changes, kept>>

\* Mutant: the mint keeps its list.
StoreKeysetsNot(a) ==
    /\ rotating[a] = "listed"
    /\ rotating' = [rotating EXCEPT ![a] = "idle"]
    /\ list' = [list EXCEPT ![a] = Empty]
    /\ UNCHANGED <<rows, state, config, covered, memory, keysets, changes, kept, settled>>

StoreKeysets(a) ==
    /\ rotating[a] = "listed"
    /\ rotating' = [rotating EXCEPT ![a] = "idle"]
    /\ keysets' = list[a]
    /\ list' = [list EXCEPT ![a] = Empty]
    /\ UNCHANGED <<rows, state, config, covered, memory, changes, kept, settled>>

-----------------------------------------------------------------------------
(* Use.  None of these changes anything.                                   *)

\* Outputs are checked against the mint's list, and signed later.
VerifyOutputsKeysetOk(k) == k \in DOMAIN keysets /\ keysets[k].active

BlindSignOk(k) == k \in DOMAIN memory /\ memory[k].active

\* verify_proofs accepts keysets that are not active any more.
VerifyProofsOk(k) == k \in DOMAIN memory

\* The process ends, at any point of a start or of a rotation.
Crash ==
    /\ state # "down"
    /\ state' = "down"
    /\ memory' = Empty
    /\ keysets' = Empty
    /\ rotating' = [a \in Admin |-> "idle"]
    /\ list' = [a \in Admin |-> Empty]
    /\ UNCHANGED <<rows, config, covered, changes, kept, settled>>

Next ==
    \/ \E c \in Config : InitKeysets(c)
    \/ NewKeysets \/ Load \/ Crash
    \/ \E a \in Admin : \E u \in Unit, order \in Order, fee \in Fee :
           RotateKeyset(a, u, order, fee)
    \/ \E a \in Admin : ListKeysets(a) \/ DropRotation(a) \/ StoreKeysets(a)

Spec == Init /\ [][Next]_vars

-----------------------------------------------------------------------------
(* Properties.                                                             *)

\* Functions from some of the ids to rows.
IsTable(r) ==
    /\ DOMAIN r \subseteq Id
    /\ \A k \in DOMAIN r : r[k] \in [fee : Fee, active : BOOLEAN]

\* The table, its copies in the signatory and in the mint, and the rotations are
\* what the types of MintKeySetInfo, Keysets and rotate_keyset allow.
TypeOK ==
    /\ IsTable(rows) /\ IsTable(memory) /\ IsTable(keysets)
    /\ state \in {"down", "init", "new", "up"}
    /\ config = Empty \/ config \in Config
    /\ covered \subseteq Unit
    /\ rotating \in [Admin -> {"idle", "rotated", "listed"}]
    /\ \A a \in Admin : IsTable(list[a])
    /\ changes \in 0..MaxChanges
    /\ kept \subseteq Unit
    /\ settled \in BOOLEAN

\* No unit has two active keysets, in the table, in the signatory or in the list
\* of the mint: a wallet that asks for the keyset of a unit finds one.  After a
\* start each configured unit has one, the latest of its unit, with the configured
\* fee, whatever rotations and starts came before (init_keysets,
\* set_active_keyset, reload_keys_from_db).
OneActive ==
    /\ \A r \in {rows, memory, keysets} : \A u \in Unit : Cardinality(Active(r, u)) <= 1
    /\ state = "new" =>
           \A u \in DOMAIN config : \E k \in Active(rows, u) :
               rows[k].fee = config[u].fee /\ IsHighest(rows, k)

\* What a keyset signs can be redeemed for ever: no rotation and no restart with
\* whatever configuration makes a running signatory forget a keyset of the table,
\* unless a reload failed, which makes it forget all of them.
SignedIsRedeemable ==
    state = "up" /\ memory # Empty => \A k \in DOMAIN rows : VerifyProofsOk(k)

\* A rotation that runs alone and to its end leaves the mint offering what the
\* signatory signs with, whatever came before it: it repairs a list that stayed
\* behind because rotations overlapped, failed or were dropped after the signatory
\* had rotated (Mint::rotate_keyset).  So does a start.
ListIsCurrent ==
    state = "up" /\ settled /\ (\A a \in Admin : rotating[a] = "idle") =>
        \A k \in Id : VerifyOutputsKeysetOk(k) <=> BlindSignOk(k)

\* However old it is, the list that the mint offers to wallets and computes fees
\* from has only keysets of the table, and for a unit that was supported at every
\* start with the fees of the table: a list that stayed behind, or was replaced by
\* an older one, lacks keysets but never charges another fee than a list that did
\* not (Mint::rotate_keyset, get_proofs_fee).
ListedIsTrue ==
    \A k \in DOMAIN keysets :
        /\ k \in DOMAIN rows
        /\ k.unit \in kept => keysets[k].fee = rows[k].fee

\* Rotation and restart never change the fee of a keyset, as long as the unit is
\* supported at every start: wallets keep the fee of a keyset they know, and a
\* rotation gives them a new one (rotate_keyset, add_keyset_info).  For the auth
\* unit, and for a unit that was not supported for a while, the index starts
\* again and an old row is replaced.
FeeIsFinal ==
    [][\A k \in DOMAIN rows :
          /\ k \in DOMAIN rows'
          /\ k.unit \in kept' => rows'[k].fee = rows[k].fee]_vars

=============================================================================
