--------------------------- MODULE KeysetsProofs ---------------------------
(***************************************************************************)
(* Proofs about Keysets, for any units, orders, fees, configurations and   *)
(* number of admins, starts, crashes and rotations.                        *)
(***************************************************************************)
EXTENDS Keysets, FiniteSetTheorems, TLAPS

(***************************************************************************)
(* No two keysets of a unit are active.                                    *)
(***************************************************************************)
Unique(r) ==
    \A j, k \in DOMAIN r : r[j].active /\ r[k].active /\ j.unit = k.unit => j = k

\* The active keyset of u is its latest.
Latest(r, u) == \E k \in Active(r, u) : IsHighest(r, k)

Configured(r, u) == \E k \in Active(r, u) : r[k].fee = config[u].fee /\ IsHighest(r, k)

Tables ==
    /\ Unique(rows) /\ Unique(memory) /\ Unique(keysets)
    /\ DOMAIN list = Admin /\ list = [a \in Admin |-> list[a]]
    /\ \A a \in Admin : Unique(list[a])

(***************************************************************************)
(* Where a start is.  After init_keysets nothing is active but the latest  *)
(* keysets of the configured units that had one; after that every          *)
(* configured unit has one.  A unit that was supported at every start has  *)
(* its latest keyset active, also between starts.                          *)
(***************************************************************************)
Starting ==
    /\ \A u \in kept : IdsOf(rows, u) # {} => Latest(rows, u)
    /\ state \in {"init", "new"} => config \in Config
    /\ state = "init" =>
          /\ kept \subseteq DOMAIN config
          /\ covered = {u \in DOMAIN config : IdsOf(rows, u) # {}}
          /\ \A u \in covered : Configured(rows, u)
    /\ state = "new" => \A u \in DOMAIN config : Configured(rows, u)
    /\ Auth \notin kept

(***************************************************************************)
(* What the copies of the table are.  Unless a reload failed, the          *)
(* signatory's is the table; if the last rotation runs or ran alone and    *)
(* well, so is the list it has got, and the mint's if it has ended.        *)
(***************************************************************************)
Copies ==
    /\ state # "up" => \A a \in Admin : rotating[a] = "idle"
    /\ state = "up" /\ (settled \/ memory # Empty) => memory = rows
    /\ state = "up" /\ settled =>
          /\ \A a, b \in Admin : rotating[a] # "idle" /\ rotating[b] # "idle" => a = b
          /\ \A a \in Admin : rotating[a] = "listed" => list[a] = memory
          /\ (\A a \in Admin : rotating[a] = "idle") => keysets = memory

KeysetsInv == TypeOK /\ Tables /\ Starting /\ Copies

-----------------------------------------------------------------------------
(***************************************************************************)
(* Before the first start the table and its copies are empty.              *)
(***************************************************************************)
LEMMA KeysetsInit == Init => KeysetsInv
  <1> SUFFICES ASSUME Init PROVE KeysetsInv
    BY Zenon
  <1>1. DOMAIN Empty = {}
    BY DEF Empty
  <1>2. TypeOK
    BY <1>1, KeysetConstants DEF Init, TypeOK, IsTable
  <1>3. Tables
    BY <1>1, Zenon DEF Init, Tables, Unique
  <1>4. Starting
    BY <1>1, Zenon DEF Init, Starting, IdsOf
  <1>5. Copies
    BY Zenon DEF Init, Copies
  <1> QED
    BY <1>2, <1>3, <1>4, <1>5, Zenon DEF KeysetsInv

(***************************************************************************)
(* init_keysets: each configured unit that has keysets gets its latest one *)
(* active, or one after it; the fee of a row is never changed.             *)
(***************************************************************************)
LEMMA InitKeysetsRows ==
    ASSUME KeysetsInv, NEW c \in Config, InitKeysets(c)
    PROVE  /\ IsTable(rows')
           /\ Unique(rows')
           /\ \A u \in Unit : IdsOf(rows', u) # {} => IdsOf(rows, u) # {}
           /\ \A u \in DOMAIN c : IdsOf(rows, u) # {} =>
                 \E k \in Active(rows', u) :
                    rows'[k].fee = c[u].fee /\ IsHighest(rows', k)
           /\ \A k \in DOMAIN rows : k \in DOMAIN rows' /\ rows'[k].fee = rows[k].fee
  <1> DEFINE units == {u \in DOMAIN c : IdsOf(rows, u) # {}}
             Chosen(u) == {Successor(rows, k, c) :
                             k \in {k \in IdsOf(rows, u) : IsHighest(rows, k)}}
  <1>1. PICK new \in [units -> UNION {Chosen(u) : u \in units}] :
            /\ \A u \in units : new[u] \in Chosen(u)
            /\ rows' = [k \in DOMAIN rows \cup Range(new) |->
                           [fee |-> IF k \in DOMAIN rows THEN rows[k].fee
                                    ELSE c[k.unit].fee,
                            active |-> k \in Range(new)]]
    BY Zenon DEF InitKeysets
  <1>2. \A u \in units : \A k \in Chosen(u) : k.index <= MaxIndex
    BY Zenon DEF InitKeysets
  <1>3. IsTable(rows) /\ DOMAIN c \subseteq Unit /\ Fee \subseteq Nat
    BY KeysetConstants, Zenon DEF KeysetsInv, TypeOK
  <1>4. ASSUME NEW u \in units
        PROVE  /\ new[u] \in Id /\ new[u].unit = u
               /\ \A j \in IdsOf(rows, u) : j.index <= new[u].index
               /\ new[u] \in DOMAIN rows => rows[new[u]].fee = c[u].fee
    <2>1. PICK k \in IdsOf(rows, u) : IsHighest(rows, k) /\ new[u] = Successor(rows, k, c)
      BY <1>1, Zenon
    <2>2. k \in Id /\ k.unit = u /\ k \in DOMAIN rows
      BY <1>3, <2>1, Zenon DEF IdsOf, IsTable
    <2>3. \A j \in IdsOf(rows, u) : j.index <= k.index /\ j.index \in Nat
      BY <1>3, <2>1, <2>2 DEF IsHighest, IdsOf, IsTable, Id
    <2>4. CASE new[u] = k /\ rows[k].fee = c[u].fee
      BY <2>2, <2>3, <2>4, Zenon
    <2>5. CASE new[u] = [k EXCEPT !.index = @ + 1]
      <3>1. new[u].index <= MaxIndex
        BY <1>1, <1>2, Zenon
      <3>2. new[u] \in Id /\ new[u].unit = u /\ new[u].index = k.index + 1
        BY <2>2, <2>5, <3>1, KeysetConstants DEF Id
      <3>3. new[u] \notin DOMAIN rows
        BY <2>2, <2>3, <3>2 DEF IdsOf, Id
      <3> QED
        BY <2>2, <2>3, <3>2, <3>3 DEF Id
    <2> QED
      BY <2>1, <2>2, <2>4, <2>5, Zenon DEF Successor
  <1>5. Range(new) = {new[u] : u \in units}
    BY Zenon DEF Range
  <1> HIDE DEF Chosen
  <1>6. IsTable(rows')
    <2>1. Range(new) \subseteq Id
      BY <1>4, <1>5, Zenon
    <2>2. \A k \in Range(new) : c[k.unit].fee \in Fee
      BY <1>4, <1>5, KeysetConstants
    <2> QED
      BY <1>1, <1>3, <2>1, <2>2 DEF IsTable
  <1>7. Unique(rows')
    <2>1. \A k \in DOMAIN rows' : rows'[k].active => k \in Range(new)
      BY <1>1, Zenon
    <2>2. \A j, k \in Range(new) : j.unit = k.unit => j = k
      BY <1>4, <1>5
    <2> QED
      BY <2>1, <2>2, Zenon DEF Unique
  <1>8. \A u \in Unit : IdsOf(rows', u) # {} => IdsOf(rows, u) # {}
    BY <1>1, <1>4, <1>5 DEF IdsOf
  <1>9. ASSUME NEW u \in units
        PROVE  \E k \in Active(rows', u) : rows'[k].fee = c[u].fee /\ IsHighest(rows', k)
    <2>1. new[u] \in Active(rows', u) /\ rows'[new[u]].fee = c[u].fee
      BY <1>1, <1>4, <1>5, Zenon DEF Active, IdsOf
    <2>2. ASSUME NEW j \in IdsOf(rows', u) PROVE j.index <= new[u].index
      <3>1. CASE j \in DOMAIN rows
        BY <1>4, <2>2, <3>1, Zenon DEF IdsOf
      <3>2. CASE j \in Range(new)
        <4>1. PICK v \in units : j = new[v]
          BY <1>5, <3>2, Zenon
        <4>2. v = u
          BY <1>4, <2>2, <4>1, Zenon DEF IdsOf
        <4> QED
          BY <1>4, <4>1, <4>2 DEF Id
      <3> QED
        BY <1>1, <2>2, <3>1, <3>2, Zenon DEF IdsOf
    <2>3. IsHighest(rows', new[u])
      BY <1>4, <2>2, Zenon DEF IsHighest
    <2> QED
      BY <2>1, <2>3, Zenon
  <1>10. \A k \in DOMAIN rows : k \in DOMAIN rows' /\ rows'[k].fee = rows[k].fee
    BY <1>1, Zenon
  <1> QED
    BY <1>6, <1>7, <1>8, <1>9, <1>10, Zenon

(***************************************************************************)
(* The step of init_keysets.  Units that are not configured leave kept.    *)
(***************************************************************************)
LEMMA InitKeysetsStep ==
    ASSUME KeysetsInv, NEW c \in Config, InitKeysets(c)
    PROVE  KeysetsInv'
  <1>1. /\ state = "down" /\ state' = "init" /\ config' = c /\ changes < MaxChanges
        /\ covered' = {u \in DOMAIN c : IdsOf(rows, u) # {}}
        /\ changes' = changes + 1 /\ kept' = kept \cap DOMAIN c /\ settled' = TRUE
        /\ memory' = memory /\ keysets' = keysets /\ rotating' = rotating /\ list' = list
    BY Zenon DEF InitKeysets
  <1>2. /\ IsTable(rows')
        /\ Unique(rows')
        /\ \A u \in Unit : IdsOf(rows', u) # {} => IdsOf(rows, u) # {}
        /\ \A u \in DOMAIN c : IdsOf(rows, u) # {} =>
              \E k \in Active(rows', u) :
                 rows'[k].fee = c[u].fee /\ IsHighest(rows', k)
    BY InitKeysetsRows, Zenon
  <1>3. DOMAIN c \subseteq Unit /\ MaxChanges \in Nat
    BY KeysetConstants, Zenon
  <1>4. TypeOK'
    <2>1. changes' \in 0..MaxChanges
      BY <1>1, <1>3 DEF KeysetsInv, TypeOK
    <2>2. covered' \subseteq Unit /\ kept' \subseteq Unit
      BY <1>1, <1>3, Zenon
    <2> QED
      BY <1>1, <1>2, <2>1, <2>2, Zenon DEF KeysetsInv, TypeOK
  <1>5. Tables'
    BY <1>1, <1>2, Zenon DEF KeysetsInv, Tables
  <1>6. Starting'
    <2>1. \A u \in DOMAIN c : IdsOf(rows, u) # {} => IdsOf(rows', u) # {}
      BY <1>2, Zenon DEF Active
    <2>2. \A u \in DOMAIN c : IdsOf(rows, u) # {} =>
              Latest(rows', u) /\ Configured(rows, u)'
      BY <1>1, <1>2, Zenon DEF Latest, Configured
    <2>3. covered' = {u \in DOMAIN c : IdsOf(rows', u) # {}}
      BY <1>1, <1>2, <1>3, <2>1, Zenon
    <2>4. \A u \in kept' : IdsOf(rows', u) # {} => Latest(rows', u)
      BY <1>1, <1>2, <1>3, <2>2, Zenon
    <2> QED
      BY <1>1, <2>2, <2>3, <2>4, Zenon DEF KeysetsInv, Starting
  <1>7. Copies'
    BY <1>1, Zenon DEF KeysetsInv, Copies
  <1> QED
    BY <1>4, <1>5, <1>6, <1>7, Zenon DEF KeysetsInv

(***************************************************************************)
(* The rest of the start: a first keyset for the units without an active   *)
(* one.  Only for units that were not supported at every start can this    *)
(* replace a row.                                                          *)
(***************************************************************************)
LEMMA NewKeysetsRows ==
    ASSUME KeysetsInv, NewKeysets
    PROVE  /\ IsTable(rows')
           /\ Unique(rows')
           /\ \A u \in DOMAIN config : Configured(rows', u)
           /\ \A k \in DOMAIN rows :
                 /\ k \in DOMAIN rows'
                 /\ k.unit \in kept => rows'[k].fee = rows[k].fee
           /\ \A u \in kept : Latest(rows', u)
  <1> DEFINE c == [u \in DOMAIN config \cup {Auth} |->
                      IF u \in DOMAIN config THEN config[u] ELSE [fee |-> 0, order |-> 1]]
             new == {[unit |-> u, index |-> 0, order |-> c[u].order] : u \in DOMAIN c \ covered}
  <1>1. rows' = [k \in DOMAIN rows \cup new |->
                    IF k \in new THEN [fee |-> c[k.unit].fee, active |-> TRUE]
                    ELSE [rows[k] EXCEPT !.active = @ /\ k.unit \in covered]]
    BY Zenon DEF NewKeysets
  <1>2. /\ config \in Config /\ kept \subseteq DOMAIN config /\ Auth \notin kept
        /\ covered = {u \in DOMAIN config : IdsOf(rows, u) # {}}
        /\ \A u \in covered : Configured(rows, u)
        /\ IsTable(rows) /\ Unique(rows)
    BY Zenon DEF KeysetsInv, Starting, Tables, TypeOK, NewKeysets
  <1>3. /\ DOMAIN config \subseteq Unit \ {Auth}
        /\ \A u \in DOMAIN config : config[u].fee \in Fee /\ config[u].order \in Order
        /\ Auth \in Unit /\ 0 \in Fee /\ 1 \in Order /\ 0 \in 0..MaxIndex
    BY <1>2, KeysetConstants
  <1>4. /\ DOMAIN c = DOMAIN config \cup {Auth}
        /\ \A u \in DOMAIN config : c[u] = config[u]
        /\ c[Auth].fee = 0 /\ c[Auth].order = 1
    BY <1>3, Zenon
  <1> HIDE DEF c
  <1>5. \A k \in new : /\ k \in Id /\ k.unit \in DOMAIN c \ covered
                       /\ k = [unit |-> k.unit, index |-> 0, order |-> c[k.unit].order]
    BY <1>3, <1>4 DEF Id
  <1>6. \A u \in DOMAIN c \ covered :
            \E k \in new : k.unit = u
    <2> TAKE u \in DOMAIN c \ covered
    <2>1. [unit |-> u, index |-> 0, order |-> c[u].order] \in new
      BY Zenon
    <2> QED
      BY <2>1, Zenon
  <1> HIDE DEF new
  <1>7. IsTable(rows')
    <2>1. ASSUME NEW k \in new PROVE c[k.unit].fee \in Fee
      BY <1>3, <1>4, <1>5, Zenon
    <2>2. ASSUME NEW k \in DOMAIN rows
          PROVE  [rows[k] EXCEPT !.active = @ /\ k.unit \in covered]
                     \in [fee : Fee, active : BOOLEAN]
      BY <1>2, Zenon DEF IsTable
    <2>3. DOMAIN rows' \subseteq Id
      BY <1>1, <1>2, <1>5, Zenon DEF IsTable
    <2> QED
      BY <1>1, <2>1, <2>2, <2>3, Zenon DEF IsTable
  <1>8. \A k \in DOMAIN rows' :
            \/ k \in new /\ rows'[k].active /\ rows'[k].fee = c[k.unit].fee
            \/ /\ k \in DOMAIN rows \ new /\ rows'[k].fee = rows[k].fee
               /\ rows'[k].active <=> rows[k].active /\ k.unit \in covered
    BY <1>1, <1>2, Zenon DEF IsTable
  <1>9. Unique(rows')
    BY <1>2, <1>5, <1>8 DEF Unique
  <1>10. ASSUME NEW u \in DOMAIN config PROVE Configured(rows', u)
    <2>1. CASE u \in covered
      <3>1. PICK k \in Active(rows, u) : rows[k].fee = config[u].fee /\ IsHighest(rows, k)
        BY <1>2, <2>1, Zenon DEF Configured
      <3>2. IdsOf(rows', u) = IdsOf(rows, u)
        BY <1>1, <1>5, <2>1, Zenon DEF IdsOf
      <3>3. k \in DOMAIN rows' /\ k \notin new /\ k.unit = u /\ rows[k].active
        BY <1>1, <1>5, <2>1, <3>1, Zenon DEF Active, IdsOf
      <3>4. k \in Active(rows', u) /\ rows'[k].fee = config[u].fee
        BY <1>8, <2>1, <3>1, <3>3, Zenon DEF Active, IdsOf
      <3>5. IsHighest(rows', k)
        BY <3>1, <3>2, <3>3, Zenon DEF IsHighest
      <3> QED
        BY <3>4, <3>5, Zenon DEF Configured
    <2>2. CASE u \notin covered
      <3>1. PICK k \in new : k.unit = u
        BY <1>4, <1>6, <2>2, Zenon
      <3>2. k \in DOMAIN rows' /\ rows'[k].fee = config[u].fee /\ rows'[k].active
        BY <1>1, <1>4, <3>1, Zenon
      <3>3. \A j \in IdsOf(rows', u) : j = k
        BY <1>1, <1>2, <1>5, <2>2, <3>1, Zenon DEF IdsOf
      <3>4. k.index = 0
        BY <1>5, <3>1
      <3>5. IsHighest(rows', k)
        BY <3>1, <3>3, <3>4 DEF IsHighest
      <3> QED
        BY <3>1, <3>2, <3>5, Zenon DEF Configured, Active, IdsOf
    <2> QED
      BY <2>1, <2>2, Zenon
  <1>11. ASSUME NEW k \in DOMAIN rows
         PROVE  k \in DOMAIN rows' /\ (k.unit \in kept => rows'[k].fee = rows[k].fee)
    <2>1. k.unit \in kept => k.unit \in covered
      BY <1>2, Zenon DEF IdsOf
    <2> QED
      BY <1>1, <1>5, <1>8, <2>1, Zenon
  <1>12. \A u \in kept : Latest(rows', u)
    BY <1>2, <1>10, Zenon DEF Latest, Configured
  <1> QED
    BY <1>7, <1>9, <1>10, <1>11, <1>12, Zenon

(***************************************************************************)
(* The step of the rest of the start.                                      *)
(***************************************************************************)
LEMMA NewKeysetsStep ==
    ASSUME KeysetsInv, NewKeysets
    PROVE  KeysetsInv'
  <1>1. /\ state = "init" /\ state' = "new" /\ config' = config /\ covered' = covered
        /\ memory' = memory /\ keysets' = keysets /\ rotating' = rotating /\ list' = list
        /\ changes' = changes /\ kept' = kept /\ settled' = settled
    BY Zenon DEF NewKeysets
  <1>2. /\ IsTable(rows') /\ Unique(rows')
        /\ \A u \in DOMAIN config : Configured(rows', u)
        /\ \A u \in kept : Latest(rows', u)
    BY NewKeysetsRows, Zenon
  <1>3. TypeOK'
    BY <1>1, <1>2, Zenon DEF KeysetsInv, TypeOK
  <1>4. Tables'
    BY <1>1, <1>2, Zenon DEF KeysetsInv, Tables
  <1>5. Starting'
    BY <1>1, <1>2, Zenon DEF KeysetsInv, Starting, Configured
  <1>6. Copies'
    BY <1>1, Zenon DEF KeysetsInv, Copies
  <1> QED
    BY <1>3, <1>4, <1>5, <1>6, Zenon DEF KeysetsInv

(***************************************************************************)
(* set_active_keyset after a rotation.  The index follows that of the      *)
(* active keyset, which for a unit that was always supported is the        *)
(* latest: the id is new, and no row is replaced.                          *)
(***************************************************************************)
LEMMA RotateRows ==
    ASSUME KeysetsInv, NEW u \in Unit, NEW order \in Order, NEW fee \in Fee,
           PathIndex(u) <= MaxIndex,
           rows' = AddActive(rows, [unit |-> u, index |-> PathIndex(u), order |-> order], fee)
    PROVE  /\ IsTable(rows') /\ Unique(rows')
           /\ \A v \in kept : IdsOf(rows', v) # {} => Latest(rows', v)
           /\ \A k \in DOMAIN rows :
                 /\ k \in DOMAIN rows'
                 /\ k.unit \in kept => rows'[k].fee = rows[k].fee
  <1> DEFINE new == [unit |-> u, index |-> PathIndex(u), order |-> order]
  <1>1. rows' = [j \in DOMAIN rows \cup {new} |->
                    IF j = new THEN [fee |-> fee, active |-> TRUE]
                    ELSE [rows[j] EXCEPT !.active = @ /\ j.unit # u]]
    BY Zenon DEF AddActive
  <1>2. IsTable(rows) /\ Unique(rows) /\ MaxIndex \in Nat \ {0}
    BY KeysetConstants, Zenon DEF KeysetsInv, TypeOK, Tables
  <1>3. PathIndex(u) \in 0..MaxIndex
    <2>1. CASE Active(rows, u) = {}
      BY <1>2, <2>1 DEF PathIndex
    <2>2. CASE Active(rows, u) # {}
      <3>1. (CHOOSE k \in Active(rows, u) : TRUE) \in Id
        BY <1>2, <2>2, Zenon DEF Active, IdsOf, IsTable
      <3> QED
        BY <1>2, <2>2, <3>1 DEF PathIndex, Id
    <2> QED
      BY <2>1, <2>2, Zenon
  <1>4. new \in Id /\ new.unit = u /\ new.index = PathIndex(u)
    BY <1>3, Zenon DEF Id
  <1>5. ASSUME u \in kept
        PROVE  \A j \in IdsOf(rows, u) : j.index \in Nat /\ j.index < PathIndex(u)
    <2>1. CASE IdsOf(rows, u) = {}
      BY <2>1, Zenon
    <2>2. CASE IdsOf(rows, u) # {}
      <3>1. PICK k \in Active(rows, u) : IsHighest(rows, k)
        BY <1>5, <2>2, Zenon DEF KeysetsInv, Starting, Latest
      <3>2. (CHOOSE j \in Active(rows, u) : TRUE) = k
        BY <1>2, <3>1, Zenon DEF Unique, Active, IdsOf
      <3>3. PathIndex(u) = k.index + 1
        BY <3>1, <3>2, Zenon DEF PathIndex
      <3>4. k.index \in Nat /\ \A j \in IdsOf(rows, u) : j.index \in Nat /\ j.index <= k.index
        BY <1>2, <3>1 DEF IsHighest, Active, IdsOf, IsTable, Id
      <3> QED
        BY <3>3, <3>4
    <2> QED
      BY <2>1, <2>2, Zenon
  <1> HIDE DEF new
  <1>6. IsTable(rows')
    <2>1. ASSUME NEW k \in DOMAIN rows
          PROVE  [rows[k] EXCEPT !.active = @ /\ k.unit # u] \in [fee : Fee, active : BOOLEAN]
      BY <1>2, Zenon DEF IsTable
    <2>2. DOMAIN rows' \subseteq Id
      BY <1>1, <1>2, <1>4, Zenon DEF IsTable
    <2>3. [fee |-> fee, active |-> TRUE] \in [fee : Fee, active : BOOLEAN]
      BY Zenon
    <2>4. ASSUME NEW k \in DOMAIN rows' PROVE rows'[k] \in [fee : Fee, active : BOOLEAN]
      BY <1>1, <2>1, <2>3, ZenonT(30)
    <2> QED
      BY <2>2, <2>4, Zenon DEF IsTable
  <1>7. \A k \in DOMAIN rows' :
            \/ k = new /\ rows'[k].active
            \/ /\ k \in DOMAIN rows \ {new} /\ rows'[k].fee = rows[k].fee
               /\ rows'[k].active <=> rows[k].active /\ k.unit # u
    <2> TAKE k \in DOMAIN rows'
    <2>1. CASE k = new
      BY <1>1, <2>1
    <2>2. CASE k # new
      <3>1. k \in DOMAIN rows /\ rows[k] \in [fee : Fee, active : BOOLEAN]
        BY <1>1, <1>2, <2>2, Zenon DEF IsTable
      <3>2. rows'[k] = [rows[k] EXCEPT !.active = rows[k].active /\ k.unit # u]
        BY <1>1, <2>2, Zenon
      <3> QED
        BY <2>2, <3>1, <3>2, Zenon
    <2> QED
      BY <2>1, <2>2, Zenon
  <1>8. Unique(rows')
    BY <1>2, <1>4, <1>7 DEF Unique
  <1>9. ASSUME NEW v \in kept, IdsOf(rows', v) # {} PROVE Latest(rows', v)
    <2>1. CASE v = u
      <3>1. new \in Active(rows', u)
        BY <1>1, <1>4 DEF Active, IdsOf
      <3>2. \A j \in IdsOf(rows', u) : j.index <= new.index
        BY <1>3, <1>4, <1>5, <1>7, <2>1 DEF IdsOf
      <3> QED
        BY <1>4, <2>1, <3>1, <3>2, Zenon DEF Latest, IsHighest
    <2>2. CASE v # u
      <3>1. IdsOf(rows', v) = IdsOf(rows, v)
        BY <1>1, <1>4, <2>2, Zenon DEF IdsOf
      <3>2. PICK k \in Active(rows, v) : IsHighest(rows, k)
        BY <1>9, <3>1, Zenon DEF KeysetsInv, Starting, Latest
      <3>3. k \in Active(rows', v) /\ k.unit = v
        BY <1>1, <1>4, <1>7, <2>2, <3>2, Zenon DEF Active, IdsOf
      <3>4. IsHighest(rows', k)
        BY <3>1, <3>2, <3>3, Zenon DEF IsHighest
      <3> QED
        BY <3>3, <3>4, Zenon DEF Latest
    <2> QED
      BY <2>1, <2>2, Zenon
  <1>10. ASSUME NEW k \in DOMAIN rows
         PROVE  k \in DOMAIN rows' /\ (k.unit \in kept => rows'[k].fee = rows[k].fee)
    <2>1. k.unit \in kept => k # new
      BY <1>4, <1>5 DEF IdsOf
    <2> QED
      BY <1>1, <1>7, <2>1, Zenon
  <1> QED
    BY <1>6, <1>8, <1>9, <1>10, Zenon

(***************************************************************************)
(* A rotation in the signatory.  Unless another one is under way, or the   *)
(* reload fails, the lists are settled, whatever came before.              *)
(***************************************************************************)
LEMMA RotateKeysetStep ==
    ASSUME KeysetsInv, NEW a \in Admin, NEW u \in Unit, NEW order \in Order, NEW fee \in Fee,
           RotateKeyset(a, u, order, fee)
    PROVE  KeysetsInv'
  <1>1. /\ state = "up" /\ rotating[a] = "idle" /\ changes < MaxChanges
        /\ changes' = changes + 1 /\ state' = state /\ config' = config
        /\ covered' = covered /\ keysets' = keysets /\ list' = list /\ kept' = kept
        /\ \/ /\ memory' = rows'
              /\ rotating' = [rotating EXCEPT ![a] = "rotated"]
              /\ settled' = \A b \in Admin : rotating[b] = "idle"
           \/ memory' = Empty /\ settled' = FALSE /\ rotating' = rotating
    BY Zenon DEF RotateKeyset, ReloadKeys
  <1>2. /\ PathIndex(u) <= MaxIndex
        /\ rows' = AddActive(rows, [unit |-> u, index |-> PathIndex(u), order |-> order], fee)
    BY Zenon DEF RotateKeyset
  <1>3. /\ IsTable(rows') /\ Unique(rows')
        /\ \A v \in kept : IdsOf(rows', v) # {} => Latest(rows', v)
    BY <1>2, RotateRows, Zenon
  <1>4. DOMAIN Empty = {}
    BY DEF Empty
  <1>5. TypeOK'
    <2>1. changes' \in 0..MaxChanges
      BY <1>1, KeysetConstants DEF KeysetsInv, TypeOK
    <2>2. IsTable(memory') /\ settled' \in BOOLEAN
      BY <1>1, <1>3, <1>4, Zenon DEF KeysetsInv, TypeOK, IsTable
    <2>3. rotating' \in [Admin -> {"idle", "rotated", "listed"}]
      BY <1>1, Zenon DEF KeysetsInv, TypeOK
    <2> QED
      BY <1>1, <1>3, <2>1, <2>2, <2>3, Zenon DEF KeysetsInv, TypeOK
  <1>6. Tables'
    <2>1. Unique(memory')
      BY <1>1, <1>3, <1>4, Zenon DEF Unique
    <2> QED
      BY <1>1, <1>3, <2>1, Zenon DEF KeysetsInv, Tables
  <1>7. Starting'
    BY <1>1, <1>3, Zenon DEF KeysetsInv, Starting
  <1>8. Copies'
    <2>1. settled' \/ memory' # Empty => memory' = rows'
      BY <1>1, Zenon
    <2>2. ASSUME settled'
          PROVE  /\ rotating'[a] = "rotated"
                 /\ \A b \in Admin : b # a => rotating'[b] = "idle"
      BY <1>1, <2>2, Zenon DEF KeysetsInv, TypeOK
    <2> QED
      BY <1>1, <2>1, <2>2, Zenon DEF Copies
  <1> QED
    BY <1>5, <1>6, <1>7, <1>8, Zenon DEF KeysetsInv

(***************************************************************************)
(* The end of a start, the other steps of a rotation, and a crash.         *)
(***************************************************************************)
LEMMA OtherKeysetSteps ==
    ASSUME KeysetsInv,
           \/ Load \/ Crash \/ UNCHANGED vars
           \/ \E a \in Admin : ListKeysets(a) \/ DropRotation(a) \/ StoreKeysets(a)
    PROVE  KeysetsInv'
  <1>1. CASE UNCHANGED vars
    BY <1>1, Zenon DEF vars, KeysetsInv, TypeOK, Tables, Starting, Copies, Configured
  <1>2. DOMAIN Empty = {}
    BY DEF Empty
  <1>3. CASE Load
    <2>1. /\ state = "new" /\ rows' = rows /\ config' = config /\ covered' = covered
          /\ rotating' = rotating /\ list' = list /\ changes' = changes /\ kept' = kept
          /\ settled' = settled
          /\ \/ state' = "up" /\ memory' = rows /\ keysets' = rows
             \/ state' = "down" /\ memory' = memory /\ keysets' = keysets
      BY <1>3, Zenon DEF Load, ReloadKeys
    <2>2. TypeOK'
      BY <2>1, Zenon DEF KeysetsInv, TypeOK
    <2>3. Tables'
      BY <2>1, Zenon DEF KeysetsInv, Tables
    <2>4. Starting'
      BY <2>1, Zenon DEF KeysetsInv, Starting
    <2>5. Copies'
      BY <2>1, Zenon DEF KeysetsInv, Copies
    <2> QED
      BY <2>2, <2>3, <2>4, <2>5, Zenon DEF KeysetsInv
  <1>4. CASE Crash
    <2>1. TypeOK'
      BY <1>2, <1>4, Zenon DEF Crash, KeysetsInv, TypeOK, IsTable
    <2>2. Tables'
      BY <1>2, <1>4, Zenon DEF Crash, KeysetsInv, Tables, Unique
    <2>3. Starting'
      BY <1>4, Zenon DEF Crash, KeysetsInv, Starting
    <2>4. Copies'
      BY <1>4, Zenon DEF Crash, Copies
    <2> QED
      BY <2>1, <2>2, <2>3, <2>4, Zenon DEF KeysetsInv
  <1>5. ASSUME NEW a \in Admin, ListKeysets(a) PROVE KeysetsInv'
    <2>1. /\ rotating[a] = "rotated" /\ rows' = rows /\ state' = state /\ config' = config
          /\ covered' = covered /\ memory' = memory /\ keysets' = keysets
          /\ changes' = changes /\ kept' = kept /\ settled' = settled
      BY <1>5, Zenon DEF ListKeysets
    <2>2. /\ rotating' \in [Admin -> {"idle", "rotated", "listed"}]
          /\ rotating'[a] = "listed"
          /\ \A b \in Admin : b # a => rotating'[b] = rotating[b]
      BY <1>5, Zenon DEF ListKeysets, KeysetsInv, TypeOK
    <2>3. /\ DOMAIN list' = Admin /\ list' = [b \in Admin |-> list'[b]]
          /\ list'[a] = memory
          /\ \A b \in Admin : b # a => list'[b] = list[b]
      BY <1>5, Zenon DEF ListKeysets, KeysetsInv, Tables
    <2>4. TypeOK'
      BY <2>1, <2>2, <2>3, Zenon DEF KeysetsInv, TypeOK
    <2>5. Tables'
      BY <2>1, <2>3, Zenon DEF KeysetsInv, Tables
    <2>6. Starting'
      BY <2>1, Zenon DEF KeysetsInv, Starting, Configured
    <2>7. Copies'
      BY <2>1, <2>2, <2>3 DEF KeysetsInv, Copies
    <2> QED
      BY <2>4, <2>5, <2>6, <2>7, Zenon DEF KeysetsInv
  <1>6. ASSUME NEW a \in Admin, StoreKeysets(a) PROVE KeysetsInv'
    <2>1. /\ rotating[a] = "listed" /\ rows' = rows /\ state' = state /\ config' = config
          /\ covered' = covered /\ memory' = memory /\ keysets' = list[a]
          /\ changes' = changes /\ kept' = kept /\ settled' = settled
      BY <1>6, Zenon DEF StoreKeysets
    <2>2. /\ rotating' \in [Admin -> {"idle", "rotated", "listed"}]
          /\ rotating'[a] = "idle"
          /\ \A b \in Admin : b # a => rotating'[b] = rotating[b]
      BY <1>6, Zenon DEF StoreKeysets, KeysetsInv, TypeOK
    <2>3. /\ DOMAIN list' = Admin /\ list' = [b \in Admin |-> list'[b]]
          /\ list'[a] = Empty
          /\ \A b \in Admin : b # a => list'[b] = list[b]
      BY <1>6 DEF StoreKeysets, KeysetsInv, Tables
    <2>4. TypeOK'
      BY <1>2, <2>1, <2>2, <2>3 DEF KeysetsInv, TypeOK, IsTable
    <2>5. Tables'
      <3>1. Unique(list'[a])
        BY <1>2, <2>3, Zenon DEF Unique
      <3> QED
        BY <2>1, <2>3, <3>1, Zenon DEF KeysetsInv, Tables
    <2>6. Starting'
      BY <2>1, Zenon DEF KeysetsInv, Starting, Configured
    <2>7. Copies'
      BY <2>1, <2>2, <2>3 DEF KeysetsInv, Copies
    <2> QED
      BY <2>4, <2>5, <2>6, <2>7, Zenon DEF KeysetsInv
  <1>7. ASSUME NEW a \in Admin, DropRotation(a) PROVE KeysetsInv'
    <2>1. /\ rotating[a] = "rotated" /\ rows' = rows /\ state' = state /\ config' = config
          /\ covered' = covered /\ memory' = memory /\ keysets' = keysets /\ list' = list
          /\ changes' = changes /\ kept' = kept /\ settled' = FALSE
      BY <1>7, Zenon DEF DropRotation
    <2>2. /\ rotating' \in [Admin -> {"idle", "rotated", "listed"}]
          /\ \A b \in Admin : rotating[b] = "idle" => rotating'[b] = "idle"
      BY <1>7, Zenon DEF DropRotation, KeysetsInv, TypeOK
    <2>3. TypeOK'
      BY <2>1, <2>2, Zenon DEF KeysetsInv, TypeOK
    <2>4. Tables'
      BY <2>1, Zenon DEF KeysetsInv, Tables
    <2>5. Starting'
      BY <2>1, Zenon DEF KeysetsInv, Starting, Configured
    <2>6. Copies'
      BY <2>1, <2>2, Zenon DEF KeysetsInv, Copies
    <2> QED
      BY <2>3, <2>4, <2>5, <2>6, Zenon DEF KeysetsInv
  <1> QED
    BY <1>1, <1>3, <1>4, <1>5, <1>6, <1>7, Zenon

(***************************************************************************)
(* Every step of starts, rotations and crashes keeps the invariant.        *)
(***************************************************************************)
LEMMA KeysetsNext == KeysetsInv /\ [Next]_vars => KeysetsInv'
  <1> SUFFICES ASSUME KeysetsInv, [Next]_vars PROVE KeysetsInv'
    BY Zenon
  <1>1. ASSUME NEW c \in Config, InitKeysets(c) PROVE KeysetsInv'
    BY <1>1, InitKeysetsStep, Zenon
  <1>2. CASE NewKeysets
    BY <1>2, NewKeysetsStep, Zenon
  <1>3. ASSUME NEW a \in Admin, NEW u \in Unit, NEW order \in Order, NEW fee \in Fee,
               RotateKeyset(a, u, order, fee)
        PROVE  KeysetsInv'
    BY <1>3, RotateKeysetStep, Zenon
  <1>4. CASE \/ Load \/ Crash \/ UNCHANGED vars
             \/ \E a \in Admin : ListKeysets(a) \/ DropRotation(a) \/ StoreKeysets(a)
    BY <1>4, OtherKeysetSteps, Zenon
  <1> QED
    BY <1>1, <1>2, <1>3, <1>4, Zenon DEF Next

(***************************************************************************)
(* The inductive invariant holds whatever the mint is started with and     *)
(* whoever rotates when.                                                   *)
(***************************************************************************)
THEOREM KeysetsInvariant == Spec => []KeysetsInv
  BY KeysetsInit, KeysetsNext, PTL DEF Spec

(***************************************************************************)
(* The table, its copies and the rotations keep their types.               *)
(***************************************************************************)
THEOREM KeysetsTypeCorrect == Spec => []TypeOK
  <1>1. KeysetsInv => TypeOK
    BY Zenon DEF KeysetsInv
  <1> QED
    BY <1>1, KeysetsInvariant, PTL

(***************************************************************************)
(* A unit has at most one active keyset, and a start gives each configured *)
(* unit one with the configured fee.                                       *)
(***************************************************************************)
THEOREM OneActiveKeyset == Spec => []OneActive
  <1>1. ASSUME NEW r, Unique(r), NEW u PROVE Cardinality(Active(r, u)) <= 1
    <2>1. CASE Active(r, u) = {}
      BY <2>1, FS_EmptySet
    <2>2. CASE Active(r, u) # {}
      <3>1. PICK k : k \in Active(r, u)
        BY <2>2, Zenon
      <3>2. Active(r, u) = {k}
        BY <1>1, <3>1, Zenon DEF Unique, Active, IdsOf
      <3> QED
        BY <3>2, FS_Singleton
    <2> QED
      BY <2>1, <2>2, Zenon
  <1>2. KeysetsInv => OneActive
    <2> SUFFICES ASSUME KeysetsInv PROVE OneActive
      BY Zenon
    <2>1. Unique(rows) /\ Unique(memory) /\ Unique(keysets)
      BY Zenon DEF KeysetsInv, Tables
    <2>2. \A r \in {rows, memory, keysets} : \A u \in Unit : Cardinality(Active(r, u)) <= 1
      BY <1>1, <2>1, Zenon
    <2>3. state = "new" => \A u \in DOMAIN config : Configured(rows, u)
      BY Zenon DEF KeysetsInv, Starting
    <2> QED
      BY <2>2, <2>3, Zenon DEF OneActive, Configured
  <1> QED
    BY <1>2, KeysetsInvariant, PTL

(***************************************************************************)
(* A running signatory knows every keyset of the table, unless a reload    *)
(* failed.                                                                 *)
(***************************************************************************)
THEOREM SignedStaysRedeemable == Spec => []SignedIsRedeemable
  <1>1. KeysetsInv => SignedIsRedeemable
    BY Zenon DEF KeysetsInv, Copies, SignedIsRedeemable, VerifyProofsOk
  <1> QED
    BY <1>1, KeysetsInvariant, PTL

(***************************************************************************)
(* With no rotation under way the mint offers what the signatory signs     *)
(* with, if the last rotation ran alone and to its end.                    *)
(***************************************************************************)
THEOREM ListStaysCurrent == Spec => []ListIsCurrent
  <1>1. KeysetsInv => ListIsCurrent
    BY Zenon DEF KeysetsInv, Copies, ListIsCurrent, VerifyOutputsKeysetOk, BlindSignOk
  <1> QED
    BY <1>1, KeysetsInvariant, PTL

-----------------------------------------------------------------------------
(***************************************************************************)
(* What no step does to the table.                                         *)
(***************************************************************************)
Keeps ==
    \A k \in DOMAIN rows :
        /\ k \in DOMAIN rows'
        /\ k.unit \in kept' => rows'[k].fee = rows[k].fee

(***************************************************************************)
(* Starts and rotations keep the rows, and the fees of units that were     *)
(* always supported; what is supported always only gets less.              *)
(***************************************************************************)
LEMMA RowsAreKept ==
    ASSUME KeysetsInv, [Next]_vars
    PROVE  Keeps /\ kept' \subseteq kept
  <1>1. CASE UNCHANGED vars
    BY <1>1, Zenon DEF vars, Keeps
  <1>2. ASSUME NEW c \in Config, InitKeysets(c) PROVE Keeps /\ kept' \subseteq kept
    <2>1. kept' = kept \cap DOMAIN c
      BY <1>2, Zenon DEF InitKeysets
    <2> QED
      BY <1>2, <2>1, InitKeysetsRows, Zenon DEF Keeps
  <1>3. CASE NewKeysets
    <2>1. kept' = kept
      BY <1>3, Zenon DEF NewKeysets
    <2> QED
      BY <1>3, <2>1, NewKeysetsRows, Zenon DEF Keeps
  <1>4. ASSUME NEW a \in Admin, NEW u \in Unit, NEW order \in Order, NEW fee \in Fee,
               RotateKeyset(a, u, order, fee)
        PROVE  Keeps /\ kept' \subseteq kept
    <2>1. /\ kept' = kept /\ PathIndex(u) <= MaxIndex
          /\ rows' = AddActive(rows, [unit |-> u, index |-> PathIndex(u), order |-> order], fee)
      BY <1>4, Zenon DEF RotateKeyset
    <2> QED
      BY <2>1, RotateRows, Zenon DEF Keeps
  <1>5. CASE \/ Load \/ Crash
             \/ \E a \in Admin : ListKeysets(a) \/ DropRotation(a) \/ StoreKeysets(a)
    <2>1. rows' = rows /\ kept' = kept
      BY <1>5, Zenon DEF Load, Crash, ListKeysets, DropRotation, StoreKeysets
    <2> QED
      BY <2>1, Zenon DEF Keeps
  <1> QED
    BY <1>1, <1>2, <1>3, <1>4, <1>5, Zenon DEF Next

(***************************************************************************)
(* No row disappears, and the fee of a keyset of a unit that was supported *)
(* at every start does not change.                                         *)
(***************************************************************************)
THEOREM FeesAreFinal == Spec => FeeIsFinal
  <1>1. KeysetsInv /\ [Next]_vars => [Keeps]_vars
    BY RowsAreKept, Zenon
  <1>2. Spec => [][Keeps]_vars
    BY <1>1, KeysetsInvariant, PTL DEF Spec
  <1> QED
    BY <1>2 DEF FeeIsFinal, Keeps

(***************************************************************************)
(* A copy of the table, of whatever age.                                   *)
(***************************************************************************)
AgreesWith(r, t, units) ==
    \A k \in DOMAIN r : k \in DOMAIN t /\ (k.unit \in units => r[k].fee = t[k].fee)

\* What the signatory, the mint and those who rotate hold is such a copy.
CopiesAreTrue ==
    /\ AgreesWith(memory, rows, kept)
    /\ AgreesWith(keysets, rows, kept)
    /\ \A a \in Admin : AgreesWith(list[a], rows, kept)

(***************************************************************************)
(* A copy stays true while the table changes, and what a step stores is    *)
(* the table itself, nothing, or another copy.                             *)
(***************************************************************************)
LEMMA CopiesStayTrue ==
    ASSUME KeysetsInv, CopiesAreTrue, [Next]_vars
    PROVE  CopiesAreTrue'
  <1>1. Keeps /\ kept' \subseteq kept
    BY RowsAreKept, Zenon
  <1>2. DOMAIN Empty = {}
    BY DEF Empty
  <1>3. ASSUME NEW r, AgreesWith(r, rows, kept) \/ r = rows' \/ r = Empty
        PROVE  AgreesWith(r, rows', kept')
    BY <1>1, <1>2, <1>3, Zenon DEF AgreesWith, Keeps
  <1>4. /\ memory' = memory \/ memory' = rows' \/ memory' = Empty
        /\ keysets' = keysets \/ keysets' = rows' \/ keysets' = Empty
           \/ \E a \in Admin : keysets' = list[a]
    <2>1. CASE UNCHANGED vars
      BY <2>1, Zenon DEF vars
    <2>2. CASE \/ \E c \in Config : InitKeysets(c)
               \/ NewKeysets
               \/ \E a \in Admin : \E u \in Unit, order \in Order, fee \in Fee :
                      RotateKeyset(a, u, order, fee)
      BY <2>2, Zenon DEF InitKeysets, NewKeysets, RotateKeyset, ReloadKeys
    <2>3. CASE Load \/ Crash
      BY <2>3, Zenon DEF Load, Crash, ReloadKeys
    <2>4. CASE \E a \in Admin : ListKeysets(a) \/ DropRotation(a) \/ StoreKeysets(a)
      BY <2>4, Zenon DEF ListKeysets, DropRotation, StoreKeysets
    <2> QED
      BY <2>1, <2>2, <2>3, <2>4, Zenon DEF Next
  <1>5. ASSUME NEW a \in Admin
        PROVE  list'[a] = list[a] \/ list'[a] = memory \/ list'[a] = Empty
    <2>1. CASE UNCHANGED list
      BY <2>1, Zenon
    <2>2. ASSUME NEW b \in Admin, ListKeysets(b) \/ StoreKeysets(b)
          PROVE  list'[a] = list[a] \/ list'[a] = memory \/ list'[a] = Empty
      BY <2>2 DEF ListKeysets, StoreKeysets, KeysetsInv, Tables
    <2>3. CASE Crash
      BY <2>3, Zenon DEF Crash
    <2> QED
      BY <2>1, <2>2, <2>3, Zenon
      DEF Next, vars, InitKeysets, NewKeysets, Load, RotateKeyset, DropRotation
  <1>6. AgreesWith(memory', rows', kept') /\ AgreesWith(keysets', rows', kept')
    BY <1>3, <1>4, Zenon DEF CopiesAreTrue
  <1>7. \A a \in Admin : AgreesWith(list'[a], rows', kept')
    BY <1>3, <1>5, Zenon DEF CopiesAreTrue
  <1> QED
    BY <1>6, <1>7, Zenon DEF CopiesAreTrue

(***************************************************************************)
(* The mint never charges another fee than the table has, however old its  *)
(* list is.                                                                *)
(***************************************************************************)
THEOREM ListedStaysTrue == Spec => []ListedIsTrue
  <1>1. Init => CopiesAreTrue
    <2>1. DOMAIN Empty = {}
      BY DEF Empty
    <2> QED
      BY <2>1, Zenon DEF Init, CopiesAreTrue, AgreesWith
  <1>2. KeysetsInv /\ CopiesAreTrue /\ [Next]_vars => CopiesAreTrue'
    BY CopiesStayTrue, Zenon
  <1>3. CopiesAreTrue => ListedIsTrue
    BY Zenon DEF CopiesAreTrue, AgreesWith, ListedIsTrue
  <1> QED
    BY <1>1, <1>2, <1>3, KeysetsInvariant, PTL DEF Spec

=============================================================================
