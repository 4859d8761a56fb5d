----------------------------- MODULE PoolProofs -----------------------------
(***************************************************************************)
(* Proofs about the connection pool, for every number of threads, every    *)
(* size of the pool and every number of connections that cannot be opened: *)
(* the counter never drifts, and no thread sleeps while nobody is left to  *)
(* wake it.  The three invariants are inductive together: a thread goes to *)
(* sleep on what the counter says, so the second rests on the first.       *)
(***************************************************************************)
EXTENDS Pool, FiniteSetTheorems, SequenceTheorems, TLAPS

Counted == {"creating", "holding"}

Busy == {"woken", "popped", "room", "creating", "holding"}

PoolInv == TypeOK /\ CountIsExact /\ NobodySleepsForNothing

\* The threads of f that are at one of the places.
Of(f, places) == {u \in Thread : f[u] \in places}

-----------------------------------------------------------------------------
(* How many threads are where, when one of them moves.                     *)

\* The threads at some places are finitely many.
LEMMA OfNat ==
    ASSUME NEW f, NEW places
    PROVE  IsFiniteSet(Of(f, places)) /\ Cardinality(Of(f, places)) \in Nat
  <1>1. Of(f, places) \in SUBSET Thread
    BY Zenon DEF Of
  <1>2. IsFiniteSet(Of(f, places))
    BY <1>1, FS_Subset, PoolConstants, Zenon
  <1> QED  BY <1>2, FS_CardinalityType, Zenon

\* A thread that comes to some places from elsewhere is one more there.
LEMMA Enters ==
    ASSUME NEW f \in [Thread -> Places], NEW t \in Thread, NEW p \in Places, NEW places,
           f[t] \notin places, p \in places
    PROVE  Cardinality(Of([f EXCEPT ![t] = p], places)) = Cardinality(Of(f, places)) + 1
  <1>1. Of([f EXCEPT ![t] = p], places) = Of(f, places) \cup {t}
    BY Zenon DEF Of
  <1>2. t \notin Of(f, places)
    BY Zenon DEF Of
  <1> QED  BY <1>1, <1>2, OfNat, FS_AddElement, Zenon

\* One that leaves them is one fewer.
LEMMA Leaves ==
    ASSUME NEW f \in [Thread -> Places], NEW t \in Thread, NEW p \in Places, NEW places,
           f[t] \in places, p \notin places
    PROVE  /\ Cardinality(Of([f EXCEPT ![t] = p], places)) = Cardinality(Of(f, places)) - 1
           /\ Cardinality(Of(f, places)) > 0
  <1>1. Of([f EXCEPT ![t] = p], places) = Of(f, places) \ {t}
    BY Zenon DEF Of
  <1>2. t \in Of(f, places)
    BY Zenon DEF Of
  <1>3. Cardinality(Of([f EXCEPT ![t] = p], places)) = Cardinality(Of(f, places)) - 1
    BY <1>1, <1>2, OfNat, FS_RemoveElement, Zenon
  <1>4. Cardinality(Of([f EXCEPT ![t] = p], places)) \in Nat /\ Cardinality(Of(f, places)) \in Nat
    BY OfNat, Zenon
  <1> QED  BY <1>3, <1>4

\* One that moves among them, or elsewhere, changes nothing.
LEMMA Stays ==
    ASSUME NEW f \in [Thread -> Places], NEW t \in Thread, NEW p \in Places, NEW places,
           f[t] \in places <=> p \in places
    PROVE  Of([f EXCEPT ![t] = p], places) = Of(f, places)
  BY Zenon DEF Of

\* What the invariant says in these terms, before and after a step.
LEMMA InvOf ==
    /\ CountIsExact <=> in_use = Cardinality(Of(pc, Counted)) + leaked
    /\ CountIsExact' <=> in_use' = Cardinality(Of(pc', Counted)) + leaked'
    /\ NobodySleepsForNothing <=>
           (Of(pc, {"waiting"}) # {} => Cardinality(Of(pc, Busy)) + leaked >= MaxSize)
    /\ NobodySleepsForNothing' <=>
           (Of(pc', {"waiting"}) # {} => Cardinality(Of(pc', Busy)) + leaked' >= MaxSize)
  BY Zenon DEF CountIsExact, NobodySleepsForNothing, At, Of, Counted, Busy

-----------------------------------------------------------------------------
(* The invariant.                                                          *)

\* A new pool satisfies the invariant: nobody is counted and nobody waits.
LEMMA PoolInit == Init => PoolInv
  <1> SUFFICES ASSUME Init PROVE PoolInv
    BY Zenon
  <1>1. TypeOK
    BY DEF Init, TypeOK, Places
  <1>2. Of(pc, Counted) = {} /\ Of(pc, {"waiting"}) = {}
    BY Zenon DEF Init, Of, Counted
  <1>3. in_use = 0 /\ leaked = 0
    BY Zenon DEF Init
  <1> QED  BY <1>1, <1>2, <1>3, FS_EmptySet, InvOf DEF PoolInv

\* One turn of the loop of get_timeout.  Only a thread that goes to sleep can break
\* the invariant, and it has read a counter that is at the limit.
LEMMA GetTimeoutStep ==
    ASSUME PoolInv, NEW t \in Thread, GetTimeout(t)
    PROVE  PoolInv'
  <1>1. /\ TypeOK /\ pc \in [Thread -> Places] /\ in_use \in Nat /\ leaked \in Nat
        /\ in_use' = in_use /\ leaked' = leaked /\ pool' = pool
        /\ pc[t] \in {"idle", "woken"}
    BY Zenon DEF PoolInv, TypeOK, GetTimeout
  <1>2. PICK p \in {"popped", "room", "waiting"} :
            /\ pc' = [pc EXCEPT ![t] = p]
            /\ p = "waiting" => in_use >= MaxSize
    BY <1>1, PoolConstants DEF GetTimeout, Pop, PopNothing, Go
  <1>3. queue' \in Seq(BOOLEAN) /\ stale' \in [Thread -> BOOLEAN]
    <2>1. queue # <<>> => Front \in Seq(BOOLEAN)
      BY <1>1 DEF TypeOK, Front
    <2>2. (queue' = Front /\ queue # <<>>) \/ queue' = <<>>
      BY Zenon DEF GetTimeout, Pop, PopNothing, Usable
    <2>3. <<>> \in Seq(BOOLEAN)
      OBVIOUS
    <2>4. queue' \in Seq(BOOLEAN)
      BY <2>1, <2>2, <2>3, Zenon
    <2>5. stale' = stale \/ stale' = [stale EXCEPT ![t] = FALSE]
      BY Zenon DEF GetTimeout, Pop, PopNothing
    <2>6. stale' \in [Thread -> BOOLEAN]
      BY <1>1, <2>5, Zenon DEF TypeOK
    <2> QED  BY <2>4, <2>6, Zenon
  <1>4. TypeOK'
    <2>1. p \in Places /\ pc' \in [Thread -> Places]
      BY <1>1, <1>2 DEF Places
    <2> QED  BY <1>1, <1>3, <2>1, Zenon DEF TypeOK
  <1>5. Of(pc', Counted) = Of(pc, Counted)
    <2>1. p \in Places /\ pc[t] \notin Counted /\ p \notin Counted
      BY <1>1, Zenon DEF Counted, Places
    <2> QED  BY <1>1, <1>2, <2>1, Stays, Zenon
  <1>6. CountIsExact'
    BY <1>1, <1>5, InvOf, Zenon DEF PoolInv
  <1>7. NobodySleepsForNothing'
    <2>1. CASE p = "waiting"
      <3>1. Of(pc', Counted) \in SUBSET Of(pc', Busy)
        BY Zenon DEF Of, Counted, Busy
      <3>2. Cardinality(Of(pc', Counted)) <= Cardinality(Of(pc', Busy))
        BY <3>1, OfNat, FS_Subset, Zenon
      <3>3. in_use = Cardinality(Of(pc', Counted)) + leaked /\ in_use >= MaxSize
        BY <1>2, <1>5, <2>1, InvOf, Zenon DEF PoolInv
      <3>4. Cardinality(Of(pc', Busy)) \in Nat /\ Cardinality(Of(pc', Counted)) \in Nat
        BY OfNat, Zenon
      <3> QED  BY <1>1, <3>2, <3>3, <3>4, InvOf, PoolConstants
    <2>2. CASE p # "waiting"
      <3>1. Of(pc', {"waiting"}) = Of(pc, {"waiting"})
        <4>1. p \in Places /\ pc[t] \notin {"waiting"} /\ p \notin {"waiting"}
          BY <1>1, <2>2, Zenon DEF Places
        <4> QED  BY <1>1, <1>2, <4>1, Stays, Zenon
      <3>2. \/ Of(pc', Busy) = Of(pc, Busy)
            \/ Cardinality(Of(pc', Busy)) = Cardinality(Of(pc, Busy)) + 1
        <4>1. p \in Places /\ p \in Busy
          BY <1>1, <2>2, Zenon DEF Places, Busy
        <4>2. CASE pc[t] \in Busy
          BY <1>1, <1>2, <4>1, <4>2, Stays, Zenon
        <4>3. CASE pc[t] \notin Busy
          BY <1>1, <1>2, <4>1, <4>3, Enters, Zenon
        <4> QED  BY <4>2, <4>3, Zenon
      <3>3. Cardinality(Of(pc, Busy)) \in Nat
        BY OfNat, Zenon
      <3>4. Of(pc, {"waiting"}) # {} => Cardinality(Of(pc, Busy)) + leaked >= MaxSize
        BY InvOf, Zenon DEF PoolInv
      <3>5. Of(pc, {"waiting"}) # {} => Cardinality(Of(pc', Busy)) + leaked >= MaxSize
        BY <1>1, <3>2, <3>3, <3>4, PoolConstants
      <3> QED  BY <1>1, <3>1, <3>5, InvOf, Zenon
    <2> QED  BY <2>1, <2>2, Zenon
  <1> QED  BY <1>4, <1>6, <1>7, Zenon DEF PoolInv


\* A thread that counts its connection enters the counted ones as the counter goes
\* up; it was busy before.
LEMMA IncrementStep ==
    ASSUME PoolInv, NEW t \in Thread, IncrementConnectionCounter(t)
    PROVE  PoolInv'
  <1>1. PICK p \in {"holding", "creating"} : pc' = [pc EXCEPT ![t] = p]
    BY Zenon DEF IncrementConnectionCounter, Go
  <1>2. /\ pc \in [Thread -> Places] /\ in_use \in Nat /\ leaked \in Nat
        /\ in_use' = in_use + 1 /\ leaked' = leaked
        /\ p \in Places /\ p \in Counted /\ p \in Busy /\ p \notin {"waiting"}
        /\ pc[t] \notin Counted /\ pc[t] \in Busy /\ pc[t] \notin {"waiting"}
    BY Zenon DEF PoolInv, TypeOK, IncrementConnectionCounter, Places, Counted, Busy
  <1>3. TypeOK'
    <2>1. pc' \in [Thread -> Places] /\ in_use' \in Nat
      BY <1>1, <1>2
    <2> QED  BY <2>1, Zenon DEF PoolInv, TypeOK, IncrementConnectionCounter
  <1>4. CountIsExact'
    <2>1. Cardinality(Of(pc', Counted)) = Cardinality(Of(pc, Counted)) + 1
      BY <1>1, <1>2, Enters, Zenon
    <2>2. in_use = Cardinality(Of(pc, Counted)) + leaked
      BY InvOf, Zenon DEF PoolInv
    <2>3. Cardinality(Of(pc, Counted)) \in Nat
      BY OfNat, Zenon
    <2> QED  BY <1>2, <2>1, <2>2, <2>3, InvOf
  <1>5. NobodySleepsForNothing'
    <2>1. Of(pc', Busy) = Of(pc, Busy) /\ Of(pc', {"waiting"}) = Of(pc, {"waiting"})
      BY <1>1, <1>2, Stays, Zenon
    <2> QED  BY <1>2, <2>1, InvOf, Zenon DEF PoolInv
  <1> QED  BY <1>3, <1>4, <1>5, Zenon DEF PoolInv

\* A connection that was opened is used by the thread that was counted for it.
LEMMA NewResourceStep ==
    ASSUME PoolInv, NEW t \in Thread, NewResource(t)
    PROVE  PoolInv'
  <1>1. /\ pc' = [pc EXCEPT ![t] = "holding"]
        /\ pc \in [Thread -> Places] /\ in_use' = in_use /\ leaked' = leaked
        /\ "holding" \in Places
        /\ pc[t] \in Counted <=> "holding" \in Counted
        /\ pc[t] \in Busy <=> "holding" \in Busy
        /\ pc[t] \in {"waiting"} <=> "holding" \in {"waiting"}
    BY Zenon DEF PoolInv, TypeOK, NewResource, Go, Places, Counted, Busy
  <1>2. TypeOK'
    <2>1. pc' \in [Thread -> Places]
      BY <1>1, Zenon
    <2>2. stale' \in [Thread -> BOOLEAN]
      BY DEF PoolInv, TypeOK, NewResource
    <2> QED  BY <2>1, <2>2, Zenon DEF PoolInv, TypeOK, NewResource
  <1>3. /\ Of(pc', Counted) = Of(pc, Counted)
        /\ Of(pc', Busy) = Of(pc, Busy)
        /\ Of(pc', {"waiting"}) = Of(pc, {"waiting"})
    BY <1>1, Stays, Zenon
  <1> QED  BY <1>1, <1>2, <1>3, InvOf, Zenon DEF PoolInv

\* The thread is gone and its slot is not: leaked takes its place in both counts.
LEMMA NewResourceFailsStep ==
    ASSUME PoolInv, NEW t \in Thread, NewResourceFails(t)
    PROVE  PoolInv'
  <1>1. /\ pc' = [pc EXCEPT ![t] = "idle"]
        /\ pc \in [Thread -> Places] /\ in_use \in Nat /\ leaked \in Nat
        /\ in_use' = in_use /\ leaked' = leaked + 1
        /\ "idle" \in Places /\ "idle" \notin Counted /\ "idle" \notin Busy
        /\ pc[t] \in Counted /\ pc[t] \in Busy
        /\ pc[t] \in {"waiting"} <=> "idle" \in {"waiting"}
    BY Zenon DEF PoolInv, TypeOK, NewResourceFails, Go, Places, Counted, Busy
  <1>2. TypeOK'
    <2>1. pc' \in [Thread -> Places] /\ leaked' \in Nat
      BY <1>1
    <2> QED  BY <2>1, Zenon DEF PoolInv, TypeOK, NewResourceFails
  <1>3. Of(pc', {"waiting"}) = Of(pc, {"waiting"})
    BY <1>1, Stays, Zenon
  <1>4. in_use' = Cardinality(Of(pc', Counted)) + leaked'
    <2>1. Cardinality(Of(pc', Counted)) = Cardinality(Of(pc, Counted)) - 1
      BY <1>1, Leaves, Zenon
    <2>2. Cardinality(Of(pc, Counted)) \in Nat
      BY OfNat, Zenon
    <2>3. in_use = Cardinality(Of(pc, Counted)) + leaked
      BY InvOf, Zenon DEF PoolInv
    <2> QED  BY <1>1, <2>1, <2>2, <2>3
  <1>5. Cardinality(Of(pc', Busy)) + leaked' = Cardinality(Of(pc, Busy)) + leaked
    <2>1. Cardinality(Of(pc', Busy)) = Cardinality(Of(pc, Busy)) - 1
      BY <1>1, Leaves, Zenon
    <2>2. Cardinality(Of(pc, Busy)) \in Nat
      BY OfNat, Zenon
    <2> QED  BY <1>1, <2>1, <2>2
  <1>6. Of(pc, {"waiting"}) # {} => Cardinality(Of(pc, Busy)) + leaked >= MaxSize
    BY InvOf, Zenon DEF PoolInv
  <1>7. Of(pc', {"waiting"}) # {} => Cardinality(Of(pc', Busy)) + leaked' >= MaxSize
    BY <1>3, <1>5, <1>6, Zenon
  <1> QED  BY <1>2, <1>4, <1>7, InvOf, Zenon DEF PoolInv

\* Whoever stops waiting leaves the others as they were, or joins the busy ones.
LEMMA WaitTimesOutStep ==
    ASSUME PoolInv, NEW t \in Thread, WaitTimesOut(t)
    PROVE  PoolInv'
  <1>1. PICK p \in {"idle", "woken"} : pc' = [pc EXCEPT ![t] = p]
    BY Zenon DEF WaitTimesOut, Go
  <1>2. /\ pc \in [Thread -> Places] /\ leaked \in Nat
        /\ in_use' = in_use /\ leaked' = leaked /\ p \in Places
        /\ pc[t] \notin Counted /\ p \notin Counted /\ pc[t] \notin Busy
        /\ pc[t] \in {"waiting"}
    BY Zenon DEF PoolInv, TypeOK, WaitTimesOut, Places, Counted, Busy
  <1>3. TypeOK'
    <2>1. pc' \in [Thread -> Places]
      BY <1>1, <1>2
    <2> QED  BY <2>1, Zenon DEF PoolInv, TypeOK, WaitTimesOut
  <1>4. CountIsExact'
    <2>1. Of(pc', Counted) = Of(pc, Counted)
      BY <1>1, <1>2, Stays, Zenon
    <2> QED  BY <1>2, <2>1, InvOf, Zenon DEF PoolInv
  <1>5. NobodySleepsForNothing'
    <2>1. Of(pc, {"waiting"}) # {}
      BY <1>2, Zenon DEF Of
    <2>2. Cardinality(Of(pc, Busy)) + leaked >= MaxSize
      BY <2>1, InvOf, Zenon DEF PoolInv
    <2>3. Of(pc', Busy) = Of(pc, Busy) \/ Cardinality(Of(pc', Busy)) = Cardinality(Of(pc, Busy)) + 1
      <3>1. CASE p \in Busy
        BY <1>1, <1>2, <3>1, Enters, Zenon
      <3>2. CASE p \notin Busy
        BY <1>1, <1>2, <3>2, Stays, Zenon
      <3> QED  BY <3>1, <3>2, Zenon
    <2>4. Cardinality(Of(pc, Busy)) \in Nat
      BY OfNat, Zenon
    <2>5. Cardinality(Of(pc', Busy)) + leaked' >= MaxSize
      BY <1>2, <2>2, <2>3, <2>4, PoolConstants
    <2> QED  BY <2>5, InvOf, Zenon
  <1> QED  BY <1>3, <1>4, <1>5, Zenon DEF PoolInv

\* Whoever returns a connection wakes one that waits, who takes its place among the
\* busy ones; if nobody waits, nothing is to be shown.
LEMMA ReleaseStep ==
    ASSUME PoolInv, NEW t \in Thread, Release(t)
    PROVE  PoolInv'
  <1>0. PICK done : done = [pc EXCEPT ![t] = "idle"]
    BY Zenon
  <1>1. /\ pc \in [Thread -> Places] /\ done \in [Thread -> Places]
        /\ in_use \in Nat /\ leaked \in Nat
        /\ in_use' = in_use - 1 /\ leaked' = leaked
        /\ pc[t] \in Counted /\ pc[t] \in Busy /\ pc[t] \notin {"waiting"}
    BY <1>0, Zenon DEF PoolInv, TypeOK, Release, Places, Counted, Busy
  <1>2. /\ "idle" \in Places /\ "idle" \notin Counted /\ "idle" \notin Busy
        /\ "idle" \notin {"waiting"}
        /\ "woken" \in Places /\ "woken" \notin Counted /\ "woken" \in Busy
    BY Zenon DEF Places, Counted, Busy
  <1>3. \/ Of(pc, {"waiting"}) = {} /\ pc' = done
        \/ \E w \in Thread : /\ pc[w] = "waiting" /\ w # t
                             /\ pc' = [done EXCEPT ![w] = "woken"]
    BY <1>0, <1>1, Zenon DEF Release, NotifyOne, At, Of, Go
  <1>4. Cardinality(Of(done, Counted)) = Cardinality(Of(pc, Counted)) - 1 /\ Cardinality(Of(pc, Counted)) > 0
    <2>1. pc \in [Thread -> Places] /\ pc[t] \in Counted /\ "idle" \notin Counted /\ "idle" \in Places
      BY <1>1, <1>2, Zenon
    <2> QED  BY <1>0, <2>1, Leaves, Zenon
  <1>5. Cardinality(Of(done, Busy)) = Cardinality(Of(pc, Busy)) - 1
    <2>1. pc \in [Thread -> Places] /\ pc[t] \in Busy /\ "idle" \notin Busy /\ "idle" \in Places
      BY <1>1, <1>2, Zenon
    <2> QED  BY <1>0, <2>1, Leaves, Zenon
  <1>6. in_use = Cardinality(Of(pc, Counted)) + leaked
    BY InvOf, Zenon DEF PoolInv
  <1>7. Cardinality(Of(pc, Counted)) \in Nat /\ Cardinality(Of(pc, Busy)) \in Nat
    BY OfNat, Zenon
  <1>8. TypeOK'
    <2>1. pc' \in [Thread -> Places]
      BY <1>1, <1>2, <1>3, Zenon
    <2>2. in_use' \in Nat
      BY <1>1, <1>4, <1>6, <1>7
    <2>3. queue' \in Seq(BOOLEAN)
      BY DEF PoolInv, TypeOK, Release
    <2> QED  BY <2>1, <2>2, <2>3, Zenon DEF PoolInv, TypeOK, Release
  <1>9. CASE Of(pc, {"waiting"}) = {} /\ pc' = done
    <2>1. in_use' = Cardinality(Of(pc', Counted)) + leaked'
      BY <1>1, <1>4, <1>6, <1>7, <1>9
    <2>2. Of(done, {"waiting"}) = Of(pc, {"waiting"})
      <3>1. /\ pc \in [Thread -> Places] /\ "idle" \in Places
            /\ pc[t] \notin {"waiting"} /\ "idle" \notin {"waiting"}
        BY <1>1, <1>2, Zenon
      <3> QED  BY <1>0, <3>1, Stays, Zenon
    <2> QED  BY <1>8, <1>9, <2>1, <2>2, InvOf, Zenon DEF PoolInv
  <1>10. ASSUME NEW w \in Thread, pc[w] = "waiting", w # t,
                pc' = [done EXCEPT ![w] = "woken"]
         PROVE  PoolInv'
    <2>1. done[w] = "waiting" /\ done[w] \notin Counted /\ done[w] \notin Busy
      BY <1>0, <1>1, <1>10, Zenon DEF Counted, Busy
    <2>2. Of(pc', Counted) = Of(done, Counted)
      <3>1. done \in [Thread -> Places] /\ "woken" \in Places /\ "woken" \notin Counted
        BY <1>1, <1>2, Zenon
      <3> QED  BY <1>10, <2>1, <3>1, Stays, Zenon
    <2>3. in_use' = Cardinality(Of(pc', Counted)) + leaked'
      BY <1>1, <1>4, <1>6, <1>7, <2>2
    <2>4. Cardinality(Of(pc', Busy)) = Cardinality(Of(done, Busy)) + 1
      <3>1. done \in [Thread -> Places] /\ "woken" \in Places /\ "woken" \in Busy
        BY <1>1, <1>2, Zenon
      <3> QED  BY <1>10, <2>1, <3>1, Enters, Zenon
    <2>5. Cardinality(Of(pc', Busy)) + leaked' = Cardinality(Of(pc, Busy)) + leaked
      BY <1>1, <1>5, <1>7, <2>4
    <2>6. Of(pc, {"waiting"}) # {}
      BY <1>10, Zenon DEF Of
    <2>7. Cardinality(Of(pc, Busy)) + leaked >= MaxSize
      BY <2>6, InvOf, Zenon DEF PoolInv
    <2> QED  BY <1>8, <2>3, <2>5, <2>7, InvOf, Zenon DEF PoolInv
  <1> QED  BY <1>3, <1>9, <1>10, Zenon

\* The steps that move no thread: a connection breaks, or the pool is dropped.
LEMMA OtherSteps ==
    ASSUME PoolInv, BecomeStale \/ DropPool \/ CloseConnections
    PROVE  PoolInv'
  <1>1. pc' = pc /\ in_use' = in_use /\ leaked' = leaked
    BY Zenon DEF BecomeStale, DropPool, CloseConnections
  <1>2. CountIsExact' /\ NobodySleepsForNothing'
    BY <1>1, InvOf, Zenon DEF PoolInv
  <1>3. queue' \in Seq(BOOLEAN)
    <2>1. CASE \E i \in DOMAIN queue : queue' = [queue EXCEPT ![i] = TRUE]
      <3>1. PICK i \in DOMAIN queue : queue' = [queue EXCEPT ![i] = TRUE]
        BY <2>1, Zenon
      <3>2. queue \in Seq(BOOLEAN) /\ i \in 1 .. Len(queue)
        BY DEF PoolInv, TypeOK
      <3> QED  BY <3>1, <3>2, ExceptSeq, Zenon
    <2>2. CASE queue' = queue \/ queue' = <<>>
      <3>1. queue \in Seq(BOOLEAN) /\ <<>> \in Seq(BOOLEAN)
        BY DEF PoolInv, TypeOK
      <3> QED  BY <2>2, <3>1, Zenon
    <2> QED  BY <2>1, <2>2, Zenon DEF BecomeStale, DropPool, CloseConnections
  <1>4. stale' \in [Thread -> BOOLEAN]
    <2>1. CASE \E t \in Thread : stale' = [stale EXCEPT ![t] = TRUE]
      BY <2>1, Zenon DEF PoolInv, TypeOK
    <2>2. CASE stale' = stale
      BY <2>2, Zenon DEF PoolInv, TypeOK
    <2> QED  BY <2>1, <2>2, Zenon DEF BecomeStale, DropPool, CloseConnections, At
  <1>5. pool' \in {"open", "dropping", "dropped"}
    BY Zenon DEF PoolInv, TypeOK, BecomeStale, DropPool, CloseConnections
  <1>6. TypeOK'
    BY <1>1, <1>3, <1>4, <1>5, Zenon DEF PoolInv, TypeOK
  <1> QED  BY <1>2, <1>6, Zenon DEF PoolInv

\* Every step of the pool preserves the invariant.
LEMMA PoolNext == PoolInv /\ [Next]_vars => PoolInv'
  <1> SUFFICES ASSUME PoolInv, [Next]_vars PROVE PoolInv'
    BY Zenon
  <1>1. CASE UNCHANGED vars
    <2>1. CountIsExact' /\ NobodySleepsForNothing'
      BY <1>1, InvOf, Zenon DEF PoolInv, vars
    <2>2. TypeOK'
      BY <1>1, Zenon DEF PoolInv, TypeOK, vars
    <2> QED  BY <2>1, <2>2, Zenon DEF PoolInv
  <1>2. ASSUME NEW t \in Thread, Step(t) PROVE PoolInv'
    BY <1>2, GetTimeoutStep, IncrementStep, NewResourceStep, NewResourceFailsStep,
       WaitTimesOutStep, ReleaseStep, Zenon DEF Step
  <1>3. CASE BecomeStale \/ DropPool \/ CloseConnections
    BY <1>3, OtherSteps, Zenon
  <1> QED  BY <1>1, <1>2, <1>3, Zenon DEF Next

-----------------------------------------------------------------------------
(* The theorems.                                                           *)

\* The inductive invariant holds in every state of the pool.
THEOREM PoolInvariant == Spec => []PoolInv
  BY PoolInit, PoolNext, PTL DEF Spec

\* For any number of threads, the counter of the pool is exactly the number of
\* threads that open or use a connection, plus the connections that could not be
\* opened (in_use, which get_timeout increments outside the mutex).
THEOREM CounterNeverDrifts == Spec => []CountIsExact
  <1>1. PoolInv => CountIsExact
    BY DEF PoolInv
  <1> QED  BY <1>1, PoolInvariant, PTL

\* For any number of threads and any size of the pool, no wake-up is lost: while a
\* thread waits, the threads on their way and the leaked connections are at least
\* as many as the pool is large (get_timeout, Drop for PooledResource).
THEOREM NoLostWakeUp == Spec => []NobodySleepsForNothing
  <1>1. PoolInv => NobodySleepsForNothing
    BY DEF PoolInv
  <1> QED  BY <1>1, PoolInvariant, PTL

\* The queue, the counter and the threads keep their types; in particular the
\* counter, which is unsigned in the code, is never decremented below zero.
THEOREM PoolTypeCorrect == Spec => []TypeOK
  <1>1. PoolInv => TypeOK
    BY DEF PoolInv
  <1> QED  BY <1>1, PoolInvariant, PTL

=============================================================================
