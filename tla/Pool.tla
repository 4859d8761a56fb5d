-------------------------------- MODULE Pool --------------------------------
(***************************************************************************)
(* The database connection pool (crates/cdk-sql-common/src/pool.rs).       *)
(* Threads take a connection with get_timeout and return it by dropping    *)
(* it; the list of idle connections is under a mutex with a condition      *)
(* variable, the number of connections in use is an atomic counter that    *)
(* get_timeout increments after it has released the mutex.                 *)
(*                                                                         *)
(* queue    the idle connections, each with its stale flag; the last one   *)
(*          is handed out first                                            *)
(* in_use   the counter                                                    *)
(* pc       where each thread is                                           *)
(*   "idle"      outside the pool                                          *)
(*   "woken"     notified, about to take the mutex again                   *)
(*   "popped"    has an idle connection, has not counted it                *)
(*   "room"      found room for a new connection, has not counted it       *)
(*   "creating"  has counted the connection it is opening                  *)
(*   "holding"   uses a connection                                         *)
(*   "waiting"   sleeps on the condition variable                          *)
(* stale    the stale flag of the connection a thread has                  *)
(* pool     "open", "dropping" or "dropped"                                *)
(* leaked   history: connections that were counted and could not be opened *)
(*                                                                         *)
(* A step is what happens between taking and releasing the mutex, or one   *)
(* operation on the counter.  The counter is read with relaxed ordering:   *)
(* a read that misses an increment is one that comes before it here.       *)
(***************************************************************************)
EXTENDS Integers, Sequences, FiniteSets

CONSTANTS
    Thread,
    MaxSize,        \* config.max_size()
    MaxLeaks        \* bound: connections that cannot be opened

ASSUME PoolConstants ==
    /\ IsFiniteSet(Thread)
    /\ MaxSize \in Nat \ {0}
    /\ MaxLeaks \in Nat

VARIABLES queue, in_use, pc, stale, pool, leaked

vars == <<queue, in_use, pc, stale, pool, leaked>>

At(places) == {t \in Thread : pc[t] \in places}

Init ==
    /\ queue = <<>>
    /\ in_use = 0
    /\ pc = [t \in Thread |-> "idle"]
    /\ stale = [t \in Thread |-> FALSE]
    /\ pool = "open"
    /\ leaked = 0

-----------------------------------------------------------------------------
(* get_timeout.                                                            *)

Go(t, place) == pc' = [pc EXCEPT ![t] = place]

Last == queue[Len(queue)]

Front == SubSeq(queue, 1, Len(queue) - 1)

\* There is an idle connection, and the one to hand out is not stale.
Usable == IF queue = <<>> THEN FALSE ELSE ~Last

Pop(t) ==
    /\ Usable
    /\ queue' = Front
    /\ stale' = [stale EXCEPT ![t] = FALSE]
    /\ Go(t, "popped")

\* None, or a stale one, which is dropped: a new one if there is room, else wait.
PopNothing(t) ==
    /\ ~Usable
    /\ queue' = IF queue = <<>> THEN <<>> ELSE Front
    /\ Go(t, IF in_use < MaxSize THEN "room" ELSE "waiting")
    /\ UNCHANGED stale

\* The body of the loop, from the mutex to its release or to the wait.
GetTimeout(t) ==
    /\ pool = "open"
    /\ pc[t] \in {"idle", "woken"}
    /\ Pop(t) \/ PopNothing(t)
    /\ UNCHANGED <<in_use, pool, leaked>>

IncrementConnectionCounter(t) ==
    /\ pc[t] \in {"popped", "room"}
    /\ in_use' = in_use + 1
    /\ Go(t, IF pc[t] = "popped" THEN "holding" ELSE "creating")
    /\ UNCHANGED <<queue, stale, pool, leaked>>

NewResource(t) ==
    /\ pc[t] = "creating"
    /\ stale' = [stale EXCEPT ![t] = FALSE]
    /\ Go(t, "holding")
    /\ UNCHANGED <<queue, in_use, pool, leaked>>

\* The error leaves get_timeout before a PooledResource exists, so nothing counts
\* down and nobody is notified.
NewResourceFails(t) ==
    /\ pc[t] = "creating"
    /\ leaked < MaxLeaks
    /\ leaked' = leaked + 1
    /\ Go(t, "idle")
    /\ UNCHANGED <<queue, in_use, stale, pool>>

\* The wait ends without a notification; the condition variable may also return
\* for no reason.
WaitTimesOut(t) ==
    /\ pc[t] = "waiting"
    /\ \E place \in {"idle", "woken"} : Go(t, place)
    /\ UNCHANGED <<queue, in_use, stale, pool, leaked>>

-----------------------------------------------------------------------------
(* Returning a connection.                                                 *)

\* Mutant: the connection is returned without waking anyone.
NotifyOneNever(t) == Go(t, "idle")

\* notify_one, with t done.
NotifyOne(t) ==
    \/ /\ At({"waiting"}) = {}
       /\ Go(t, "idle")
    \/ \E w \in At({"waiting"}) : pc' = [pc EXCEPT ![t] = "idle", ![w] = "woken"]

\* Mutant: a stale connection is closed and stays counted.
ReleaseFresh(t) ==
    /\ pc[t] = "holding"
    /\ queue' = IF stale[t] THEN queue ELSE Append(queue, FALSE)
    /\ in_use' = IF stale[t] THEN in_use ELSE in_use - 1
    /\ NotifyOne(t)
    /\ UNCHANGED <<stale, pool, leaked>>

\* Drop of a PooledResource: the connection goes back, stale or not.
Release(t) ==
    /\ pc[t] = "holding"
    /\ queue' = Append(queue, stale[t])
    /\ in_use' = in_use - 1
    /\ NotifyOne(t)
    /\ UNCHANGED <<stale, pool, leaked>>

\* A connection breaks, idle or in use.
BecomeStale ==
    /\ \/ /\ \E t \in At({"holding"}) : stale' = [stale EXCEPT ![t] = TRUE]
          /\ UNCHANGED queue
       \/ /\ \E i \in DOMAIN queue : queue' = [queue EXCEPT ![i] = TRUE]
          /\ UNCHANGED stale
    /\ UNCHANGED <<in_use, pc, pool, leaked>>

-----------------------------------------------------------------------------
(* Drop of the pool: no thread has a handle on it any more.                *)

DropPool ==
    /\ pool = "open"
    /\ At({"idle"}) = Thread
    /\ pool' = "dropping"
    /\ UNCHANGED <<queue, in_use, pc, stale, leaked>>

\* The idle connections are closed; then it waits until none is in use.
CloseConnections ==
    /\ pool = "dropping"
    /\ queue' = <<>>
    /\ pool' = IF in_use = 0 THEN "dropped" ELSE "dropping"
    /\ UNCHANGED <<in_use, pc, stale, leaked>>

Step(t) ==
    \/ GetTimeout(t) \/ IncrementConnectionCounter(t)
    \/ NewResource(t) \/ NewResourceFails(t) \/ WaitTimesOut(t) \/ Release(t)

Next ==
    \/ \E t \in Thread : Step(t)
    \/ BecomeStale \/ DropPool \/ CloseConnections

Spec == Init /\ [][Next]_vars

\* A thread that runs goes on, and whoever uses a connection returns it.  Nobody
\* has to come for one, and a wait need not time out.
Fairness ==
    /\ \A t \in Thread :
           /\ WF_vars(pc[t] = "woken" /\ GetTimeout(t))
           /\ WF_vars(IncrementConnectionCounter(t))
           /\ WF_vars(NewResource(t) \/ NewResourceFails(t))
           /\ WF_vars(Release(t))
    /\ WF_vars(CloseConnections)

FairSpec == Spec /\ Fairness

-----------------------------------------------------------------------------
(* Properties.                                                             *)

Places == {"idle", "woken", "popped", "room", "creating", "holding", "waiting"}

\* The queue, the counter and the threads are what the fields of Pool and the
\* steps of get_timeout allow.
TypeOK ==
    /\ queue \in Seq(BOOLEAN)
    /\ in_use \in Nat
    /\ pc \in [Thread -> Places]
    /\ stale \in [Thread -> BOOLEAN]
    /\ pool \in {"open", "dropping", "dropped"}
    /\ leaked \in Nat

\* The counter is exactly the number of threads that open or use a connection, plus
\* the connections that could not be opened: no interleaving of get_timeout with
\* the return of a connection makes it drift (in_use).
CountIsExact ==
    in_use = Cardinality(At({"creating", "holding"})) + leaked

\* Nobody sleeps for nothing: while a thread waits, enough threads are on their way
\* to return a connection or to take the mutex again that, together with the ones
\* that could not be opened, they use up the pool.  In particular, unless all of
\* the pool has leaked, some thread will wake the waiting one (notify_one).
NobodySleepsForNothing ==
    At({"waiting"}) # {} =>
        Cardinality(At({"woken", "popped", "room", "creating", "holding"})) + leaked >= MaxSize

\* If the threads that use connections return them, nobody waits for ever: some
\* waiting thread is woken, unless all of the pool has leaked, and the drop of the
\* pool ends, unless a connection could not be opened at some time, which stays
\* counted and which the drop waits for (notify_one, Drop for Pool).
NobodyWaitsForEver ==
    /\ At({"waiting"}) # {} ~> (At({"waiting"}) = {} \/ At({"woken"}) # {} \/ leaked >= MaxSize)
    /\ pool = "dropping" ~> (pool = "dropped" \/ leaked > 0)

=============================================================================
