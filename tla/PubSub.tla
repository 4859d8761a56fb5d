------------------------------- MODULE PubSub -------------------------------
(***************************************************************************)
(* The notifications of a mint: the publish/subscribe core                 *)
(* (crates/cdk-common/src/pub_sub), its back-fill from the database        *)
(* (crates/cdk/src/mint/subscription.rs) and the server end of a web       *)
(* socket (crates/cdk-axum/src/ws).                                        *)
(*                                                                         *)
(* A topic is a quote; its events are its states.  A mint quote being paid *)
(* and a melt quote becoming pending are published while the transaction   *)
(* is open, a melt quote being paid once it is committed, and one that is  *)
(* unpaid again not at all.  Tasks that the code spawns run in any order:  *)
(* publish, fetch_events, the task that forwards the events of a           *)
(* subscription.  That task and the loop of the connection are one step    *)
(* here, so the channel of 100 messages between them and that of 10000     *)
(* events before them are one channel of ChannelSize.                      *)
(*                                                                         *)
(* The task of a subscription that has ended is detached, not aborted: it  *)
(* stays registered with the core as long as the mint runs, and            *)
(* main_websocket ignores what it forwards.  It is left out here.          *)
(***************************************************************************)
EXTENDS Naturals, Sequences, FiniteSets, TLC

CONSTANTS
    Topic,
    Kinds,          \* which quotes are mint quotes, melt quotes, or idle: nobody pays
                    \* them.  A set of functions of which one is chosen
    ChannelSize,    \* bound: events waiting in the channels of a subscription
    MaxFailures,    \* bound: failures of the connection, the mint or a request
    MaxChanges      \* bound: published changes of the state of a quote

State == {"Unpaid", "Pending", "Paid"}

ASSUME PubSubConstants ==
    /\ Kinds \subseteq [Topic -> {"mint", "melt", "idle"}]
    /\ ChannelSize \in Nat \ {0}
    /\ MaxChanges \in Nat /\ MaxFailures \in Nat

VARIABLES
    kind,           \* one of Kinds
    db,             \* the state of each quote in the database
    writing,        \* what an open transaction writes, "none" without one
    changes,        \* how many events have been published
    publishing,     \* the spawned publish tasks: topic, state, number
    listener,       \* the subscriptions of the connection, by name: the topic,
                    \* the latest event, the event that fetch_events has read,
                    \* and the channel
    failures,
    lost            \* history: the topics of which an event was dropped, never
                    \* published, could not be read, or was read before a
                    \* commit that had already been published

mintVars == <<kind, db, writing, changes, publishing, listener, lost>>
quoteVars == <<kind, db, writing, changes, failures>>

Empty == <<>>

MintInit ==
    /\ kind \in Kinds
    /\ db = [t \in Topic |-> "Unpaid"]
    /\ writing = [t \in Topic |-> "none"]
    /\ changes = 0
    /\ failures = 0
    /\ publishing = {}
    /\ listener = Empty
    /\ lost = {}

CanFail ==
    /\ failures < MaxFailures
    /\ failures' = failures + 1

-----------------------------------------------------------------------------
(* Sending to a subscriber.                                                *)

IsFull(l) == Len(l.channel) = ChannelSize

\* Mutant: nothing is sent to a subscriber that has had an event.
SendFirst(l, v) ==
    IF l.latest # "none" THEN l
    ELSE [l EXCEPT !.latest = v, !.channel = Append(@, v)]

\* Subscriber::send: an event equal to the latest is not sent again, and one for
\* which there is no room is dropped but remembered as the latest.
Send(l, v) ==
    IF l.latest = v THEN l
    ELSE [l EXCEPT !.latest = v, !.channel = IF IsFull(l) THEN @ ELSE Append(@, v)]

SendAll(names, v) ==
    /\ listener' = [n \in DOMAIN listener |->
                       IF n \in names THEN Send(listener[n], v) ELSE listener[n]]
    /\ lost' = lost \cup
           {listener[n].topic : n \in {n \in names : listener[n].latest # v /\ IsFull(listener[n])}}

-----------------------------------------------------------------------------
(* The core.                                                               *)

Spawn(t, v) ==
    /\ changes < MaxChanges
    /\ changes' = changes + 1
    /\ publishing' = publishing \cup {<<t, v, changes>>}

\* A transaction writes that a mint quote is paid, or a melt quote pending, and
\* spawns publish.
Write(t) ==
    /\ kind[t] # "idle"
    /\ db[t] = "Unpaid" /\ writing[t] = "none"
    /\ LET v == IF kind[t] = "mint" THEN "Paid" ELSE "Pending"
       IN  /\ writing' = [writing EXCEPT ![t] = v]
           /\ Spawn(t, v)
    /\ UNCHANGED <<kind, db, listener, lost, failures>>

\* It ends: commits, or fails.
EndTransaction(t) ==
    /\ writing[t] # "none"
    /\ \/ db' = [db EXCEPT ![t] = writing[t]]
       \/ UNCHANGED db
    /\ writing' = [writing EXCEPT ![t] = "none"]
    /\ UNCHANGED <<kind, changes, publishing, listener, lost, failures>>

\* The payment of a melt quote is made, and its handler publishes that or ends
\* before it does; or it has failed.
EndMelt(t) ==
    /\ db[t] = "Pending"
    /\ \/ /\ db' = [db EXCEPT ![t] = "Paid"]
          /\ Spawn(t, "Paid")
          /\ UNCHANGED <<lost, failures>>
       \/ /\ db' = [db EXCEPT ![t] = "Paid"]
          /\ CanFail
          /\ lost' = lost \cup {t}
          /\ UNCHANGED <<changes, publishing>>
       \/ /\ db' = [db EXCEPT ![t] = "Unpaid"]
          /\ UNCHANGED <<changes, publishing, lost, failures>>
    /\ UNCHANGED <<kind, writing, listener>>

\* publish_internal, under the lock of the topics
Publish(e) ==
    /\ e \in publishing
    /\ publishing' = publishing \ {e}
    /\ SendAll({n \in DOMAIN listener : listener[n].topic = e[1]}, e[2])
    /\ UNCHANGED quoteVars

\* fetch_events reads the state, or fails to ...
FetchRead(n) ==
    /\ n \in DOMAIN listener /\ listener[n].fetched = "todo"
    /\ LET t == listener[n].topic
       IN  \/ /\ listener' = [listener EXCEPT ![n].fetched = db[t]]
              /\ lost' = lost \cup IF writing[t] = "Paid" THEN {t} ELSE {}
              /\ UNCHANGED failures
           \/ /\ listener' = [listener EXCEPT ![n].fetched = "done"]
              /\ lost' = lost \cup {t}
              /\ CanFail
    /\ UNCHANGED <<kind, db, writing, changes, publishing>>

\* ... and sends it, whatever was published meanwhile.
FetchSend(n) ==
    /\ n \in DOMAIN listener /\ listener[n].fetched \in State
    /\ LET l == listener[n]
       IN  /\ listener' = [listener EXCEPT ![n] = [Send(l, l.fetched) EXCEPT !.fetched = "done"]]
           /\ lost' = lost \cup
                  IF l.latest # l.fetched /\ IsFull(l) THEN {l.topic} ELSE {}
    /\ UNCHANGED <<quoteVars, publishing>>

-----------------------------------------------------------------------------
(* The server end of the connection.                                       *)

\* Pubsub::subscribe
NewListener(n, t) ==
    (n :> [topic |-> t, latest |-> "none", fetched |-> "todo", channel |-> <<>>]) @@ listener

\* A request to subscribe under a name in use, or to end an unknown subscription,
\* is an error.
IsInvalid(r) == (r.method = "subscribe") = (r.name \in DOMAIN listener)

Subscribed(r) == IF IsInvalid(r) THEN listener ELSE NewListener(r.name, r.topic)

Unsubscribed(r) == [n \in DOMAIN listener \ {r.name} |-> listener[n]]

Handle(r) ==
    /\ listener' = IF r.method = "subscribe" THEN Subscribed(r) ELSE Unsubscribed(r)
    /\ UNCHANGED <<quoteVars, publishing, lost>>

\* The next event of a subscription goes out.
Forward(n) ==
    /\ n \in DOMAIN listener /\ listener[n].channel # <<>>
    /\ listener' = [listener EXCEPT ![n].channel = Tail(@)]
    /\ UNCHANGED <<quoteVars, publishing, lost>>

\* The connection ends.  If the mint restarts, so do the spawned tasks and the
\* open transactions.
Disconnect(restarts) ==
    /\ listener' = Empty
    /\ publishing' = IF restarts THEN {} ELSE publishing
    /\ writing' = IF restarts THEN [t \in Topic |-> "none"] ELSE writing
    /\ UNCHANGED <<kind, db, changes, lost>>

=============================================================================
