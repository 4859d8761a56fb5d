--------------------------- MODULE Notifications ---------------------------
(***************************************************************************)
(* Notifications from a mint to the subscribers in a wallet: PubSub and,   *)
(* over one connection that may fail, the wallet's consumer                *)
(* (crates/cdk-common/src/pub_sub/remote_consumer.rs), its web socket      *)
(* client (crates/cdk/src/wallet/subscription/ws.rs) and its polling over  *)
(* HTTP (crates/cdk/src/wallet/subscription/mod.rs).                       *)
(*                                                                         *)
(* Subscribers of one topic share one remote subscription.  The worker of  *)
(* the consumer streams while it can, and polls once whenever a stream has *)
(* ended.                                                                  *)
(*                                                                         *)
(* worker                                                                  *)
(*   "top"         at the head of its loop                                 *)
(*   "ctrl"        has set up the control channel                          *)
(*   "connecting"  has read the list of remote subscriptions               *)
(*   "streaming"   in stream_client                                        *)
(*   "ended"       the stream has returned, its end of the control channel *)
(*                 is gone                                                 *)
(*   "poll"        about to read the list again                            *)
(*   "polling"     asks for the state of one topic after the other         *)
(* stream_ctrl   "none", "closed" when the receiver is gone, or "open"     *)
(* connection    "none", "open", "broken" when the next read reports that  *)
(*               it is lost, or "silent" when no read ever will: it was    *)
(*               closed cleanly, or the other end is gone without a sign   *)
(***************************************************************************)
EXTENDS PubSub, SequencesExt

CONSTANTS
    Sub,            \* the subscribers of the wallet
    Topics,         \* [Sub -> Seq(Topic)], what each of them subscribes to
    Apart,          \* bound: those of them that come only if no quote changes
    MaxNames        \* bound: names of remote subscriptions

ASSUME NotificationConstants ==
    /\ \A s \in Sub : Topics[s] \in Seq(Topic) /\ Topics[s] # <<>>
    /\ Apart \subseteq Sub
    /\ MaxNames \in Nat

VARIABLES
    remote_subscriptions,   \* by topic: the name and the number of subscribers
    subscriptions,          \* the subscribers that are subscribed
    left,                   \* the subscribers that are gone or were refused
    names,                  \* how many names have been used
    stream_ctrl,
    messages,               \* the control channel
    worker,
    list,                   \* the remote subscriptions it has read
    connection,
    to_mint, to_wallet,     \* what is on its way
    cached_events,          \* the topics whose latest event says that they are paid
    relaying,               \* the topics of which the local core is about to publish that
    told                    \* history: who has been told that which quote is paid, or
                            \* has come after that was published

walletVars == <<remote_subscriptions, subscriptions, left, names, stream_ctrl, messages,
                cached_events, relaying, told>>

workerVars == <<worker, list, connection, to_mint, to_wallet>>

vars == <<mintVars, walletVars, workerVars, failures>>

Init ==
    /\ MintInit
    /\ remote_subscriptions = Empty
    /\ subscriptions = {}
    /\ left = {}
    /\ names = 0
    /\ stream_ctrl = "none"
    /\ messages = <<>>
    /\ worker = "top"
    /\ list = {}
    /\ connection = "none"
    /\ to_mint = <<>>
    /\ to_wallet = <<>>
    /\ cached_events = {}
    /\ relaying = {}
    /\ told = {}

-----------------------------------------------------------------------------
(* subscribe and unsubscribe, under the lock of remote_subscriptions.      *)

Without(f, S) == [x \in DOMAIN f \ S |-> f[x]]

\* message_to_stream: nothing is sent without a control channel, and it is an
\* error if the stream has ended and the channel is still there.
MessageToStream(ms) ==
    /\ messages' = IF stream_ctrl = "open" THEN messages \o ms ELSE messages
    /\ UNCHANGED stream_ctrl

\* The topics the loop gets to before it returns an error at one in stop: all of
\* them if none is, or if messages can be sent.
Reached(ts, stop) ==
    IF stream_ctrl # "closed" \/ \A i \in DOMAIN ts : ts[i] \notin stop THEN ts
    ELSE SubSeq(ts, 1, CHOOSE i \in DOMAIN ts :
                           ts[i] \in stop /\ \A j \in 1..(i - 1) : ts[j] \notin stop)

New(ts) == SelectSeq(ts, LAMBDA t : t \notin DOMAIN remote_subscriptions)

NameOf(ts, t) == names + CHOOSE i \in DOMAIN New(ts) : New(ts)[i] = t

Subscribe(s) ==
    LET fresh == ToSet(New(Topics[s]))
        ts == Reached(Topics[s], fresh)
        fails == stream_ctrl = "closed" /\ fresh # {}
    IN  /\ s \notin subscriptions \cup left
        /\ s \in Apart => changes = 0
        /\ names + Cardinality(fresh) <= MaxNames
        /\ remote_subscriptions' =
               [t \in DOMAIN remote_subscriptions \cup ToSet(ts) |->
                   IF t \in fresh THEN [name |-> NameOf(ts, t), total |-> 1]
                   ELSE IF t \in ToSet(ts)
                   THEN [remote_subscriptions[t] EXCEPT !.total = @ + 1]
                   ELSE remote_subscriptions[t]]
        /\ names' = names + Len(New(ts))
        /\ IF fails
           THEN /\ left' = left \cup {s}
                /\ UNCHANGED <<subscriptions, told>>
           ELSE /\ subscriptions' = subscriptions \cup {s}
                /\ told' = told \cup {<<s, t>> :
                       t \in {t \in ToSet(ts) :
                                 \/ "Paid" \in {db[t], writing[t]}
                                 \/ t \in cached_events \ fresh}}
                /\ UNCHANGED left
        /\ MessageToStream([i \in DOMAIN New(ts) |->
               [method |-> "subscribe", name |-> names + i, topic |-> New(ts)[i]]])
        /\ UNCHANGED <<cached_events, relaying, workerVars, failures, mintVars>>

\* Mutant: the remote subscription ends with the first of its subscribers.
LastOfAny(t) == TRUE

\* t has one subscriber left.
LastOf(t) == remote_subscriptions[t].total = 1

\* The subscriber is dropped.
Unsubscribe(s) ==
    LET known == SelectSeq(Topics[s], LAMBDA t : t \in DOMAIN remote_subscriptions)
        last == {t \in ToSet(known) : LastOf(t)}
        ts == Reached(known, last)
        ends == SelectSeq(ts, LAMBDA t : t \in last)
        rest == Without(remote_subscriptions, ToSet(ends))
    IN  /\ s \in subscriptions
        /\ subscriptions' = subscriptions \ {s}
        /\ left' = left \cup {s}
        /\ remote_subscriptions' =
               [t \in DOMAIN rest |->
                   IF t \in ToSet(ts) THEN [rest[t] EXCEPT !.total = @ - 1] ELSE rest[t]]
        /\ cached_events' = cached_events \ ToSet(ends)
        /\ MessageToStream(
               [i \in DOMAIN ends |->
                   [method |-> "unsubscribe", name |-> remote_subscriptions[ends[i]].name,
                    topic |-> ends[i]]]
               \o IF rest = Empty THEN <<[method |-> "stop"]>> ELSE <<>>)
        /\ told' = {p \in told : p[1] # s}
        /\ UNCHANGED <<names, relaying, workerVars, failures, mintVars>>

-----------------------------------------------------------------------------
(* The local core.                                                         *)

Subscribers(t) == {s \in subscriptions : t \in ToSet(Topics[s])}

\* InternalRelay::send: the event is cached, and a task spawned to publish it.
Relay(t, v) ==
    /\ cached_events' = IF v = "Paid" THEN cached_events \cup {t} ELSE cached_events \ {t}
    /\ relaying' = IF v = "Paid" THEN relaying \cup {t} ELSE relaying

LocalPublish(t) ==
    /\ t \in relaying
    /\ relaying' = relaying \ {t}
    /\ told' = told \cup (Subscribers(t) \X {t})
    /\ UNCHANGED <<remote_subscriptions, subscriptions, left, names, stream_ctrl, messages,
                   cached_events, workerVars, failures, mintVars>>

-----------------------------------------------------------------------------
(* The worker: stream.                                                     *)

Listed == {[method |-> "subscribe", name |-> remote_subscriptions[t].name, topic |-> t] :
              t \in DOMAIN remote_subscriptions}

\* With something to subscribe to: the control channel comes first, the list next.
Stream ==
    /\ worker = "top"
    /\ remote_subscriptions # Empty
    /\ worker' = "ctrl"
    /\ stream_ctrl' = "open"
    /\ messages' = <<>>
    /\ UNCHANGED <<remote_subscriptions, subscriptions, left, names, cached_events, relaying,
                   told, list, connection, to_mint, to_wallet, failures, mintVars>>

\* Streaming has failed and the time of the next attempt has not come, or it is
\* not supported, or polling is preferred.
DoNotStream ==
    /\ worker = "top"
    /\ remote_subscriptions # Empty
    /\ worker' = "poll"
    /\ UNCHANGED <<walletVars, list, connection, to_mint, to_wallet, failures, mintVars>>

ReadList ==
    /\ worker = "ctrl"
    /\ worker' = "connecting"
    /\ list' = Listed
    /\ UNCHANGED <<walletVars, connection, to_mint, to_wallet, failures, mintVars>>

Connect ==
    /\ worker = "connecting"
    /\ worker' = "streaming"
    /\ connection' = "open"
    /\ to_mint' = SetToSeq(list)
    /\ to_wallet' = <<>>
    /\ list' = {}
    /\ UNCHANGED <<walletVars, failures, mintVars>>

\* stream_client returns; its end of the control channel is dropped, and with it
\* the connection.
EndStream ==
    /\ worker' = "ended"
    /\ stream_ctrl' = "closed"
    /\ messages' = <<>>
    /\ list' = {}
    /\ connection' = "none"
    /\ to_mint' = <<>>
    /\ to_wallet' = <<>>
    /\ UNCHANGED <<remote_subscriptions, subscriptions, left, names, told>>

ConnectFails ==
    /\ worker = "connecting"
    /\ CanFail
    /\ EndStream
    /\ UNCHANGED <<cached_events, relaying, mintVars>>

\* A control message: it goes to the mint, or ends the stream.
ReadCtrl ==
    /\ worker = "streaming" /\ messages # <<>>
    /\ IF Head(messages).method = "stop"
       THEN /\ EndStream
            /\ Disconnect(FALSE)
       ELSE /\ messages' = Tail(messages)
            /\ to_mint' = IF connection = "open" THEN Append(to_mint, Head(messages)) ELSE to_mint
            /\ UNCHANGED <<remote_subscriptions, subscriptions, left, names, stream_ctrl,
                           told, worker, list, connection, to_wallet, mintVars>>
    /\ UNCHANGED <<cached_events, relaying, failures>>

ReadNotification ==
    /\ worker = "streaming" /\ to_wallet # <<>>
    /\ Head(to_wallet).method = "notification"
    /\ to_wallet' = Tail(to_wallet)
    /\ Relay(Head(to_wallet).topic, Head(to_wallet).state)
    /\ UNCHANGED <<remote_subscriptions, subscriptions, left, names, stream_ctrl, messages,
                   told, worker, list, connection, to_mint, failures, mintVars>>

\* An error response ends the stream, and with it all the subscriptions.
ReadError ==
    /\ worker = "streaming" /\ to_wallet # <<>>
    /\ Head(to_wallet).method = "error"
    /\ EndStream
    /\ Disconnect(FALSE)
    /\ UNCHANGED <<cached_events, relaying, failures>>

\* The read reports that the connection is lost.
ReadFails ==
    /\ worker = "streaming" /\ connection = "broken"
    /\ EndStream
    /\ UNCHANGED <<cached_events, relaying, failures, mintVars>>

TakeCtrl ==
    /\ worker = "ended"
    /\ worker' = "poll"
    /\ stream_ctrl' = "none"
    /\ UNCHANGED <<remote_subscriptions, subscriptions, left, names, messages, cached_events,
                   relaying, told, list, connection, to_mint, to_wallet,
                   failures, mintVars>>

-----------------------------------------------------------------------------
(* The worker: poll.                                                       *)

ReadListForPoll ==
    /\ worker = "poll"
    /\ worker' = "polling"
    /\ list' = Listed
    /\ UNCHANGED <<walletVars, connection, to_mint, to_wallet, failures, mintVars>>

\* The state of one topic, unless the request fails.
Poll ==
    /\ worker = "polling"
    /\ \E r \in list :
           /\ list' = list \ {r}
           /\ \/ /\ Relay(r.topic, db[r.topic])
                 /\ UNCHANGED failures
              \/ /\ CanFail
                 /\ UNCHANGED <<cached_events, relaying>>
    /\ UNCHANGED <<remote_subscriptions, subscriptions, left, names, stream_ctrl, messages,
                   told, worker, connection, to_mint, to_wallet, mintVars>>

EndPoll ==
    /\ worker = "polling" /\ list = {}
    /\ worker' = "top"
    /\ UNCHANGED <<walletVars, list, connection, to_mint, to_wallet, failures, mintVars>>

-----------------------------------------------------------------------------
(* The mint's end, and the network.                                        *)

MintReads ==
    /\ connection = "open" /\ to_mint # <<>>
    /\ to_mint' = Tail(to_mint)
    /\ Handle(Head(to_mint))
    /\ to_wallet' = IF IsInvalid(Head(to_mint)) THEN Append(to_wallet, [method |-> "error"])
                    ELSE to_wallet
    /\ UNCHANGED <<walletVars, worker, list, connection, failures>>

MintSends(n) ==
    /\ connection = "open"
    /\ Forward(n)
    /\ to_wallet' = Append(to_wallet,
           [method |-> "notification",
            topic |-> listener[n].topic, state |-> Head(listener[n].channel)])
    /\ UNCHANGED <<walletVars, worker, list, connection, to_mint, failures>>

\* What is on its way is lost, and the wallet may have no sign of it: a stream that
\* has ended only disables its branch of the select!, errors of write.send are
\* dropped, and nothing is sent to find out whether the mint is there.
LoseConnection ==
    /\ connection = "open"
    /\ CanFail
    /\ connection' \in {"broken", "silent"}
    /\ to_mint' = <<>>
    /\ to_wallet' = <<>>
    /\ \E restarts \in BOOLEAN : Disconnect(restarts)
    /\ UNCHANGED <<walletVars, worker, list>>

Publishes ==
    /\ \/ \E e \in publishing : Publish(e)
       \/ \E n \in DOMAIN listener : FetchRead(n) \/ FetchSend(n)
       \/ \E t \in Topic : EndTransaction(t) \/ EndMelt(t)
       \/ /\ (subscriptions \cup left) \cap Apart = {}
          /\ \E t \in Topic : Write(t)
    /\ UNCHANGED <<walletVars, workerVars>>

Next ==
    \/ \E s \in Sub : Subscribe(s) \/ Unsubscribe(s)
    \/ \E t \in relaying : LocalPublish(t)
    \/ Stream \/ DoNotStream \/ ReadList \/ Connect \/ ConnectFails
    \/ ReadCtrl \/ ReadNotification \/ ReadError \/ ReadFails
    \/ TakeCtrl \/ ReadListForPoll \/ Poll \/ EndPoll
    \/ MintReads \/ LoseConnection
    \/ \E n \in DOMAIN listener : MintSends(n)
    \/ Publishes

Spec == Init /\ [][Next]_vars

Name == 1..MaxNames

\* Every spawned task and both ends of the connection go on.  Nobody has to
\* subscribe, to leave or to change a quote, and nothing has to fail.
Fairness ==
    /\ \A t \in Topic : WF_vars(LocalPublish(t))
    /\ \A e \in Topic \X State \X (0..MaxChanges) :
           WF_vars(Publish(e) /\ UNCHANGED <<walletVars, workerVars>>)
    /\ \A n \in Name :
           /\ WF_vars((FetchRead(n) \/ FetchSend(n)) /\ UNCHANGED <<walletVars, workerVars>>)
           /\ WF_vars(MintSends(n))
    /\ WF_vars(MintReads)
    /\ WF_vars(Stream \/ DoNotStream \/ ReadList \/ Connect)
    /\ WF_vars(TakeCtrl \/ ReadListForPoll \/ Poll \/ EndPoll)
    /\ WF_vars(ReadCtrl)
    /\ WF_vars(ReadNotification \/ ReadError \/ ReadFails)

FairSpec == Spec /\ Fairness

-----------------------------------------------------------------------------
(* Properties.                                                             *)

\* The listeners of the mint, the two ends of the stream and the tables of the
\* wallet are what Subscriber, Consumer and UniqueSubscription allow; no topic is
\* counted for more subscribers than there are.
TypeOK ==
    /\ db \in [Topic -> State]
    /\ changes \in 0..MaxChanges
    /\ publishing \subseteq Topic \X State \X (0..MaxChanges)
    /\ DOMAIN listener \subseteq Name
    /\ \A n \in DOMAIN listener :
           listener[n] \in [topic : Topic, latest : State \cup {"none"},
                            fetched : State \cup {"todo", "done"},
                            channel : BoundedSeq(State, ChannelSize)]
    /\ DOMAIN remote_subscriptions \subseteq Topic
    /\ \A t \in DOMAIN remote_subscriptions :
           /\ remote_subscriptions[t].name \in Name
           /\ remote_subscriptions[t].total \in 1..Cardinality(Sub)
    /\ subscriptions \cap left = {}
    /\ stream_ctrl \in {"none", "open", "closed"}
    /\ cached_events \subseteq Topic /\ relaying \subseteq Topic
    /\ told \subseteq Sub \X Topic

\* A subscriber never loses its remote subscription to another that leaves: the
\* count of a topic is at least the number of its subscribers, also when
\* subscribe or unsubscribe gives up half-way because the stream has just ended.
EverySubscriberCounted ==
    \A t \in Topic : Subscribers(t) # {} =>
        /\ t \in DOMAIN remote_subscriptions
        /\ remote_subscriptions[t].total >= Cardinality(Subscribers(t))

\* stream_client waits for a message that cannot come, and the worker with it: only
\* a control message that ends the stream makes it poll again.
WaitsInVain == worker = "streaming" /\ connection = "silent"

\* A subscriber that has come before the payment is published, and stays, is told
\* of it: whatever the order of tasks and messages, connections that are not made
\* or break, restarts of the mint, errors that end the stream and subscribers that
\* come and go.  The exceptions: the stream waits on a connection of whose end it
\* has no sign, or a channel overflowed, or the handler of a melt ended between its
\* commit and publish, or fetch_events failed, or it read a mint quote after the
\* payment was published and before it was committed.
\* (One that comes later may be given a stale event from the cache, and no other.)
PaidIsTold ==
    \A s \in Sub \ Apart : \A t \in ToSet(Topics[s]) :
        (s \in subscriptions /\ db[t] = "Paid")
            ~> (<<s, t>> \in told \/ s \notin subscriptions \/ t \in lost \/ WaitsInVain)

=============================================================================
