---------------------------- MODULE RealtimeClient ----------------------------
(***************************************************************************)
(* The realtime client of the SDK                                           *)
(* (packages/client/src/services/RealtimeService.ts) with the server's      *)
(* stream registry (src/realtime/RealtimeService.ts).                       *)
(*                                                                         *)
(* The client keeps one current EventSource, learns its client id from the  *)
(* handshake, and tells the server its topics with POSTs, which are answered *)
(* in any order or fail.  A source that errs and is not closed reconnects by *)
(* itself, as the browser's EventSource does.  The registration of a client  *)
(* on the server and the first event of its handshake are one step, the       *)
(* second event is another.  The callbacks of a topic are one: a topic is     *)
(* subscribed to or not.                                                     *)
(***************************************************************************)
EXTENDS Naturals, Sequences, SequencesExt

CONSTANTS
  Topic,            \* the topics of the application
  CollectionOf,     \* CollectionOf[t]: the event name of topic t
  MaxSources,       \* bound: EventSource objects made
  MaxClientIds,     \* bound: registrations with the server
  MaxPosts          \* bound: POSTs in flight

ASSUME RealtimeAssumption == Topic = DOMAIN CollectionOf

VARIABLES
  subscriptions,     \* the topics with a callback
  sources,           \* sources[s]: [state, bound, id]
  eventSource,       \* the current source, or 0
  clientId,          \* the id of the last handshake, or 0
  connectPromise,    \* the source whose connection is awaited, or 0
  registeredEventNames,
  reconnectTimeout,  \* is the reconnect timer set
  posts,             \* the POSTs in flight, oldest first
  clients,           \* clients[id]: the topics the server has for it, or Gone
  stale              \* history: the newest POST is not the last one applied

realtimeVars == <<subscriptions, sources, eventSource, clientId, connectPromise,
                  registeredEventNames, reconnectTimeout, posts, clients, stale>>

Gone == {"gone"}
EventNames(S) == {CollectionOf[t] : t \in S}

\* The sources that an error can reach.
Alive(s) == sources[s].state \in {"opening", "greeted", "open"}

RealtimeInit ==
  /\ subscriptions = {}
  /\ sources = <<>> /\ eventSource = 0
  /\ clientId = 0 /\ connectPromise = 0
  /\ registeredEventNames = {}
  /\ reconnectTimeout = FALSE
  /\ posts = <<>> /\ clients = <<>> /\ stale = FALSE

-----------------------------------------------------------------------------
(* The POSTs.                                                                *)

\* syncSubscriptions: sends the whole list of topics for the current id.
\* awaits is the source whose connect() waits for the answer.
SyncSubscriptions(id, topics, awaits) ==
  IF id = 0 THEN UNCHANGED <<posts, stale>>
  ELSE /\ Len(posts) < MaxPosts
       /\ posts' = Append([i \in DOMAIN posts |-> [posts[i] EXCEPT !.newest = FALSE]],
                          [id |-> id, topics |-> topics, newest |-> TRUE, awaits |-> awaits])
       /\ stale' = FALSE

\* The answer to a POST ends the connect() that waits for it, also when the
\* POST failed: syncSubscriptions only warns.
Answered(i) ==
  /\ posts' = RemoveAt(posts, i)
  /\ connectPromise' = IF posts[i].awaits = connectPromise THEN 0 ELSE connectPromise
  /\ UNCHANGED <<subscriptions, sources, eventSource, clientId,
                 registeredEventNames, reconnectTimeout>>

\* setSubscriptions on the server; an id that is gone answers 404.
SetSubscriptions(i) ==
  /\ LET p == posts[i] IN
     /\ clients' = [clients EXCEPT ![p.id] = IF @ = Gone THEN Gone ELSE p.topics]
     /\ stale' = (stale \/ (~p.newest /\ ~\E j \in DOMAIN posts : posts[j].newest))
  /\ Answered(i)

PostFails(i) ==
  /\ stale' = (stale \/ posts[i].newest)
  /\ Answered(i)
  /\ UNCHANGED clients

-----------------------------------------------------------------------------
(* Connecting.                                                               *)

\* bindTopicListener: an event name that is registered is not bound again.
BindTopicListeners(s, topics) ==
  /\ sources' = [sources EXCEPT ![s].bound = @ \cup (EventNames(topics) \ registeredEventNames)]
  /\ registeredEventNames' = registeredEventNames \cup EventNames(topics)

\* connect(): the id that is there, the promise that is there, or a source.
Connect(topics) ==
  IF (clientId # 0 /\ eventSource # 0) \/ connectPromise # 0
  THEN UNCHANGED <<sources, eventSource, connectPromise, registeredEventNames>>
  ELSE /\ Len(sources) < MaxSources
       /\ sources' = Append(sources, [state |-> "opening", id |-> 0,
                       bound |-> EventNames(topics) \ registeredEventNames])
       /\ registeredEventNames' = registeredEventNames \cup EventNames(topics)
       /\ eventSource' = Len(sources')
       /\ connectPromise' = Len(sources')

HandleConnect_NoSync(s) ==
  /\ sources[s].state = "opening" /\ Len(clients) < MaxClientIds
  /\ clients' = Append(clients, {})
  /\ clientId' = Len(clients')
  /\ sources' = [sources EXCEPT ![s].state = "greeted", ![s].id = Len(clients')]
  /\ connectPromise' = IF connectPromise = s THEN 0 ELSE connectPromise
  /\ stale' = FALSE
  /\ UNCHANGED <<subscriptions, eventSource, registeredEventNames, reconnectTimeout, posts>>

\* registerClient on the server, which sends NS_CONNECT and NB_CONNECT, and
\* handleConnect of the first on the client: the topics of this moment are sent
\* for the new id.
HandleConnect(s) ==
  /\ sources[s].state = "opening" /\ Len(clients) < MaxClientIds
  /\ clients' = Append(clients, {})
  /\ clientId' = Len(clients')
  /\ sources' = [sources EXCEPT ![s].state = "greeted", ![s].id = Len(clients')]
  /\ SyncSubscriptions(Len(clients'), subscriptions, s)
  /\ UNCHANGED <<subscriptions, eventSource, connectPromise, registeredEventNames,
                 reconnectTimeout>>

\* NB_CONNECT of the same handshake runs handleConnect again: the topics of that
\* moment are sent a second time.
HandleConnectAgain(s) ==
  /\ sources[s].state = "greeted"
  /\ clientId' = sources[s].id
  /\ sources' = [sources EXCEPT ![s].state = "open"]
  /\ SyncSubscriptions(sources[s].id, subscriptions, s)
  /\ UNCHANGED <<subscriptions, eventSource, connectPromise, registeredEventNames,
                 reconnectTimeout, clients>>

\* The server's 'close' handler drops the client of a stream that ended.
Dropped(id) == IF id = 0 THEN clients ELSE [clients EXCEPT ![id] = Gone]

\* disconnect(): the current source, if there is one, is closed; its id and the
\* reconnect timer are forgotten.
Disconnect ==
  /\ IF eventSource = 0 THEN UNCHANGED <<sources, clients>>
     ELSE /\ sources' = [sources EXCEPT ![eventSource].state = "closed"]
          /\ clients' = Dropped(sources[eventSource].id)
  /\ eventSource' = 0 /\ clientId' = 0 /\ registeredEventNames' = {}
  /\ reconnectTimeout' = FALSE
  /\ UNCHANGED <<subscriptions, connectPromise, posts, stale>>

\* onerror of source s.  Before the handshake it rejects the promise.  While a
\* reconnect timer is set handleDisconnect returns at once, and s goes on to
\* reconnect by itself; otherwise the current source is closed and a timer set.
OnError(s) ==
  /\ Alive(s)
  /\ connectPromise' = IF clientId = 0 /\ connectPromise = s THEN 0 ELSE connectPromise
  /\ LET open == IF reconnectTimeout THEN {} ELSE {eventSource} IN
     sources' = [x \in DOMAIN sources |->
                   CASE x \in open -> [sources[x] EXCEPT !.state = "closed"]
                     [] x = s /\ x \notin open -> [sources[x] EXCEPT !.state = "opening", !.id = 0]
                     [] OTHER -> sources[x]]
  /\ clients' = [id \in DOMAIN clients |->
                   IF id = sources[s].id \/ (~reconnectTimeout /\ eventSource # 0
                                              /\ id = sources[eventSource].id)
                   THEN Gone ELSE clients[id]]
  /\ IF reconnectTimeout
     THEN UNCHANGED <<eventSource, clientId, registeredEventNames>>
     ELSE eventSource' = 0 /\ clientId' = 0 /\ registeredEventNames' = {}
  /\ reconnectTimeout' = TRUE
  /\ UNCHANGED <<subscriptions, posts, stale>>

\* The reconnect timer: connect(), if a topic is left.
Reconnect ==
  /\ reconnectTimeout
  /\ reconnectTimeout' = FALSE
  /\ IF subscriptions # {} THEN Connect(subscriptions)
     ELSE UNCHANGED <<sources, eventSource, connectPromise, registeredEventNames>>
  /\ UNCHANGED <<subscriptions, clientId, posts, clients, stale>>

-----------------------------------------------------------------------------
(* The API.                                                                  *)

IsConnected == eventSource # 0 /\ clientId # 0

\* subscribe: bind and send when connected, connect otherwise.
Subscribe(t) ==
  /\ t \notin subscriptions
  /\ subscriptions' = subscriptions \cup {t}
  /\ IF IsConnected
     THEN /\ BindTopicListeners(eventSource, {t})
          /\ SyncSubscriptions(clientId, subscriptions', 0)
          /\ UNCHANGED <<eventSource, connectPromise>>
     ELSE Connect(subscriptions') /\ UNCHANGED <<posts, stale>>
  /\ UNCHANGED <<clientId, reconnectTimeout, clients>>

\* unsubscribe of the last callback of a topic.
Unsubscribe(t) ==
  /\ t \in subscriptions
  /\ subscriptions' = subscriptions \ {t}
  /\ IF IsConnected THEN SyncSubscriptions(clientId, subscriptions', 0)
     ELSE UNCHANGED <<posts, stale>>
  /\ UNCHANGED <<sources, eventSource, clientId, connectPromise,
                 registeredEventNames, reconnectTimeout, clients>>

RealtimeNext ==
  \/ \E t \in Topic : Subscribe(t) \/ Unsubscribe(t)
  \/ \E s \in DOMAIN sources : HandleConnect(s) \/ HandleConnectAgain(s) \/ OnError(s)
  \/ \E i \in DOMAIN posts : SetSubscriptions(i) \/ PostFails(i)
  \/ Reconnect
  \/ Disconnect

RealtimeSpec == RealtimeInit /\ [][RealtimeNext]_realtimeVars

-----------------------------------------------------------------------------
RealtimeTypeOK ==
  /\ subscriptions \subseteq Topic
  /\ \A s \in DOMAIN sources : /\ sources[s].state \in {"opening", "greeted", "open", "closed"}
                               /\ sources[s].bound \subseteq EventNames(Topic)
                               /\ sources[s].id \in 0..Len(clients)
  /\ eventSource \in 0..Len(sources) /\ connectPromise \in 0..Len(sources)
  /\ clientId \in 0..Len(clients)
  /\ registeredEventNames \subseteq EventNames(Topic)
  /\ reconnectTimeout \in BOOLEAN /\ stale \in BOOLEAN

\* The current source has made its handshake, and no other one has since.
Current == eventSource # 0 /\ clientId # 0 /\ sources[eventSource].id = clientId

(* When nothing is in flight on the current connection, the topics the server *)
(* has for the client are the client's own, whatever subscriptions, errors   *)
(* and reconnections came before, unless the newest POST failed or was       *)
(* overtaken by an older one: then nothing repairs the list until the next   *)
(* change of a topic or the next handshake.  Nor does it hold of the id of a  *)
(* source that was left behind and reconnected by itself: changes made while *)
(* there is no current source are not sent for it.                           *)
ServerKnowsTopics ==
  Current /\ posts = <<>> /\ ~stale /\ clients[clientId] # Gone
    => clients[clientId] = subscriptions

(* docs/docs/client-sdk/realtime-client.md:10: one connection, and           *)
(* subscriptions are multiplexed over it: an event the server sends for a    *)
(* topic of the client reaches a listener.  A topic that is added while the  *)
(* connection opens is never bound to the source.                            *)
EventsReachListeners ==
  \A s \in DOMAIN sources :
    sources[s].state \in {"greeted", "open"} /\ s = eventSource /\ sources[s].id = clientId
      /\ clients[clientId] # Gone
      => EventNames(clients[clientId] \cap subscriptions) \subseteq sources[s].bound
=============================================================================
