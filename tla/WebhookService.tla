----------------------------- MODULE WebhookService -----------------------------
(***************************************************************************)
(* Outbound webhooks (src/webhooks/WebhookService.ts): subscriptions, the    *)
(* dispatch of record events to them, and the delivery log with its manual   *)
(* retry.                                                                   *)
(*                                                                         *)
(* Names of collections are taken up to a plural s, and verbs up to tense: a  *)
(* match tolerates both.                                                     *)
(* A dispatch is two steps: the request is under way, then it is answered or  *)
(* given up and logged.  The request itself is external.                     *)
(***************************************************************************)
EXTENDS Naturals, FiniteSets

CONSTANTS
  Hook,            \* ids of webhooks
  Collection,      \* names of collections
  Verb,            \* created, updated, deleted
  MaxDispatches    \* bound: deliveries made

VARIABLES
  webhooks,        \* webhooks[h]: the row of h, or NoHook
  dispatches,      \* requests under way
  deliveries,      \* rows of _webhook_deliveries
  dispatched,      \* history: number of deliveries begun
  untraced         \* history: deliveries whose row could not be written or was cleared

webhookVars == <<webhooks, dispatches, deliveries, dispatched, untraced>>

AnyVerb == "*"
NotGiven == "not given"
AnyCollection == "*"

NoHook == [enabled |-> FALSE, collection |-> AnyCollection, event |-> AnyVerb,
           action |-> "none", chosen |-> FALSE]

Exists(h) == webhooks[h] # NoHook

WebhookInit ==
  /\ webhooks = [h \in Hook |-> NoHook]
  /\ dispatches = {} /\ deliveries = {}
  /\ dispatched = 0 /\ untraced = {}

-----------------------------------------------------------------------------
(* Subscriptions.  An event may be given as collection.verb: prefix is then  *)
(* its collection, and NotGiven if it has none or a wildcard.                *)

\* createWebhook: the collection wins over the prefix of the event, and the
\* action is the event's unless one is given.
CreateWebhook(h, collection, prefix, event, action) ==
  /\ ~Exists(h)
  /\ webhooks' = [webhooks EXCEPT ![h] =
       [enabled |-> TRUE,
        collection |-> IF collection = AnyCollection /\ prefix # NotGiven THEN prefix ELSE collection,
        event |-> event,
        action |-> IF action = NotGiven THEN event ELSE action,
        chosen |-> action # NotGiven]]
  /\ UNCHANGED <<dispatches, deliveries, dispatched, untraced>>

ActionOf_Kept(action, event, old) == IF action = NotGiven THEN old ELSE action

\* updateWebhook: the action follows the event, except that it stays as it was
\* when the event is AnyVerb.
ActionOf(action, event, old) ==
  IF action # NotGiven THEN action ELSE IF event # AnyVerb THEN event ELSE old

\* updateWebhook: each field may be given or not, and a prefix wins over the
\* collection.  chosen: the action is one the caller gave.
UpdateWebhook(h, collection, prefix, event, action, enabled) ==
  /\ Exists(h)
  /\ LET row == webhooks[h]
         e == IF event = NotGiven THEN row.event ELSE event IN
     webhooks' = [webhooks EXCEPT ![h] =
       [enabled |-> enabled,
        collection |-> CASE prefix # NotGiven -> prefix
                         [] collection # NotGiven -> collection
                         [] OTHER -> row.collection,
        event |-> e,
        action |-> ActionOf(action, e, row.action),
        chosen |-> action # NotGiven \/ (e = AnyVerb /\ row.chosen)]]
  /\ UNCHANGED <<dispatches, deliveries, dispatched, untraced>>

DeleteWebhook(h) ==
  /\ Exists(h)
  /\ webhooks' = [webhooks EXCEPT ![h] = NoHook]
  /\ UNCHANGED <<dispatches, deliveries, dispatched, untraced>>

-----------------------------------------------------------------------------
(* Matching.                                                                 *)

MatchesEvent(row, collection, verb) ==
  /\ row.enabled
  /\ row.collection \in {AnyCollection, collection}
  /\ row.action \in {AnyVerb, verb}
  /\ row.event \in {AnyVerb, verb}

-----------------------------------------------------------------------------
(* Deliveries.                                                               *)

\* A delivery to h of the payload about change, with a snapshot of the row.
Delivery(id, h, change, attempt) ==
  [id |-> id, hook |-> h, change |-> change, attempt |-> attempt]

\* handleRecordEvent: one dispatch per matching hook, none of them awaited.
\* Nothing is done while the database is closed or locked.
HandleRecordEvent(collection, verb) ==
  LET matching == {h \in Hook : MatchesEvent(webhooks[h], collection, verb)}
      n == Cardinality(matching) IN
  /\ matching # {} /\ dispatched + n <= MaxDispatches
  /\ \E number \in [matching -> dispatched + 1..dispatched + n] :
       /\ \A g, h \in matching : number[g] = number[h] => g = h
       /\ dispatches' = dispatches \cup
            {Delivery(number[h], h, [collection |-> collection, verb |-> verb], 1) : h \in matching}
  /\ dispatched' = dispatched + n
  /\ UNCHANGED <<webhooks, deliveries, untraced>>

\* testWebhook: by hand, whether the hook is enabled or not.
TestWebhook(h) ==
  /\ Exists(h) /\ dispatched < MaxDispatches
  /\ dispatches' = dispatches \cup
       {Delivery(dispatched + 1, h, [collection |-> webhooks[h].collection, verb |-> "test"], 1)}
  /\ dispatched' = dispatched + 1
  /\ UNCHANGED <<webhooks, deliveries, untraced>>

\* The rest of dispatch: the row is written after the request; when the insert
\* fails this is only logged.
DispatchEnds(d, status) ==
  /\ d \in dispatches
  /\ dispatches' = dispatches \ {d}
  /\ deliveries' = deliveries \cup {[delivery |-> d, status |-> status]}
  /\ UNCHANGED <<webhooks, dispatched, untraced>>

DispatchUnlogged(d) ==
  /\ d \in dispatches
  /\ dispatches' = dispatches \ {d}
  /\ untraced' = untraced \cup {d.id}
  /\ UNCHANGED <<webhooks, deliveries, dispatched>>

\* retryDelivery: the payload of the row once more, to the hook as it is now, or,
\* if it was deleted, to where the row says.
RetryDelivery(row) ==
  /\ row \in deliveries /\ dispatched < MaxDispatches
  /\ dispatches' = dispatches \cup
       {Delivery(dispatched + 1, row.delivery.hook, row.delivery.change, row.delivery.attempt + 1)}
  /\ dispatched' = dispatched + 1
  /\ UNCHANGED <<webhooks, deliveries, untraced>>

\* clearDeliveries: all rows, or those begun before some time.
ClearDeliveries(before) ==
  LET gone == {row \in deliveries : row.delivery.id < before} IN
  /\ gone # {}
  /\ deliveries' = deliveries \ gone
  /\ untraced' = untraced \cup {row.delivery.id : row \in gone}
  /\ UNCHANGED <<webhooks, dispatches, dispatched>>

\* A crash: requests under way leave no trace.
WebhookCrash ==
  /\ dispatches # {}
  /\ dispatches' = {}
  /\ untraced' = untraced \cup {d.id : d \in dispatches}
  /\ UNCHANGED <<webhooks, deliveries, dispatched>>

Statuses == {"success", "failed"}

WebhookNext ==
  \/ \E h \in Hook, c \in Collection \cup {AnyCollection}, p \in Collection \cup {NotGiven},
        e \in Verb \cup {AnyVerb}, a \in Verb \cup {AnyVerb, NotGiven} :
       CreateWebhook(h, c, p, e, a)
  \/ \E h \in Hook, c \in Collection \cup {AnyCollection, NotGiven},
        p \in Collection \cup {NotGiven}, e \in Verb \cup {AnyVerb, NotGiven},
        a \in Verb \cup {AnyVerb, NotGiven}, enabled \in BOOLEAN :
       (p # NotGiven => e # NotGiven) /\ UpdateWebhook(h, c, p, e, a, enabled)
  \/ \E h \in Hook : DeleteWebhook(h) \/ TestWebhook(h)
  \/ \E c \in Collection, v \in Verb : HandleRecordEvent(c, v)
  \/ \E d \in dispatches : DispatchUnlogged(d) \/ \E s \in Statuses : DispatchEnds(d, s)
  \/ \E row \in deliveries : RetryDelivery(row)
  \/ \E n \in 2..MaxDispatches + 1 : ClearDeliveries(n)
  \/ WebhookCrash

WebhookSpec == WebhookInit /\ [][WebhookNext]_webhookVars

-----------------------------------------------------------------------------
WebhookTypeOK ==
  /\ \A h \in Hook : Exists(h) =>
       /\ webhooks[h].collection \in Collection \cup {AnyCollection}
       /\ webhooks[h].event \in Verb \cup {AnyVerb}
       /\ webhooks[h].action \in Verb \cup {AnyVerb}
  /\ dispatched \in 0..MaxDispatches

(* A webhook whose event was set to a verb, and whose action was left to      *)
(* follow it, fires on that verb and on no other, after any sequence of       *)
(* updates: action repeats what event says, and both are tested.              *)
NamedEventFires ==
  \A h \in Hook, v \in Verb : LET row == webhooks[h] IN
    row.enabled /\ row.event # AnyVerb /\ ~row.chosen
      => \A c \in Collection : row.collection \in {AnyCollection, c}
           => (MatchesEvent(row, c, v) <=> v = row.event)

(* Admin UI, src/admin/ui/js/webhooks.js:681: the option "All Events".  A hook *)
(* that is set from one verb to all keeps the action of the verb and goes on  *)
(* firing for that verb only.                                                *)
AllEventsFires ==
  \A h \in Hook, v \in Verb, c \in Collection : LET row == webhooks[h] IN
    row.enabled /\ row.event = AnyVerb /\ ~row.chosen /\ row.collection = AnyCollection
      => MatchesEvent(row, c, v)
=============================================================================
