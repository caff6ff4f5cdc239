-------------------------------- MODULE EventBus --------------------------------
(***************************************************************************)
(* The event bus (src/core/events/EventBus.ts): the list of hooks of one      *)
(* event, and dispatches that await the hooks one after another while the     *)
(* list changes.  An unsubscriber splices the list in place; off and clear    *)
(* put another list in its place, and a dispatch goes on with the one it       *)
(* began.  on, off and emit of a custom event splice in place.               *)
(***************************************************************************)
EXTENDS Naturals, Sequences, FiniteSets, SequencesExt

CONSTANTS
  Dispatch,        \* events under way
  MaxHooks         \* bound: hooks ever subscribed; a hook is its number

VARIABLES
  hooks,           \* the list, of numbers
  subscribed,      \* number of hooks ever subscribed
  dispatch         \* dispatch[d], see Waiting

busVars == <<hooks, subscribed, dispatch>>

\* own: the list this dispatch goes through if it is not hooks any more; at: the
\* index of the hook it awaits; called: the hooks it called; due: the hooks that
\* were there when it began and were not taken off since; spliced: hooks that
\* were spliced out of its list at or before the place it had reached.
Waiting == [active |-> TRUE, detached |-> FALSE, own |-> <<>>, at |-> 0, called |-> <<>>,
            due |-> {}, spliced |-> 0]
Finished == [Waiting EXCEPT !.active = FALSE]

List(d) == IF dispatch[d].detached THEN dispatch[d].own ELSE hooks

BusInit ==
  /\ hooks = <<>> /\ subscribed = 0
  /\ dispatch = [d \in Dispatch |-> Finished]

Subscribed(h) == Append(hooks, h)

On ==
  /\ subscribed < MaxHooks
  /\ subscribed' = subscribed + 1
  /\ hooks' = Subscribed(subscribed + 1)
  /\ UNCHANGED dispatch

\* The unsubscriber that On returned, for the hook at index i.
CallUnsubscriber(i) ==
  /\ hooks' = RemoveAt(hooks, i)
  /\ dispatch' = [d \in Dispatch |->
       [dispatch[d] EXCEPT !.due = @ \ {hooks[i]},
          !.spliced = IF dispatch[d].active /\ ~dispatch[d].detached /\ i <= dispatch[d].at
                      THEN @ + 1 ELSE @]]
  /\ UNCHANGED subscribed

\* off*(handler), or clear: another list.
Replaced(list) ==
  /\ hooks' = list
  /\ dispatch' = [d \in Dispatch |->
       IF dispatch[d].active /\ ~dispatch[d].detached
       THEN [dispatch[d] EXCEPT !.detached = TRUE, !.own = hooks,
                                !.due = @ \cap ToSet(list)]
       ELSE [dispatch[d] EXCEPT !.due = @ \cap ToSet(list)]]
  /\ UNCHANGED subscribed

Off(i) == Replaced(RemoveAt(hooks, i))
Clear == hooks # <<>> /\ Replaced(<<>>)

\* The index from which a dispatch goes on after it has awaited the one at i.
Following_Second(i) == i + 2
Following(i) == i + 1

Calls(d, entry, list) ==
  LET i == Following(entry.at) IN
  dispatch' = [dispatch EXCEPT ![d] =
    IF i > Len(list) THEN [Finished EXCEPT !.called = entry.called, !.due = entry.due,
                                           !.spliced = entry.spliced, !.at = i]
    ELSE [entry EXCEPT !.at = i, !.called = Append(@, list[i])]]

\* trigger*, up to its first await.
Trigger(d) ==
  /\ ~dispatch[d].active /\ hooks # <<>>
  /\ Calls(d, [Waiting EXCEPT !.due = ToSet(hooks)], hooks)
  /\ UNCHANGED <<hooks, subscribed>>

\* The awaited hook has returned and did not cancel.
HookReturns(d) ==
  /\ dispatch[d].active
  /\ Calls(d, dispatch[d], List(d))
  /\ UNCHANGED <<hooks, subscribed>>

\* It threw, or cancelled the event: no further hook is called.
HookStops(d) ==
  /\ dispatch[d].active
  /\ dispatch' = [dispatch EXCEPT ![d] = Finished]
  /\ UNCHANGED <<hooks, subscribed>>

BusNext ==
  \/ On \/ Clear
  \/ \E i \in DOMAIN hooks : CallUnsubscriber(i) \/ Off(i)
  \/ \E d \in Dispatch : Trigger(d) \/ HookReturns(d) \/ HookStops(d)

BusSpec == BusInit /\ [][BusNext]_busVars

-----------------------------------------------------------------------------
BusTypeOK ==
  /\ subscribed \in 0..MaxHooks /\ ToSet(hooks) \subseteq 1..subscribed
  /\ \A d \in Dispatch : dispatch[d].at \in 0..MaxHooks + 1

(* One event calls its hooks in the order of their subscription and none twice, *)
(* whatever is subscribed and unsubscribed while it awaits them.              *)
CalledInOrder ==
  \A d \in Dispatch : LET c == dispatch[d].called IN
    \A i, j \in DOMAIN c : i < j => c[i] < c[j]

(* An event calls every hook that was there throughout; each unsubscription at  *)
(* or before the hook it awaits makes it skip at most one.                    *)
SkippedOnlyBySplice ==
  \A d \in Dispatch : LET e == dispatch[d] IN
    ~e.active => Cardinality(e.due \ ToSet(e.called)) <= e.spliced
=============================================================================
