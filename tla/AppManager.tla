------------------------------- MODULE AppManager -------------------------------
(***************************************************************************)
(* The applications of a process (src/apps/AppManager.ts, AppRegistry.ts) and  *)
(* their scopes (src/apps/AppScope.ts).  A scope owns the connection to the     *)
(* database of its application and the workers of its queues; it is opened by   *)
(* the first request that needs it and closed when its application is deleted  *)
(* or the process stops, where the loop over the scopes awaits the queues.     *)
(***************************************************************************)
EXTENDS Naturals, FiniteSets

CONSTANTS
  Slug,            \* slugs of applications
  DefaultSlug,
  Requester,       \* requests, timers: whoever holds a scope across awaits
  MaxScopes        \* bound: scopes ever opened; a scope is its number

VARIABLES
  registered,      \* slugs in the table _apps
  appCache,        \* appCache[a]: the scope under the slug and the id of a, or 0
  slugOf,          \* slugOf[n]: the application that scope n was opened for
  isClosed,        \* scopes closed
  heldScope,       \* heldScope[r]: the scope that r works with, or 0
  closing,         \* closeAllAsync: the scope whose queues it awaits, or 0
  visited,         \* the scopes it has closed
  stopping         \* "no", "closing" or "stopped"

appVars == <<registered, appCache, slugOf, isClosed, heldScope, closing, visited, stopping>>

NoSlug == "no slug"

ASSUME AppAssumption == DefaultSlug \in Slug /\ NoSlug \notin Slug /\ MaxScopes \in Nat

Opened == {n \in 1..MaxScopes : slugOf[n] # NoSlug}
CachedScopes == {appCache[a] : a \in Slug} \ {0}

AppInit ==
  /\ registered = {DefaultSlug} /\ isClosed = {} /\ visited = {}
  /\ appCache = [a \in Slug |-> 0] /\ slugOf = [n \in 1..MaxScopes |-> NoSlug]
  /\ heldScope = [r \in Requester |-> 0]
  /\ closing = 0 /\ stopping = "no"

-----------------------------------------------------------------------------
CreateApp(a) ==
  /\ stopping # "stopped" /\ a \notin registered
  /\ registered' = registered \cup {a}
  /\ UNCHANGED <<appCache, slugOf, isClosed, heldScope, closing, visited, stopping>>

\* get: the cached scope, whether it is closed or not, or a new one.  The
\* registry cannot be read after the process has stopped.
GetScope(r, a) ==
  /\ heldScope[r] = 0 /\ stopping # "stopped"
  /\ \/ /\ appCache[a] # 0
        /\ heldScope' = [heldScope EXCEPT ![r] = appCache[a]]
        /\ UNCHANGED <<appCache, slugOf>>
     \/ /\ appCache[a] = 0 /\ a \in registered
        /\ \E n \in 1..MaxScopes \ Opened :
             /\ n = Cardinality(Opened) + 1
             /\ slugOf' = [slugOf EXCEPT ![n] = a]
             /\ appCache' = [appCache EXCEPT ![a] = n]
             /\ heldScope' = [heldScope EXCEPT ![r] = n]
  /\ UNCHANGED <<registered, isClosed, closing, visited, stopping>>

\* Whatever the request did with the scope; on a closed one it failed.
Release(r) ==
  /\ heldScope[r] # 0
  /\ heldScope' = [heldScope EXCEPT ![r] = 0]
  /\ UNCHANGED <<registered, appCache, slugOf, isClosed, closing, visited, stopping>>

\* delete, one step: the scope is closed before its entry, its row and its
\* directory go.
DeleteApp(a) ==
  /\ stopping # "stopped" /\ a \in registered \ {DefaultSlug}
  /\ registered' = registered \ {a}
  /\ isClosed' = IF appCache[a] = 0 THEN isClosed ELSE isClosed \cup {appCache[a]}
  /\ appCache' = [appCache EXCEPT ![a] = 0]
  /\ UNCHANGED <<slugOf, heldScope, closing, visited, stopping>>

\* The cache while closeAllAsync closes scope n.
WhileClosing_Removed(n) == [a \in Slug |-> IF appCache[a] = n THEN 0 ELSE appCache[a]]
WhileClosing(n) == appCache

\* closeAllAsync goes to the next scope of the cache: also to one opened since.
CloseNext(n) ==
  /\ stopping # "stopped" /\ closing = 0
  /\ n \in CachedScopes \ visited
  /\ closing' = n /\ stopping' = "closing"
  /\ appCache' = WhileClosing(n)
  /\ UNCHANGED <<registered, slugOf, isClosed, heldScope, visited>>

\* closeAsync has awaited the queues.
CloseScope ==
  /\ closing # 0
  /\ isClosed' = isClosed \cup {closing} /\ visited' = visited \cup {closing}
  /\ closing' = 0
  /\ UNCHANGED <<registered, appCache, slugOf, heldScope, stopping>>

Unvisited == CachedScopes \ visited

\* The loop has come to its end; the cache is cleared, the registry closed.
AllClosed ==
  /\ stopping = "closing" /\ closing = 0 /\ Unvisited = {}
  /\ stopping' = "stopped"
  /\ appCache' = [a \in Slug |-> 0]
  /\ UNCHANGED <<registered, slugOf, isClosed, heldScope, closing, visited>>

AppNext ==
  \/ \E a \in Slug : CreateApp(a) \/ DeleteApp(a)
  \/ \E r \in Requester : Release(r) \/ \E a \in Slug : GetScope(r, a)
  \/ \E n \in 1..MaxScopes : CloseNext(n)
  \/ CloseScope \/ AllClosed

AppSpec == AppInit /\ [][AppNext]_appVars

-----------------------------------------------------------------------------
AppTypeOK ==
  /\ registered \subseteq Slug /\ isClosed \subseteq Opened
  /\ appCache \in [Slug -> {0} \cup Opened] /\ closing \in 0..MaxScopes

(* An application has at most one open scope, however requests, deletion and    *)
(* shutdown interleave: two would have two connections to one database and two *)
(* workers for each of its queues.                                          *)
OneOpenScope ==
  \A m, n \in Opened \ isClosed : slugOf[m] = slugOf[n] => m = n

(* When the process has stopped every scope that was ever opened is closed,     *)
(* those too that were opened while others were being closed.                 *)
NoneLeftOpen == stopping = "stopped" => Opened \subseteq isClosed
=============================================================================
