----------------------------- MODULE ApiKeyService -----------------------------
(***************************************************************************)
(* API keys of an application (src/auth/ApiKeyService.ts): one key, its row, *)
(* its entry in the lookup cache, and the usage counted in memory until the  *)
(* next flush.  Every method is synchronous; between two of them the clock    *)
(* ticks and the rows may be replaced by those of a snapshot.                *)
(***************************************************************************)
EXTENDS Naturals

CONSTANTS
  KeyTtl,         \* ticks a cache entry lives (10 s)
  MaxKeyClock,    \* bound: ticks
  MaxSecrets,     \* bound: secrets generated
  MaxUses         \* bound: verifications that succeed

ASSUME ApiKeyAssumption == KeyTtl \in Nat \ {0} /\ MaxKeyClock \in Nat

VARIABLES
  keyRow,         \* the row of _api_keys, or NoKey
  keyCache,       \* its entry of keyCache: [key, until, since], or NoEntry
  keyClock,
  secrets,        \* number of secrets generated: the last one
  pendingUsage,   \* count in pendingUsageUpdates
  savedKey,       \* the row in a snapshot that can be restored
  restoredAt,     \* history: when rows were last restored, 0 if never
  used,           \* history: verifications that succeeded
  forgotten       \* history: uses that no counter can hold any more

apiKeyVars == <<keyRow, keyCache, keyClock, secrets, pendingUsage, savedKey,
                restoredAt, used, forgotten>>

NoKey == [secret |-> 0, status |-> "none", expires |-> 0, total |-> 0]
NoEntry == [key |-> NoKey, until |-> 0, since |-> 0]
Never == MaxKeyClock + KeyTtl

ApiKeyInit ==
  /\ keyRow = NoKey /\ keyCache = NoEntry /\ keyClock = 1 /\ secrets = 0
  /\ pendingUsage = 0 /\ savedKey = NoKey /\ restoredAt = 0
  /\ used = 0 /\ forgotten = 0

\* What verifyKey decides on: totals in the cache are those of its filling.
Policy(key) == [secret |-> key.secret, status |-> key.status, expires |-> key.expires]

Entry(key) == [key |-> key, until |-> keyClock + KeyTtl, since |-> keyClock]

CachedKeyLive == keyCache # NoEntry /\ keyCache.until > keyClock

-----------------------------------------------------------------------------
\* createKey: the cache is primed with the new key.
CreateKey(expires) ==
  /\ secrets = 0
  /\ secrets' = 1
  /\ keyRow' = [secret |-> 1, status |-> "active", expires |-> expires, total |-> 0]
  /\ keyCache' = Entry(keyRow')
  /\ UNCHANGED <<keyClock, pendingUsage, savedKey, restoredAt, used, forgotten>>

\* verifyKey, on the cached key or on the row, which it caches.  An expired key
\* is marked in the row and dropped from the cache.
VerifyKey(secret) ==
  LET key == IF CachedKeyLive THEN keyCache.key ELSE keyRow
      accepted == key.status = "active" /\ key.secret = secret IN
  /\ key # NoKey
  /\ IF accepted /\ keyClock > key.expires
     THEN /\ keyRow' = IF keyRow = NoKey THEN keyRow ELSE [keyRow EXCEPT !.status = "expired"]
          /\ keyCache' = NoEntry
          /\ UNCHANGED <<pendingUsage, used>>
     ELSE /\ keyCache' = IF CachedKeyLive THEN keyCache ELSE Entry(keyRow)
          /\ UNCHANGED keyRow
          /\ IF accepted
             THEN /\ used < MaxUses
                  /\ used' = used + 1 /\ pendingUsage' = pendingUsage + 1
             ELSE UNCHANGED <<pendingUsage, used>>
  /\ UNCHANGED <<keyClock, secrets, savedKey, restoredAt, forgotten>>

\* updateKey, of the fields that verifyKey reads.
UpdateKey(status, expires) ==
  /\ keyRow # NoKey
  /\ keyRow' = [keyRow EXCEPT !.status = status, !.expires = expires]
  /\ keyCache' = NoEntry
  /\ UNCHANGED <<keyClock, secrets, pendingUsage, savedKey, restoredAt, used, forgotten>>

RevokeKey ==
  /\ keyRow # NoKey
  /\ keyRow' = [keyRow EXCEPT !.status = "revoked"]
  /\ keyCache' = NoEntry
  /\ UNCHANGED <<keyClock, secrets, pendingUsage, savedKey, restoredAt, used, forgotten>>

DeleteKey ==
  /\ keyRow # NoKey
  /\ keyRow' = NoKey /\ keyCache' = NoEntry
  /\ forgotten' = forgotten + keyRow.total
  /\ UNCHANGED <<keyClock, secrets, pendingUsage, savedKey, restoredAt, used>>

\* The cache entry that rotateKey leaves behind.
AfterRotation_Kept == keyCache
AfterRotation == NoEntry

\* rotateKey: a new secret; the key is active again, and expires when it did.
RotateKey ==
  /\ keyRow # NoKey /\ secrets < MaxSecrets
  /\ secrets' = secrets + 1
  /\ keyRow' = [keyRow EXCEPT !.secret = secrets + 1, !.status = "active"]
  /\ keyCache' = AfterRotation
  /\ UNCHANGED <<keyClock, pendingUsage, savedKey, restoredAt, used, forgotten>>

\* flushUsageStats, on its timer and in dispose.  The update of a key that is
\* gone changes no row, and its count is cleared with the others.  A transaction
\* that fails keeps the counts.
FlushUsageStats ==
  /\ pendingUsage > 0
  /\ \/ /\ keyRow' = IF keyRow = NoKey THEN keyRow
                     ELSE [keyRow EXCEPT !.total = @ + pendingUsage]
        /\ forgotten' = forgotten + IF keyRow = NoKey THEN pendingUsage ELSE 0
        /\ pendingUsage' = 0
     \/ UNCHANGED <<keyRow, forgotten, pendingUsage>>
  /\ UNCHANGED <<keyCache, keyClock, secrets, savedKey, restoredAt, used>>

-----------------------------------------------------------------------------
\* A snapshot is taken; later it is restored, under the cache and the counts.
CaptureKey ==
  /\ keyRow # NoKey /\ savedKey # keyRow
  /\ savedKey' = keyRow
  /\ UNCHANGED <<keyRow, keyCache, keyClock, secrets, pendingUsage, restoredAt, used, forgotten>>

RestoreKey ==
  /\ savedKey # NoKey /\ savedKey # keyRow
  /\ keyRow' = savedKey
  /\ restoredAt' = keyClock
  /\ forgotten' = forgotten + keyRow.total - savedKey.total
  /\ UNCHANGED <<keyCache, keyClock, secrets, pendingUsage, savedKey, used>>

KeyTick ==
  /\ keyClock < MaxKeyClock
  /\ keyClock' = keyClock + 1
  /\ UNCHANGED <<keyRow, keyCache, secrets, pendingUsage, savedKey, restoredAt, used, forgotten>>

ApiKeyNext ==
  \/ \E e \in {2, Never} : CreateKey(e) \/ \E s \in {"active", "revoked"} : UpdateKey(s, e)
  \/ \E s \in 1..secrets : VerifyKey(s)
  \/ RevokeKey \/ DeleteKey \/ RotateKey \/ FlushUsageStats
  \/ CaptureKey \/ RestoreKey \/ KeyTick

ApiKeySpec == ApiKeyInit /\ [][ApiKeyNext]_apiKeyVars

-----------------------------------------------------------------------------
ApiKeyTypeOK ==
  /\ keyRow.secret \in 0..secrets
  /\ keyRow.status \in {"none", "active", "revoked", "expired"}
  /\ keyCache.until <= keyClock + KeyTtl

(* A key in the cache is the key of the row: what revoke, rotate, update,     *)
(* delete and expiry change is in force for the next request.  Only an entry  *)
(* cached before a restore may disagree with the rows, for its ten seconds:   *)
(* no handler of 'snapshot:restore' clears this cache.                       *)
CachedKeyIsRow ==
  CachedKeyLive => \/ Policy(keyCache.key) = Policy(keyRow)
                   \/ restoredAt > 0 /\ keyCache.since <= restoredAt

(* Every use of the key is in the total of its row, or waits for a flush, once *)
(* and only once, though flushes fail; what a deletion, or a restore of an     *)
(* older row, takes away is known.                                          *)
UsageConserved == used = keyRow.total + pendingUsage + forgotten
=============================================================================
