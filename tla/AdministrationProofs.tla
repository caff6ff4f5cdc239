-------------------------- MODULE AdministrationProofs -------------------------
(***************************************************************************)
(* Proofs about the components that administer applications and accounts:    *)
(* ApiKeyService, AuthSessions, OAuthLogin, PluginManager and AppManager,     *)
(* for any sets of applications, requests and callers, any lifetimes and any  *)
(* bounds.  They share no state; each section is about one of them.          *)
(***************************************************************************)
EXTENDS ApiKeyService, AuthSessions, OAuthLogin, PluginManager, AppManager, Integers, TLAPS

-----------------------------------------------------------------------------
(* API keys.                                                                *)

Status == {"none", "active", "revoked", "expired"}
Key == [secret : Nat, status : Status, expires : Nat, total : Int]

KeyTypes ==
  /\ keyRow \in Key /\ savedKey \in Key
  /\ keyCache \in [key : Key, until : Nat, since : Nat]
  /\ keyClock \in Nat \ {0} /\ secrets \in Nat /\ restoredAt \in Nat
  /\ pendingUsage \in Nat /\ used \in Nat /\ forgotten \in Int
  /\ secrets = 0 => keyRow = NoKey /\ savedKey = NoKey

(* An entry is never younger than the clock, which is what makes a restore    *)
(* the only excuse of a stale one; and no entry at all but NoEntry is needed   *)
(* to be live for the row to agree with it, since time only ends its life.    *)
CacheFollowsRow ==
  /\ keyCache.since <= keyClock
  /\ keyCache # NoEntry =>
       \/ Policy(keyCache.key) = Policy(keyRow)
       \/ restoredAt > 0 /\ keyCache.since <= restoredAt

KeyInv == KeyTypes /\ CacheFollowsRow /\ UsageConserved

(* The constant records are a key and an entry, and Never is a time.          *)
LEMMA KeyConstants ==
  /\ NoKey \in Key
  /\ NoEntry \in [key : Key, until : Nat, since : Nat]
  /\ Never \in Nat
  BY ApiKeyAssumption DEF NoKey, NoEntry, Key, Status, Never

(* Without a row, an entry or a use, all agree.                              *)
LEMMA KeyInvInit == ApiKeyInit => KeyInv
  BY KeyConstants
  DEF ApiKeyInit, KeyInv, KeyTypes, CacheFollowsRow, UsageConserved, NoKey, NoEntry

(* What caching a key at this moment leaves.                                 *)
LEMMA EntryIsFresh ==
  ASSUME NEW key \in Key, keyClock \in Nat
  PROVE  /\ Entry(key) \in [key : Key, until : Nat, since : Nat]
         /\ Entry(key).key = key /\ Entry(key).since = keyClock
  BY ApiKeyAssumption DEF Entry

(* verifyKey: the entry it leaves is the one it found, a copy of the row, or  *)
(* none; a use is counted when it is accepted.                               *)
LEMMA VerifyKeyKeeps ==
  ASSUME KeyInv, NEW s \in Nat, VerifyKey(s)
  PROVE  KeyInv'
<1> DEFINE key == IF CachedKeyLive THEN keyCache.key ELSE keyRow
           accepted == key.status = "active" /\ key.secret = s
<1> USE DEF KeyInv, KeyTypes
<1>1. CASE accepted /\ keyClock > key.expires
  <2>1. /\ keyRow' = IF keyRow = NoKey THEN keyRow ELSE [keyRow EXCEPT !.status = "expired"]
        /\ keyCache' = NoEntry
        /\ UNCHANGED <<pendingUsage, used, keyClock, secrets, savedKey, restoredAt, forgotten>>
    BY <1>1 DEF VerifyKey
  <2>2. keyRow' \in Key /\ keyRow'.total = keyRow.total
    BY <2>1 DEF Key, Status
  <2>3. keyCache'.since <= keyClock'
    BY <2>1 DEF NoEntry
  <2>4. QED
    BY <2>1, <2>2, <2>3, KeyConstants DEF CacheFollowsRow, UsageConserved
<1>2. CASE ~(accepted /\ keyClock > key.expires)
  <2>1. /\ keyCache' = IF CachedKeyLive THEN keyCache ELSE Entry(keyRow)
        /\ UNCHANGED <<keyRow, keyClock, secrets, savedKey, restoredAt, forgotten>>
        /\ \/ used' = used + 1 /\ pendingUsage' = pendingUsage + 1
           \/ UNCHANGED <<pendingUsage, used>>
    BY <1>2 DEF VerifyKey
  <2>2. CacheFollowsRow'
    BY <2>1, EntryIsFresh DEF CacheFollowsRow, CachedKeyLive, Policy
  <2>3. KeyTypes'
    BY <2>1, EntryIsFresh
  <2>4. QED
    BY <2>1, <2>2, <2>3 DEF Key, UsageConserved
<1>3. QED
  BY <1>1, <1>2

(* What leaves one counter for another leaves their sum.                     *)
LEMMA SumIsKept ==
  ASSUME NEW t \in Int, NEW t1 \in Int, NEW p \in Int, NEW f \in Int, NEW f1 \in Int,
         t1 + f1 = t + f
  PROVE  t1 + p + f1 = t + p + f
  OBVIOUS

(* A change of the row by its owner drops the entry, and keeps the total or    *)
(* moves it to what is forgotten.                                            *)
LEMMA ChangedRowKeeps ==
  ASSUME KeyInv, keyRow' \in Key, keyCache' = NoEntry,
         keyRow'.total + forgotten' = keyRow.total + forgotten,
         forgotten' \in Int, secrets' \in Nat, secrets' # 0,
         UNCHANGED <<keyClock, pendingUsage, savedKey, restoredAt, used>>
  PROVE  KeyInv'
<1> USE DEF KeyInv, KeyTypes
<1>1. keyRow'.total \in Int /\ keyRow.total \in Int
  BY DEF Key
<1>2. UsageConserved'
  <2>1. keyRow'.total + pendingUsage + forgotten' = keyRow.total + pendingUsage + forgotten
    BY <1>1, SumIsKept
  <2>2. QED
    BY <2>1 DEF UsageConserved
<1>3. CacheFollowsRow'
  BY DEF CacheFollowsRow, NoEntry
<1>4. QED
  BY <1>2, <1>3, KeyConstants

(* Each method, the restore of a snapshot and the clock keep the invariant.   *)
LEMMA KeyInvStep == KeyInv /\ [ApiKeyNext]_apiKeyVars => KeyInv'
<1> SUFFICES ASSUME KeyInv, [ApiKeyNext]_apiKeyVars PROVE KeyInv'
  OBVIOUS
<1> USE DEF KeyInv, KeyTypes
<1>1. ASSUME NEW e \in Nat, CreateKey(e) PROVE KeyInv'
  <2>1. keyRow' \in Key /\ keyRow'.total = 0
    BY <1>1 DEF CreateKey, Key, Status
  <2>2. keyCache' = Entry(keyRow') /\ keyClock' = keyClock
    BY <1>1 DEF CreateKey
  <2>3. CacheFollowsRow'
    BY <2>1, <2>2, EntryIsFresh DEF CacheFollowsRow
  <2>4. KeyTypes'
    BY <1>1, <2>1, <2>2, EntryIsFresh DEF CreateKey
  <2>5. QED
    BY <1>1, <2>1, <2>3, <2>4 DEF CreateKey, UsageConserved, NoKey
<1>2. ASSUME NEW s \in Nat, VerifyKey(s) PROVE KeyInv'
  BY <1>2, VerifyKeyKeeps
<1>3. ASSUME NEW s \in Status, NEW e \in Nat, UpdateKey(s, e) PROVE KeyInv'
  <2>1. keyRow' \in Key /\ keyRow'.total = keyRow.total
    BY <1>3 DEF UpdateKey, Key
  <2>2. QED
    BY <1>3, <2>1, ChangedRowKeeps DEF UpdateKey
<1>4. CASE RevokeKey
  <2>1. keyRow' \in Key /\ keyRow'.total = keyRow.total
    BY <1>4 DEF RevokeKey, Key, Status
  <2>2. QED
    BY <1>4, <2>1, ChangedRowKeeps DEF RevokeKey
<1>5. CASE DeleteKey
  <2>1. keyRow' \in Key /\ keyRow'.total = 0 /\ keyRow.total \in Int
    BY <1>5, KeyConstants DEF DeleteKey, Key, NoKey
  <2>2. keyRow'.total + forgotten' = keyRow.total + forgotten /\ forgotten' \in Int
    BY <1>5, <2>1 DEF DeleteKey
  <2>3. QED
    BY <1>5, <2>1, <2>2, ChangedRowKeeps DEF DeleteKey
<1>6. CASE RotateKey
  <2>1. secrets + 1 \in Nat /\ secrets + 1 # 0
    OBVIOUS
  <2>2. keyRow' = [keyRow EXCEPT !.secret = secrets + 1, !.status = "active"]
    BY <1>6 DEF RotateKey
  <2>3. keyRow' \in Key /\ keyRow'.total = keyRow.total
    BY <2>1, <2>2 DEF Key, Status
  <2>4. QED
    BY <1>6, <2>1, <2>3, ChangedRowKeeps DEF RotateKey, AfterRotation
<1>7. CASE FlushUsageStats
  <2> DEFINE Counted == [keyRow EXCEPT !.total = @ + pendingUsage]
  <2>a. Counted \in Key /\ Policy(Counted) = Policy(keyRow)
        /\ Counted.total = keyRow.total + pendingUsage /\ keyRow.total \in Int
    BY DEF Key, Policy
  <2>b. /\ keyRow' \in {keyRow, Counted} /\ forgotten' \in Int /\ pendingUsage' \in Nat
        /\ \/ keyRow' = keyRow /\ pendingUsage' + forgotten' = pendingUsage + forgotten
           \/ keyRow' = Counted /\ pendingUsage' = 0 /\ forgotten' = forgotten
        /\ keyRow = NoKey => keyRow' = keyRow
    BY <1>7 DEF FlushUsageStats
  <2>1. /\ keyRow' \in Key /\ Policy(keyRow') = Policy(keyRow)
        /\ forgotten' \in Int /\ pendingUsage' \in Nat
        /\ keyRow'.total + pendingUsage' + forgotten' = keyRow.total + pendingUsage + forgotten
    <3>1. CASE keyRow' = keyRow /\ pendingUsage' + forgotten' = pendingUsage + forgotten
      BY <3>1, <2>a, <2>b
    <3>2. CASE keyRow' = Counted /\ pendingUsage' = 0 /\ forgotten' = forgotten
      <4>1. keyRow'.total = keyRow.total + pendingUsage
        BY <3>2, <2>a
      <4>2. QED
        BY <3>2, <4>1, <2>a, <2>b
    <3>3. QED
      BY <3>1, <3>2, <2>b
  <2>2. UNCHANGED <<keyCache, keyClock, secrets, savedKey, restoredAt, used>>
    BY <1>7 DEF FlushUsageStats
  <2>3. CacheFollowsRow'
    BY <2>1, <2>2 DEF CacheFollowsRow, Policy
  <2>4. QED
    BY <2>b, <2>1, <2>2, <2>3 DEF UsageConserved
<1>8. CASE CaptureKey
  BY <1>8 DEF CaptureKey, CacheFollowsRow, UsageConserved
<1>9. CASE RestoreKey
  <2>1. keyRow' = savedKey /\ restoredAt' = keyClock
    BY <1>9 DEF RestoreKey
  <2>2. CacheFollowsRow'
    BY <1>9, <2>1 DEF RestoreKey, CacheFollowsRow
  <2>3. keyRow.total \in Int /\ savedKey.total \in Int
    BY DEF Key
  <2>4. forgotten' = forgotten + keyRow.total - savedKey.total
    BY <1>9 DEF RestoreKey
  <2>5. UNCHANGED <<keyCache, keyClock, secrets, pendingUsage, savedKey, used>>
    BY <1>9 DEF RestoreKey
  <2>6. forgotten' \in Int /\ UsageConserved'
    BY <2>1, <2>3, <2>4, <2>5 DEF UsageConserved
  <2>7. QED
    BY <2>1, <2>2, <2>5, <2>6
<1>10. CASE KeyTick
  BY <1>10 DEF KeyTick, CacheFollowsRow, UsageConserved
<1>11. CASE UNCHANGED apiKeyVars
  BY <1>11 DEF apiKeyVars, CacheFollowsRow, UsageConserved
<1>12. {2, Never} \subseteq Nat /\ 1..secrets \subseteq Nat /\ {"active", "revoked"} \subseteq Status
  BY KeyConstants DEF Status
<1>13. CASE \E e \in {2, Never} : CreateKey(e) \/ \E s \in {"active", "revoked"} : UpdateKey(s, e)
  BY <1>1, <1>3, <1>12, <1>13
<1>14. CASE \E s \in 1..secrets : VerifyKey(s)
  BY <1>2, <1>12, <1>14
<1>15. QED
  BY <1>4, <1>5, <1>6, <1>7, <1>8, <1>9, <1>10, <1>11, <1>13, <1>14 DEF ApiKeyNext

(* The invariant holds of the service as it runs.                            *)
THEOREM KeyInvariant == ApiKeySpec => []KeyInv
  BY KeyInvInit, KeyInvStep, PTL DEF ApiKeySpec

(* verifyKey decides on the row as it is, or on an entry from before the last  *)
(* restore: keyCache is dropped by every method that changes the row.         *)
THEOREM CachedKeyIsCurrent == ApiKeySpec => []CachedKeyIsRow
<1>1. KeyInv => CachedKeyIsRow
  BY DEF KeyInv, CacheFollowsRow, CachedKeyIsRow, CachedKeyLive
<1>2. QED
  BY <1>1, KeyInvariant, PTL

(* recordUsage and flushUsageStats count every use once, whichever flushes     *)
(* fail.                                                                     *)
THEOREM UsageIsConserved == ApiKeySpec => []UsageConserved
<1>1. KeyInv => UsageConserved
  BY DEF KeyInv
<1>2. QED
  BY <1>1, KeyInvariant, PTL

-----------------------------------------------------------------------------
(* Token keys of administrators.                                            *)

CacheEntry == [tokenKey : Nat, until : Nat]

SessionTypes ==
  /\ tokenKey \in 1..MaxTokenKeys /\ authClock \in Nat
  /\ tokenKeyCache \in [App -> CacheEntry]
  /\ hashing \in App \cup {NoApp}
  /\ replaced \in [1..MaxTokenKeys -> [at : Nat, by : App \cup {NoApp, Cli}]]

(* No entry is of a key to come, or lives longer than one just made.          *)
EntriesAreOld ==
  \A a \in App :
    /\ tokenKeyCache[a].tokenKey <= tokenKey
    /\ tokenKeyCache[a].until <= authClock + TokenTtl

(* An entry of a replaced key was made before the key was replaced, and not by *)
(* the AuthService that replaced it.                                         *)
StaleEntriesEnd ==
  \A a \in App, k \in 1..tokenKey - 1 :
    tokenKeyCache[a].tokenKey = k =>
      /\ replaced[k].by # a
      /\ tokenKeyCache[a].until <= replaced[k].at + TokenTtl

SessionInv == SessionTypes /\ EntriesAreOld /\ StaleEntriesEnd

(* The first key is the only one, and nothing is cached.                     *)
LEMMA SessionInvInit == AuthInit => SessionInv
  BY AuthAssumption
  DEF AuthInit, SessionInv, SessionTypes, EntriesAreOld, StaleEntriesEnd, CacheEntry, NoCached

(* verifyToken keeps a live entry, makes one of the current key, or leaves     *)
(* none.                                                                     *)
LEMMA LookedIsKnown ==
  ASSUME SessionInv, NEW a \in App, NEW k
  PROVE  \/ Looked(a, k) = tokenKeyCache[a]
         \/ Looked(a, k) = [tokenKey |-> tokenKey, until |-> authClock + TokenTtl]
         \/ Looked(a, k) = NoCached
  BY DEF Looked, Touched

(* A request leaves in each cache what was there, a fresh entry, or none.     *)
LEMMA HandleTokenKeeps ==
  ASSUME SessionInv, NEW a \in App, NEW k, HandleToken(a, k)
  PROVE  SessionInv'
<1> USE AuthAssumption DEF SessionInv, SessionTypes, CacheEntry
<1> DEFINE Fresh == [tokenKey |-> tokenKey, until |-> authClock + TokenTtl]
<1>1. UNCHANGED <<tokenKey, authClock, hashing, replaced>>
  BY DEF HandleToken
<1>2. \A b \in App : tokenKeyCache'[b] \in {tokenKeyCache[b], Fresh, NoCached}
  BY LookedIsKnown DEF HandleToken
<1>3. /\ Fresh \in CacheEntry /\ Fresh.tokenKey = tokenKey /\ Fresh.until = authClock + TokenTtl
      /\ NoCached \in CacheEntry /\ NoCached.tokenKey = 0 /\ NoCached.until = 0
  BY DEF NoCached
<1> HIDE DEF Fresh
<1>4. tokenKeyCache' \in [App -> CacheEntry]
  <2>1. DOMAIN tokenKeyCache' = App /\ tokenKeyCache' = [b \in App |-> tokenKeyCache'[b]]
    BY DEF HandleToken
  <2>2. \A b \in App : tokenKeyCache'[b] \in CacheEntry
    BY <1>2, <1>3
  <2>3. QED
    BY <2>1, <2>2
<1>5. EntriesAreOld'
  <2> SUFFICES ASSUME NEW b \in App
               PROVE  /\ tokenKeyCache'[b].tokenKey <= tokenKey
                      /\ tokenKeyCache'[b].until <= authClock + TokenTtl
    BY <1>1 DEF EntriesAreOld
  <2>1. CASE tokenKeyCache'[b] = tokenKeyCache[b]
    BY <2>1 DEF EntriesAreOld
  <2>2. CASE tokenKeyCache'[b] = Fresh
    BY <2>2, <1>3
  <2>3. CASE tokenKeyCache'[b] = NoCached
    BY <2>3, <1>3
  <2>4. QED
    BY <1>2, <2>1, <2>2, <2>3
<1>6. StaleEntriesEnd'
  <2> SUFFICES ASSUME NEW b \in App, NEW j \in 1..tokenKey - 1,
                      tokenKeyCache'[b].tokenKey = j
               PROVE  /\ replaced[j].by # b
                      /\ tokenKeyCache'[b].until <= replaced[j].at + TokenTtl
    BY <1>1 DEF StaleEntriesEnd
  <2>1. tokenKeyCache'[b] # Fresh /\ tokenKeyCache'[b] # NoCached
    BY <1>3
  <2>2. tokenKeyCache'[b] = tokenKeyCache[b]
    BY <1>2, <2>1
  <2>3. QED
    BY <2>2 DEF StaleEntriesEnd
<1>7. QED
  BY <1>1, <1>4, <1>5, <1>6

(* A replaced key is stale from now on: what the other caches hold of it was   *)
(* cached before, and whoever replaced it holds nothing.                     *)
LEMMA ReplaceKeeps ==
  ASSUME SessionInv, NEW by \in App \cup {Cli}, Replace(by, {by} \cap App),
         authClock' = authClock, hashing' \in App \cup {NoApp}
  PROVE  SessionInv'
<1> USE AuthAssumption DEF SessionInv, SessionTypes, CacheEntry
<1>1. /\ tokenKey < MaxTokenKeys /\ tokenKey' = tokenKey + 1
      /\ replaced' = [replaced EXCEPT ![tokenKey] = [at |-> authClock, by |-> by]]
      /\ tokenKeyCache' = [a \in App |-> IF a = by THEN NoCached ELSE tokenKeyCache[a]]
  BY DEF Replace
<1>2. NoCached \in CacheEntry
  BY DEF NoCached
<1>3. tokenKey' \in 1..MaxTokenKeys
  BY <1>1
<1>4. tokenKeyCache' \in [App -> CacheEntry]
  BY <1>1, <1>2
<1>5. replaced' \in [1..MaxTokenKeys -> [at : Nat, by : App \cup {NoApp, Cli}]]
  BY <1>1
<1>6. EntriesAreOld'
  <2> SUFFICES ASSUME NEW a \in App
               PROVE  /\ tokenKeyCache'[a].tokenKey <= tokenKey + 1
                      /\ tokenKeyCache'[a].until <= authClock + TokenTtl
    BY <1>1 DEF EntriesAreOld
  <2>1. CASE tokenKeyCache'[a] = NoCached
    BY <2>1 DEF NoCached
  <2>2. CASE tokenKeyCache'[a] = tokenKeyCache[a]
    BY <2>2 DEF EntriesAreOld
  <2>3. QED
    BY <1>1, <2>1, <2>2
<1>7. StaleEntriesEnd'
  <2> SUFFICES ASSUME NEW a \in App, NEW k \in 1..tokenKey,
                      tokenKeyCache'[a].tokenKey = k
               PROVE  /\ replaced'[k].by # a
                      /\ tokenKeyCache'[a].until <= replaced'[k].at + TokenTtl
    BY <1>1 DEF StaleEntriesEnd
  <2>1. a # by /\ tokenKeyCache'[a] = tokenKeyCache[a]
    BY <1>1 DEF NoCached
  <2>2. CASE k = tokenKey
    <3>1. replaced'[k] = [at |-> authClock, by |-> by]
      BY <1>1, <2>2
    <3>2. QED
      BY <2>1, <3>1 DEF EntriesAreOld
  <2>3. CASE k # tokenKey
    <3>1. replaced'[k] = replaced[k] /\ k \in 1..tokenKey - 1
      BY <1>1, <2>3
    <3>2. QED
      BY <2>1, <3>1 DEF StaleEntriesEnd
  <2>4. QED
    BY <2>2, <2>3
<1>8. QED
  BY <1>3, <1>4, <1>5, <1>6, <1>7

(* Every method of the services, the command line and the clock.             *)
LEMMA SessionInvStep == SessionInv /\ [AuthNext]_authVars => SessionInv'
<1> SUFFICES ASSUME SessionInv, [AuthNext]_authVars PROVE SessionInv'
  OBVIOUS
<1> USE DEF SessionInv, SessionTypes
<1>1. CASE LoginReads
  BY <1>1 DEF LoginReads, EntriesAreOld, StaleEntriesEnd
<1>2. CASE LoginEnds
  BY <1>2 DEF LoginEnds, EntriesAreOld, StaleEntriesEnd
<1>3. CASE PasswordHashed
  <2>1. hashing \in App /\ {hashing} \cap App = {hashing}
    BY <1>3 DEF PasswordHashed
  <2>2. QED
    BY <1>3, <2>1, ReplaceKeeps DEF PasswordHashed
<1>4. CASE ResetPassword
  <2>1. {Cli} \cap App = {}
    BY AuthAssumption
  <2>2. QED
    BY <1>4, <2>1, ReplaceKeeps DEF ResetPassword
<1>5. CASE AuthTick
  <2>1. EntriesAreOld'
    BY <1>5, AuthAssumption DEF AuthTick, EntriesAreOld, CacheEntry
  <2>2. QED
    BY <1>5, <2>1 DEF AuthTick, StaleEntriesEnd
<1>6. ASSUME NEW a \in App, RevokeAdminSessions(a) PROVE SessionInv'
  <2>1. {a} \cap App = {a}
    OBVIOUS
  <2>2. QED
    BY <1>6, <2>1, ReplaceKeeps DEF RevokeAdminSessions
<1>7. ASSUME NEW a \in App, UpdateAdminPassword(a) PROVE SessionInv'
  BY <1>7 DEF UpdateAdminPassword, EntriesAreOld, StaleEntriesEnd
<1>8. ASSUME NEW a \in App, EvictToken(a) PROVE SessionInv'
  BY <1>8, AuthAssumption DEF EvictToken, EntriesAreOld, StaleEntriesEnd, CacheEntry, NoCached
<1>9. ASSUME NEW a \in App, NEW k \in tokens, HandleToken(a, k) PROVE SessionInv'
  BY <1>9, HandleTokenKeeps
<1>10. CASE UNCHANGED authVars
  BY <1>10 DEF authVars, EntriesAreOld, StaleEntriesEnd
<1>11. QED
  BY <1>1, <1>2, <1>3, <1>4, <1>5, <1>6, <1>7, <1>8, <1>9, <1>10 DEF AuthNext

(* The invariant holds of the services as they run.                          *)
THEOREM SessionInvariant == AuthSpec => []SessionInv
  BY SessionInvInit, SessionInvStep, PTL DEF AuthSpec

(* Whatever is asked of getCachedTokenKey meanwhile, a token whose key was     *)
(* replaced is refused one lifetime of an entry later, and at once by the      *)
(* AuthService that replaced the key.                                        *)
THEOREM StaleTokensEnd == AuthSpec => []StaleOnlyElsewhere
<1>1. SessionInv => StaleOnlyElsewhere
  <2> SUFFICES ASSUME SessionInv, NEW a \in App, NEW k \in 1..tokenKey - 1, Verifies(a, k)
               PROVE  replaced[k].by # a /\ authClock <= replaced[k].at + TokenTtl
    BY DEF StaleOnlyElsewhere
  <2> USE DEF SessionInv, SessionTypes, CacheEntry
  <2>1. tokenKey # k
    OBVIOUS
  <2>2. authClock <= tokenKeyCache[a].until /\ tokenKeyCache[a].tokenKey = k
    BY <2>1 DEF Verifies, Cached
  <2>3. /\ replaced[k].by # a
        /\ tokenKeyCache[a].until <= replaced[k].at + TokenTtl
    BY <2>2 DEF StaleEntriesEnd
  <2>4. k \in 1..MaxTokenKeys /\ replaced[k].at \in Nat /\ tokenKeyCache[a].until \in Nat
    BY AuthAssumption
  <2>5. QED
    BY <2>2, <2>3, <2>4, AuthAssumption
<1>2. QED
  BY <1>1, SessionInvariant, PTL

-----------------------------------------------------------------------------
(* Logins through a provider.                                               *)

Attempt ==
  [pc : {"idle", "exchanging", "provisioning", "done", "failed"},
   state : State \cup {"none"}, identity : Identity \cup {"none"},
   email : Email \cup {NoEmail}, account : Login \cup {NoLogin}]

LoginTypes ==
  /\ sessions \subseteq minted /\ minted \subseteq State
  /\ attempt \in [Login -> Attempt]
  /\ account \in [Login -> Email \cup {NoEmail}]
  /\ link \in [Identity -> Login \cup {NoLogin}]
  /\ \A l \in Login : attempt[l].pc \in {"provisioning", "done"} => attempt[l].identity \in Identity

(* The state of a login is minted and used up, and no other login has it.     *)
StatesAreSpent ==
  \A l \in Login : attempt[l].pc # "idle" =>
    /\ attempt[l].state \in minted \ sessions
    /\ \A k \in Login : attempt[k].pc # "idle" /\ attempt[k].state = attempt[l].state => k = l

(* A login that succeeded is the one its user's link leads to.                *)
DoneIsLinked ==
  \A l \in Login \ voided : attempt[l].pc = "done" =>
    Has(attempt[l].account) /\ link[attempt[l].identity] = attempt[l].account

(* A login that has not begun has no state.                                  *)
IdleHasNoState == \A l \in Login : attempt[l].pc = "idle" => attempt[l] = Idle

LoginInv == LoginTypes /\ StatesAreSpent /\ DoneIsLinked /\ IdleHasNoState

(* At first no login has begun.                                              *)
LEMMA LoginInvInit == OAuthInit => LoginInv
  BY DEF OAuthInit, LoginInv, LoginTypes, StatesAreSpent, DoneIsLinked, IdleHasNoState,
         Attempt, Idle

(* Steps of a login that leave its state alone, from a pc that is not idle to  *)
(* another, spend nothing.                                                   *)
LEMMA StatesKept ==
  ASSUME LoginInv, NEW l \in Login, NEW new \in Attempt,
         attempt[l].pc # "idle", new.pc # "idle", new.state = attempt[l].state,
         attempt' = [attempt EXCEPT ![l] = new],
         UNCHANGED <<sessions, minted>>
  PROVE  StatesAreSpent' /\ IdleHasNoState' /\ attempt' \in [Login -> Attempt]
<1> USE DEF LoginInv, LoginTypes
<1>1. \A k \in Login : attempt'[k] = IF k = l THEN new ELSE attempt[k]
  OBVIOUS
<1>2. \A k \in Login : /\ attempt'[k].state = attempt[k].state
                       /\ attempt'[k].pc = "idle" <=> attempt[k].pc = "idle"
  BY <1>1
<1>3. StatesAreSpent'
  BY <1>2 DEF StatesAreSpent
<1>4. IdleHasNoState'
  BY <1>1 DEF IdleHasNoState
<1>5. QED
  BY <1>3, <1>4

(* validateAndConsumeState: a state that is still there was used by nobody.   *)
LEMMA ConsumeKeeps ==
  ASSUME LoginInv, NEW l \in Login, NEW s \in State, ValidateAndConsumeState(l, s)
  PROVE  LoginInv'
<1> USE DEF LoginInv, LoginTypes
<1>1. PICK pc \in {"exchanging", "failed"} :
        attempt' = [attempt EXCEPT ![l].pc = pc, ![l].state = s]
  BY DEF ValidateAndConsumeState
<1>2. /\ attempt[l] = Idle /\ s \in sessions /\ sessions' = sessions \ {s}
      /\ UNCHANGED <<minted, account, link, voided>>
  BY DEF ValidateAndConsumeState, Consumed
<1>3. /\ attempt' \in [Login -> Attempt]
      /\ attempt'[l].pc = pc /\ attempt'[l].state = s
      /\ \A k \in Login : k # l => attempt'[k] = attempt[k]
  BY <1>1 DEF Attempt
<1>4. StatesAreSpent'
  <2>1. \A k \in Login : k # l /\ attempt[k].pc # "idle" => attempt[k].state # s
    BY <1>2 DEF StatesAreSpent
  <2>2. s \in minted' \ sessions'
    BY <1>2
  <2>3. QED
    BY <1>2, <1>3, <2>1, <2>2 DEF StatesAreSpent
<1>5. DoneIsLinked'
  BY <1>2, <1>3 DEF DoneIsLinked, Has
<1>6. IdleHasNoState'
  BY <1>2, <1>3 DEF IdleHasNoState
<1>7. QED
  BY <1>2, <1>3, <1>4, <1>5, <1>6

(* authenticateOAuth2 after the exchange: it follows the link, or finds none    *)
(* that leads to an account, so that no login that succeeded hangs on it.     *)
LEMMA ExchangeKeeps ==
  ASSUME LoginInv, NEW l \in Login, NEW i \in Identity, NEW e \in Email, NEW v \in BOOLEAN,
         ExchangeCode(l, i, e, v)
  PROVE  LoginInv'
<1> USE DEF LoginInv, LoginTypes
<1> DEFINE Step(pc, a, new) ==
      /\ pc \in {"done", "failed", "provisioning"} /\ a \in Login \cup {NoLogin}
      /\ new = [pc |-> pc, state |-> attempt[l].state, account |-> a, identity |-> i, email |-> e]
      /\ attempt' = [attempt EXCEPT ![l] = new]
<1>1. attempt[l].pc = "exchanging" /\ UNCHANGED <<sessions, minted, account, voided>>
  BY DEF ExchangeCode
<1>2. ASSUME NEW pc, NEW a, NEW new, Step(pc, a, new),
             pc = "done" => Has(a) /\ link'[i] = a,
             link' = link \/ (~Has(link[i]) /\ \E b \in Login \cup {NoLogin} : link' = [link EXCEPT ![i] = b])
      PROVE  LoginInv'
  <2>1. new \in Attempt /\ new.pc = pc /\ new.state = attempt[l].state
        /\ new.account = a /\ new.identity = i
    BY <1>2 DEF Attempt
  <2>2. StatesAreSpent' /\ IdleHasNoState' /\ attempt' \in [Login -> Attempt]
    BY <1>1, <1>2, <2>1, StatesKept
  <2>3. /\ attempt'[l] = new
        /\ \A k \in Login : k # l => attempt'[k] = attempt[k]
    BY <1>2
  <2>4. DoneIsLinked'
    <3> SUFFICES ASSUME NEW k \in Login \ voided, attempt'[k].pc = "done"
                 PROVE  Has(attempt'[k].account) /\ link'[attempt'[k].identity] = attempt'[k].account
      BY <1>1 DEF DoneIsLinked, Has
    <3>1. CASE k = l
      BY <1>2, <2>1, <2>3, <3>1
    <3>2. CASE k # l
      <4>1. Has(attempt[k].account) /\ link[attempt[k].identity] = attempt[k].account
        BY <2>3, <3>2 DEF DoneIsLinked
      <4>2. CASE link' = link
        BY <2>3, <3>2, <4>1, <4>2
      <4>3. CASE ~Has(link[i]) /\ \E b \in Login \cup {NoLogin} : link' = [link EXCEPT ![i] = b]
        <5>1. attempt[k].identity # i
          BY <4>1, <4>3
        <5>2. link'[attempt[k].identity] = link[attempt[k].identity]
          BY <2>3, <3>2, <4>3, <5>1
        <5>3. QED
          BY <2>3, <3>2, <4>1, <5>2
      <4>4. QED
        BY <1>2, <4>2, <4>3
    <3>3. QED
      BY <3>1, <3>2
  <2>5. \A k \in Login : attempt'[k].pc \in {"provisioning", "done"} => attempt'[k].identity \in Identity
    BY <2>1, <2>3
  <2>6. QED
    BY <1>1, <1>2, <2>2, <2>4, <2>5
<1>3. CASE Has(link[i]) /\ AttemptEnds(l, [identity |-> i, email |-> e], "done", link[i]) /\ UNCHANGED link
  BY <1>2, <1>3 DEF AttemptEnds
<1>4. ASSUME ~Has(link[i]), NEW a \in OfEmail(e), link' = [link EXCEPT ![i] = a],
             AttemptEnds(l, [identity |-> i, email |-> e], "done", a)
      PROVE  LoginInv'
  <2>1. Has(a) /\ a \in Login /\ link'[i] = a
    BY <1>4, OAuthAssumption DEF OfEmail, Has
  <2>2. QED
    BY <1>2, <1>4, <2>1 DEF AttemptEnds
<1>5. CASE /\ ~Has(link[i]) /\ link' = [link EXCEPT ![i] = NoLogin]
           /\ \/ AttemptEnds(l, [identity |-> i, email |-> e], "failed", NoLogin)
              \/ AttemptEnds(l, [identity |-> i, email |-> e], "provisioning", NoLogin)
  BY <1>2, <1>5 DEF AttemptEnds
<1>6. QED
  BY <1>3, <1>4, <1>5 DEF ExchangeCode

(* The inserts of a new account and its link: the unique index lets only a     *)
(* user through that has no link.                                            *)
LEMMA ProvisionKeeps ==
  ASSUME LoginInv, NEW l \in Login, NEW e \in Email, Provision(l, e)
  PROVE  LoginInv'
<1> USE OAuthAssumption DEF LoginInv, LoginTypes
<1> DEFINE i == attempt[l].identity
           HasThen(a) == a # NoLogin /\ account'[a] # NoEmail
<1>1. attempt[l].pc = "provisioning" /\ i \in Identity /\ UNCHANGED <<sessions, minted, voided>>
  BY DEF Provision
<1>2. ASSUME NEW new \in Attempt, new.pc \in {"done", "failed"}, new.state = attempt[l].state,
             new.identity = i, attempt' = [attempt EXCEPT ![l] = new],
             account' = account \/ account' = [account EXCEPT ![l] = e],
             \/ link' = link /\ new.pc = "failed"
             \/ link[i] = NoLogin /\ link' = [link EXCEPT ![i] = l] /\ new.account = l
                /\ account' = [account EXCEPT ![l] = e]
      PROVE  LoginInv'
  <2>1. StatesAreSpent' /\ IdleHasNoState' /\ attempt' \in [Login -> Attempt]
    BY <1>1, <1>2, StatesKept
  <2>2. attempt'[l] = new /\ \A k \in Login : k # l => attempt'[k] = attempt[k]
    BY <1>2
  <2>3. \A a : Has(a) /\ a \in Login => HasThen(a)
    BY <1>2 DEF Has
  <2>4. DoneIsLinked'
    <3> SUFFICES ASSUME NEW k \in Login \ voided, attempt'[k].pc = "done"
                 PROVE  HasThen(attempt'[k].account) /\ link'[attempt'[k].identity] = attempt'[k].account
      BY <1>1 DEF DoneIsLinked, Has
    <3>1. CASE k = l
      <4>1. link'[i] = l /\ account'[l] = e /\ attempt'[k].account = l /\ attempt'[k].identity = i
        BY <1>1, <1>2, <2>2, <3>1
      <4>2. QED
        BY <4>1 DEF Has
    <3>2. CASE k # l
      <4>1. /\ Has(attempt[k].account) /\ link[attempt[k].identity] = attempt[k].account
            /\ attempt[k].account \in Login /\ attempt[k].identity \in Identity
        BY <2>2, <3>2 DEF DoneIsLinked, Has, Attempt
      <4>2. link'[attempt[k].identity] = link[attempt[k].identity]
        BY <1>1, <1>2, <4>1
      <4>3. HasThen(attempt[k].account)
        BY <1>2, <4>1, <2>2, <3>2 DEF Has
      <4>4. QED
        BY <2>2, <3>2, <4>1, <4>2, <4>3 DEF Has
    <3>3. QED
      BY <3>1, <3>2
  <2>5. \A k \in Login : attempt'[k].pc \in {"provisioning", "done"} => attempt'[k].identity \in Identity
    BY <1>1, <1>2, <2>2
  <2>6. QED
    BY <1>1, <1>2, <2>1, <2>4, <2>5
<1>3. CASE attempt' = [attempt EXCEPT ![l].pc = "failed"] /\ UNCHANGED link
           /\ (UNCHANGED account \/ account' = [account EXCEPT ![l] = e])
  <2> DEFINE new == [attempt[l] EXCEPT !.pc = "failed"]
  <2>1. new \in Attempt /\ new.pc = "failed" /\ new.state = attempt[l].state /\ new.identity = i
    BY DEF Attempt
  <2>2. attempt' = [attempt EXCEPT ![l] = new]
    BY <1>3
  <2>3. QED
    BY <1>2, <1>3, <2>1, <2>2
<1>4. ASSUME NEW pc \in {"done", "failed"},
             attempt' = [attempt EXCEPT ![l].pc = pc, ![l].account = l],
             LinkInserted(i), link' = [link EXCEPT ![i] = l], account' = [account EXCEPT ![l] = e]
      PROVE  LoginInv'
  <2> DEFINE new == [attempt[l] EXCEPT !.pc = pc, !.account = l]
  <2>1. new \in Attempt /\ new.pc = pc /\ new.state = attempt[l].state /\ new.identity = i
        /\ new.account = l
    BY DEF Attempt
  <2>2. attempt' = [attempt EXCEPT ![l] = new] /\ link[i] = NoLogin
    BY <1>4 DEF LinkInserted
  <2>3. QED
    BY <1>2, <1>4, <2>1, <2>2
<1>5. QED
  BY <1>3, <1>4 DEF Provision

(* Every request, and every removal of a link or an account.                 *)
LEMMA LoginInvStep == LoginInv /\ [OAuthNext]_oauthVars => LoginInv'
<1> SUFFICES ASSUME LoginInv, [OAuthNext]_oauthVars PROVE LoginInv'
  OBVIOUS
<1> USE DEF LoginInv, LoginTypes
<1>1. ASSUME NEW s \in State, ListAuthMethods(s) PROVE LoginInv'
  BY <1>1 DEF ListAuthMethods, StatesAreSpent, DoneIsLinked, IdleHasNoState, Has
<1>2. ASSUME NEW s \in State, CleanExpiredSessions(s) PROVE LoginInv'
  BY <1>2 DEF CleanExpiredSessions, StatesAreSpent, DoneIsLinked, IdleHasNoState, Has
<1>3. ASSUME NEW l \in Login, NEW s \in State, ValidateAndConsumeState(l, s) PROVE LoginInv'
  BY <1>3, ConsumeKeeps
<1>4. ASSUME NEW l \in Login, NEW i \in Identity, NEW e \in Email, NEW v \in BOOLEAN,
             ExchangeCode(l, i, e, v)
      PROVE  LoginInv'
  BY <1>4, ExchangeKeeps
<1>5. ASSUME NEW l \in Login, Refused(l) PROVE LoginInv'
  <2> DEFINE new == [attempt[l] EXCEPT !.pc = "failed"]
  <2>1. new \in Attempt /\ new.pc = "failed" /\ new.state = attempt[l].state
    BY DEF Attempt
  <2>2. attempt' = [attempt EXCEPT ![l] = new] /\ attempt[l].pc # "idle"
        /\ UNCHANGED <<sessions, minted, account, link, voided>>
    BY <1>5 DEF Refused
  <2>3. StatesAreSpent' /\ IdleHasNoState' /\ attempt' \in [Login -> Attempt]
    BY <2>1, <2>2, StatesKept
  <2>4. \A k \in Login : attempt'[k] = attempt[k] \/ attempt'[k].pc = "failed"
    BY <2>1, <2>2
  <2>5. DoneIsLinked'
    BY <2>2, <2>4 DEF DoneIsLinked, Has
  <2>6. QED
    BY <2>2, <2>3, <2>4, <2>5
<1>6. ASSUME NEW l \in Login, NEW e \in Email, Provision(l, e) PROVE LoginInv'
  BY <1>6, ProvisionKeeps
<1>7. ASSUME NEW i \in Identity, UnlinkExternalAuth(i) PROVE LoginInv'
  <2>1. DoneIsLinked'
    BY <1>7 DEF UnlinkExternalAuth, DoneIsLinked, Has
  <2>2. QED
    BY <1>7, <2>1 DEF UnlinkExternalAuth, StatesAreSpent, IdleHasNoState
<1>8. ASSUME NEW a \in Login, DeleteAccount(a) PROVE LoginInv'
  <2>1. DoneIsLinked'
    BY <1>8 DEF DeleteAccount, DoneIsLinked, Has
  <2>2. QED
    BY <1>8, <2>1 DEF DeleteAccount, StatesAreSpent, IdleHasNoState
<1>9. CASE UNCHANGED oauthVars
  BY <1>9 DEF oauthVars, StatesAreSpent, DoneIsLinked, IdleHasNoState, Has
<1>10. QED
  BY <1>1, <1>2, <1>3, <1>4, <1>5, <1>6, <1>7, <1>8, <1>9 DEF OAuthNext

(* The invariant holds of the logins as they run.                            *)
THEOREM LoginInvariant == OAuthSpec => []LoginInv
  BY LoginInvInit, LoginInvStep, PTL DEF OAuthSpec

(* validateAndConsumeState deletes a state before anything is awaited, so no   *)
(* second request can begin a login with it.                                 *)
THEOREM StatesAreUsedOnce == OAuthSpec => []StateUsedOnce
<1>1. LoginInv => StateUsedOnce
  <2> SUFFICES ASSUME LoginInv, NEW k \in Login, NEW l \in Login,
                      attempt[k].state = attempt[l].state, attempt[k] # Idle
               PROVE  k = l
    BY DEF StateUsedOnce
  <2> USE DEF LoginInv
  <2>1. attempt[k].pc # "idle" /\ attempt[k].state \in State
    BY DEF IdleHasNoState, StatesAreSpent, LoginTypes
  <2>2. attempt[l].pc # "idle"
    BY <2>1, OAuthAssumption DEF IdleHasNoState, Idle
  <2>3. QED
    BY <2>1, <2>2 DEF StatesAreSpent
<1>2. QED
  BY <1>1, LoginInvariant, PTL

(* Two first logins of one user never end in two accounts: the unique index of  *)
(* _external_auths makes one of them fail.                                   *)
THEOREM LoginsShareTheAccount == OAuthSpec => []TwoLoginsOneAccount
<1>1. LoginInv => TwoLoginsOneAccount
  BY DEF LoginInv, DoneIsLinked, TwoLoginsOneAccount
<1>2. QED
  BY <1>1, LoginInvariant, PTL

-----------------------------------------------------------------------------
(* Plugins.                                                                 *)

PluginTypes ==
  /\ left \in 0..MaxLeftHooks
  /\ scopeHooks \in [Scope -> Nat] /\ provisioned \subseteq Scope /\ scopes \subseteq Scope

(* While the process does not have the plugin, the default bus has only what   *)
(* failed calls of use() left there; another bus has its one hook only as long  *)
(* as the application is marked in provisionedScopes.                         *)
HooksMatch ==
  /\ scopeHooks[DefaultScope] <= left + 1
  /\ ~plugins => scopeHooks[DefaultScope] <= left
  /\ \A a \in Scope \ {DefaultScope} : scopeHooks[a] <= 1
  /\ \A a \in Scope \ {DefaultScope} : a \notin provisioned => scopeHooks[a] = 0

PluginInv == PluginTypes /\ HooksMatch

(* A hook that may be added to those that are there.                          *)
LEMMA OneMoreHook ==
  ASSUME NEW n \in 0..MaxLeftHooks, NEW hook \in 0..1
  PROVE  n + hook \in Nat /\ n + hook <= n + 1 /\ (hook = 0 => n + hook <= n)
  BY PluginAssumption

(* At first the plugin is nowhere.                                           *)
LEMMA PluginInvInit == PluginInit => PluginInv
  BY PluginAssumption DEF PluginInit, PluginInv, PluginTypes, HooksMatch

(* What provisioning an application leaves on the buses: a hook is added only   *)
(* where the application was not marked.                                     *)
LEMMA WiredHooks ==
  ASSUME PluginInv, NEW a \in Scope, NEW o \in Outcomes(a)
  PROVE  /\ Wired(o) \in [Scope -> Nat]
         /\ Wired(o)[DefaultScope] = scopeHooks[DefaultScope]
         /\ \A b \in Scope \ {DefaultScope} : Wired(o)[b] <= 1
         /\ \A b \in Scope \ {DefaultScope} : b \notin provisioned \cup {a} => Wired(o)[b] = 0
<1> USE PluginAssumption DEF PluginInv, PluginTypes
<1>1. o.hook \subseteq {a} /\ (o.hook # {} => a # DefaultScope /\ a \notin provisioned)
  <2>1. CASE o.hook = {}
    BY <2>1
  <2>2. CASE o.hook # {}
    <3>0. /\ o # [done |-> TRUE, entry |-> {}, hook |-> {}]
          /\ o # [done |-> FALSE, entry |-> {}, hook |-> {}]
      BY <2>2
    <3>1. ~AlreadyProvisioned(a) /\ o # [done |-> FALSE, entry |-> {}, hook |-> {}]
      BY <3>0, Zenon DEF Outcomes
    <3>2. /\ o \in [done : {TRUE}, entry : SUBSET {a}, hook : SUBSET {a}]
          /\ o.hook \subseteq o.entry
          /\ a = DefaultScope => o.entry = {}
      BY <3>1, Zenon DEF Outcomes
    <3>3. o.hook \in SUBSET {a}
      BY <3>2
    <3>4. QED
      BY <2>2, <3>1, <3>2, <3>3 DEF AlreadyProvisioned
  <2>3. QED
    BY <2>1, <2>2
<1>2. \A b \in Scope : Wired(o)[b] = IF b \in o.hook THEN scopeHooks[b] + 1 ELSE scopeHooks[b]
  BY DEF Wired
<1>3. \A b \in Scope : b \notin o.hook => Wired(o)[b] = scopeHooks[b]
  BY <1>2
<1>4. \A b \in o.hook : b = a /\ Wired(o)[b] = 1
  <2>1. \A b \in o.hook : b = a /\ b # DefaultScope /\ b \notin provisioned
    BY <1>1
  <2>2. \A b \in o.hook : scopeHooks[b] = 0
    BY <1>1, <2>1 DEF HooksMatch
  <2>3. QED
    BY <1>1, <1>2, <2>1, <2>2
<1>5. Wired(o) \in [Scope -> Nat]
  BY <1>2 DEF Wired
<1>6. Wired(o)[DefaultScope] = scopeHooks[DefaultScope]
  BY <1>1, <1>3
<1>7. ASSUME NEW b \in Scope \ {DefaultScope}
      PROVE  Wired(o)[b] <= 1 /\ (b \notin provisioned \cup {a} => Wired(o)[b] = 0)
  BY <1>3, <1>4 DEF HooksMatch
<1>8. QED
  BY <1>5, <1>6, <1>7

(* The buses and the marks, for each action.                                 *)
LEMMA PluginInvStep == PluginInv /\ [PluginNext]_pluginVars => PluginInv'
<1> SUFFICES ASSUME PluginInv, [PluginNext]_pluginVars PROVE PluginInv'
  OBVIOUS
<1> USE PluginAssumption DEF PluginInv, PluginTypes
<1>1. ASSUME NEW a \in Scope, NEW o \in Outcomes(a), scopeHooks' = Wired(o),
             provisioned' = provisioned \cup {a}, UNCHANGED <<plugins, left, scopes>>
      PROVE  PluginInv'
  <2>1. PluginTypes'
    BY <1>1, WiredHooks
  <2>2. HooksMatch'
    BY <1>1, WiredHooks DEF HooksMatch
  <2>3. QED
    BY <2>1, <2>2
<1>2. ASSUME NEW c \in Call, NEW a \in Scope, EnableOfficialPlugin(c, a) PROVE PluginInv'
  BY <1>1, <1>2 DEF EnableOfficialPlugin, ProvisionPluginForScope
<1>3. ASSUME NEW c \in Call, NEW a \in Scope, UseOfficialPlugin(c, a) PROVE PluginInv'
  <2>1. PICK o \in Outcomes(a), registers \in BOOLEAN, hook \in 0..1 :
          /\ ~plugins /\ provisioned' = provisioned \cup {a} /\ plugins' = registers
          /\ left' = (IF registers THEN left ELSE left + hook) /\ left' <= MaxLeftHooks
          /\ scopeHooks' = [Wired(o) EXCEPT ![DefaultScope] = @ + hook]
    BY <1>3 DEF UseOfficialPlugin, ProvisionPluginForScope
  <2>2. PluginTypes'
    <3>1. left' \in 0..MaxLeftHooks
      BY <2>1
    <3>2. scopeHooks' \in [Scope -> Nat]
      BY <2>1, WiredHooks
    <3>3. provisioned' \subseteq Scope /\ scopes' \subseteq Scope
      BY <1>3, <2>1 DEF UseOfficialPlugin
    <3>4. QED
      BY <3>1, <3>2, <3>3
  <2>3. scopeHooks'[DefaultScope] <= left' + 1 /\ (~plugins' => scopeHooks'[DefaultScope] <= left')
    <3>1. scopeHooks[DefaultScope] <= left
      BY <2>1 DEF HooksMatch
    <3>2. scopeHooks'[DefaultScope] = scopeHooks[DefaultScope] + hook
      BY <2>1, WiredHooks
    <3>3. QED
      BY <2>1, <3>1, <3>2
  <2>4. \A b \in Scope : b # DefaultScope => scopeHooks'[b] = Wired(o)[b]
    BY <2>1, WiredHooks
  <2>5. QED
    BY <2>1, <2>2, <2>3, <2>4, WiredHooks DEF HooksMatch
<1>4. ASSUME NEW a \in Scope, scopeHooks' = Detached(a), provisioned' = provisioned \ {a},
             scopes' \subseteq Scope, UNCHANGED <<plugins, left>>
      PROVE  PluginInv'
  <2>1. /\ \A b \in Scope : b # a => scopeHooks'[b] = scopeHooks[b]
        /\ scopeHooks'[DefaultScope] = scopeHooks[DefaultScope]
        /\ a # DefaultScope => scopeHooks'[a] = 0
        /\ scopeHooks' \in [Scope -> Nat]
    BY <1>4 DEF Detached
  <2>2. HooksMatch'
    BY <1>4, <2>1 DEF HooksMatch
  <2>3. QED
    BY <1>4, <2>1, <2>2
<1>5. ASSUME NEW c \in Call, NEW a \in Scope, DisableOfficialPlugin(c, a) PROVE PluginInv'
  BY <1>4, <1>5 DEF DisableOfficialPlugin
<1>6. ASSUME NEW c \in Call, EnableEnds(c) PROVE PluginInv'
  BY <1>6 DEF EnableEnds, HooksMatch
<1>7. ASSUME NEW c \in Call, DisableEnds(c) PROVE PluginInv'
  BY <1>7 DEF DisableEnds, HooksMatch
<1>8. ASSUME NEW a \in Scope, DeleteScope(a) PROVE PluginInv'
  BY <1>4, <1>8 DEF DeleteScope
<1>9. ASSUME NEW a \in Scope, CreateScope(a) \/ RestoreSettings(a) PROVE PluginInv'
  BY <1>9 DEF CreateScope, RestoreSettings, HooksMatch
<1>10. ASSUME NEW a \in Scope, UpdatePluginConfig(a) PROVE PluginInv'
  BY <1>1, <1>10 DEF UpdatePluginConfig, ProvisionPluginForScope
<1>11. CASE Restart
  <2> DEFINE on == {a \in scopes : enabledIn[a]}
  <2>1. left' \in 0..MaxLeftHooks /\ provisioned' = on /\ scopes' = scopes
        /\ scopedPlugins' \subseteq on \ {DefaultScope}
    BY <1>11 DEF Restart
  <2>2. PICK attached \in SUBSET scopedPlugins', hook \in 0..1 :
          /\ ~plugins' => hook = 0
          /\ scopeHooks' = [a \in Scope |-> IF a = DefaultScope THEN left' + hook
                                            ELSE IF a \in attached THEN 1 ELSE 0]
    BY <1>11 DEF Restart
  <2>3. HooksMatch'
    <3>0. scopeHooks'[DefaultScope] = left' + hook
      BY <2>1, <2>2
    <3>1. scopeHooks'[DefaultScope] <= left' + 1
      BY <2>1, <3>0, OneMoreHook
    <3>2. ~plugins' => scopeHooks'[DefaultScope] <= left'
      BY <2>1, <2>2, <3>0, OneMoreHook
    <3>3. \A a \in Scope \ {DefaultScope} :
            scopeHooks'[a] <= 1 /\ (a \notin provisioned' => scopeHooks'[a] = 0)
      BY <2>1, <2>2
    <3>4. QED
      BY <3>1, <3>2, <3>3 DEF HooksMatch
  <2>4. scopeHooks' \in [Scope -> Nat]
    <3>0. left' + hook \in Nat
      BY <2>1, <2>2, OneMoreHook
    <3>1. \A a \in Scope : scopeHooks'[a] \in Nat
      BY <2>2, <3>0
    <3>2. QED
      BY <2>2, <3>1
  <2>5. provisioned' \subseteq Scope
    BY <2>1
  <2>6. QED
    BY <2>1, <2>3, <2>4, <2>5
<1>12. CASE UNCHANGED pluginVars
  BY <1>12 DEF pluginVars, HooksMatch
<1>13. QED
  BY <1>2, <1>3, <1>5, <1>6, <1>7, <1>8, <1>9, <1>10, <1>11, <1>12 DEF PluginNext

(* The invariant holds of the plugin as it is enabled and disabled.           *)
THEOREM PluginInvariant == PluginSpec => []PluginInv
  BY PluginInvInit, PluginInvStep, PTL DEF PluginSpec

(* provisionedScopes and plugins.has keep a plugin from being attached twice to  *)
(* one bus, also when calls overlap at their awaits and when steps of them fail.  *)
THEOREM NeverAttachedTwice == PluginSpec => []AttachedOnce
<1>1. PluginInv => AttachedOnce
  BY PluginAssumption DEF PluginInv, PluginTypes, HooksMatch, AttachedOnce
<1>2. QED
  BY <1>1, PluginInvariant, PTL

-----------------------------------------------------------------------------
(* Scopes of applications.                                                  *)

ScopeTypes ==
  /\ slugOf \in [1..MaxScopes -> Slug \cup {NoSlug}]
  /\ appCache \in [Slug -> 0..MaxScopes]

(* A scope that is open can be found under its slug, until all are closed: so  *)
(* nobody opens a second one, and a deletion or the shutdown reaches it.      *)
OpenIsCached ==
  \A n \in Opened \ isClosed : stopping # "stopped" /\ appCache[slugOf[n]] = n

ScopeInv == ScopeTypes /\ OpenIsCached /\ visited \subseteq isClosed

(* No scope is open at first.                                                *)
LEMMA ScopeInvInit == AppInit => ScopeInv
  BY AppAssumption DEF AppInit, ScopeInv, ScopeTypes, OpenIsCached, Opened

(* A scope is only opened for a slug that has none in the cache, hence none    *)
(* that is open.                                                             *)
LEMMA GetScopeKeeps ==
  ASSUME ScopeInv, NEW r \in Requester, NEW a \in Slug, GetScope(r, a)
  PROVE  ScopeInv'
<1> USE AppAssumption DEF ScopeInv, ScopeTypes
<1>1. UNCHANGED <<isClosed, visited, stopping>> /\ stopping # "stopped"
  BY DEF GetScope
<1>2. CASE UNCHANGED <<appCache, slugOf>>
  BY <1>1, <1>2 DEF OpenIsCached, Opened
<1>3. ASSUME NEW n \in 1..MaxScopes \ Opened, appCache[a] = 0,
             slugOf' = [slugOf EXCEPT ![n] = a], appCache' = [appCache EXCEPT ![a] = n]
      PROVE  ScopeInv'
  <2>1. ScopeTypes'
    BY <1>3
  <2>2. OpenIsCached'
    <3> SUFFICES ASSUME NEW m \in (Opened \ isClosed)' PROVE appCache'[slugOf'[m]] = m
      BY <1>1 DEF OpenIsCached
    <3>1. CASE m = n
      BY <1>3, <3>1
    <3>2. CASE m # n
      <4>1. m \in Opened \ isClosed /\ slugOf'[m] = slugOf[m]
        BY <1>1, <1>3, <3>2 DEF Opened
      <4>2. appCache[slugOf[m]] = m /\ m \in 1..MaxScopes /\ slugOf[m] \in Slug
        BY <4>1 DEF OpenIsCached, Opened
      <4>3. slugOf[m] # a
        BY <1>3, <4>2
      <4>4. QED
        BY <1>3, <4>1, <4>2, <4>3
    <3>3. QED
      BY <3>1, <3>2
  <2>3. QED
    BY <1>1, <2>1, <2>2
<1>4. QED
  BY <1>2, <1>3 DEF GetScope

(* A deletion takes a scope out of the cache and closes it.                  *)
LEMMA DeleteAppKeeps ==
  ASSUME ScopeInv, NEW a \in Slug, DeleteApp(a)
  PROVE  ScopeInv'
<1> USE AppAssumption DEF ScopeInv, ScopeTypes
<1>1. /\ appCache' = [appCache EXCEPT ![a] = 0]
      /\ isClosed' = IF appCache[a] = 0 THEN isClosed ELSE isClosed \cup {appCache[a]}
      /\ UNCHANGED <<slugOf, visited, stopping>> /\ stopping # "stopped"
  BY DEF DeleteApp
<1>2. OpenIsCached'
  <2> SUFFICES ASSUME NEW n \in (Opened \ isClosed)' PROVE appCache'[slugOf[n]] = n
    BY <1>1 DEF OpenIsCached
  <2>1. n \in Opened \ isClosed /\ slugOf[n] \in Slug /\ n \in 1..MaxScopes
    BY <1>1 DEF Opened
  <2>2. appCache[slugOf[n]] = n
    BY <2>1 DEF OpenIsCached
  <2>3. slugOf[n] # a
    BY <1>1, <2>1, <2>2
  <2>4. QED
    BY <1>1, <2>1, <2>2, <2>3
<1>3. QED
  BY <1>1, <1>2

(* Every method keeps the invariant, and so does each step of closeAllAsync.   *)
LEMMA ScopeInvStep == ScopeInv /\ [AppNext]_appVars => ScopeInv'
<1> SUFFICES ASSUME ScopeInv, [AppNext]_appVars PROVE ScopeInv'
  OBVIOUS
<1> USE DEF ScopeInv, ScopeTypes
<1>1. ASSUME NEW a \in Slug, CreateApp(a) PROVE ScopeInv'
  BY <1>1 DEF CreateApp, OpenIsCached, Opened
<1>2. ASSUME NEW a \in Slug, DeleteApp(a) PROVE ScopeInv'
  BY <1>2, DeleteAppKeeps
<1>3. ASSUME NEW r \in Requester, Release(r) PROVE ScopeInv'
  BY <1>3 DEF Release, OpenIsCached, Opened
<1>4. ASSUME NEW r \in Requester, NEW a \in Slug, GetScope(r, a) PROVE ScopeInv'
  BY <1>4, GetScopeKeeps
<1>5. ASSUME NEW n \in 1..MaxScopes, CloseNext(n) PROVE ScopeInv'
  BY <1>5 DEF CloseNext, WhileClosing, OpenIsCached, Opened
<1>6. CASE CloseScope
  BY <1>6 DEF CloseScope, OpenIsCached, Opened
<1>7. CASE AllClosed
  <2>1. \A n \in Opened \ isClosed : n \in CachedScopes \ visited
    BY AppAssumption DEF OpenIsCached, Opened, CachedScopes
  <2>2. Opened \ isClosed = {}
    BY <1>7, <2>1 DEF AllClosed, Unvisited
  <2>3. QED
    BY <1>7, <2>2, AppAssumption DEF AllClosed, OpenIsCached, Opened
<1>8. CASE UNCHANGED appVars
  BY <1>8 DEF appVars, OpenIsCached, Opened
<1>9. QED
  BY <1>1, <1>2, <1>3, <1>4, <1>5, <1>6, <1>7, <1>8 DEF AppNext

(* The invariant holds of the applications as they run.                      *)
THEOREM ScopeInvariant == AppSpec => []ScopeInv
  BY ScopeInvInit, ScopeInvStep, PTL DEF AppSpec

(* However get, delete and closeAllAsync interleave at its await, no          *)
(* application has two connections to its database.                          *)
THEOREM ScopesAreSingle == AppSpec => []OneOpenScope
<1>1. ScopeInv => OneOpenScope
  BY DEF ScopeInv, OpenIsCached, OneOpenScope
<1>2. QED
  BY <1>1, ScopeInvariant, PTL

(* closeAllAsync leaves no scope open: its loop reaches those that get opened  *)
(* while it awaited the queues of others.                                    *)
THEOREM AllScopesAreClosed == AppSpec => []NoneLeftOpen
<1>1. ScopeInv => NoneLeftOpen
  BY DEF ScopeInv, OpenIsCached, NoneLeftOpen
<1>2. QED
  BY <1>1, ScopeInvariant, PTL

=============================================================================
