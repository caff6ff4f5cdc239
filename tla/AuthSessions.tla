------------------------------ MODULE AuthSessions ------------------------------
(***************************************************************************)
(* Sessions of an administrator (src/auth/AuthService.ts, AppRegistry.ts,    *)
(* src/http/middleware/AuthMiddleware.ts).  The tokenKey in the registry      *)
(* makes the tokens signed with it valid; each application has an AuthService  *)
(* of its own that caches the key for TokenTtl.  A session ends when the key   *)
(* is replaced: by one of the AuthServices, or by the reset-password command, *)
(* which runs in a process of its own (src/cli/cli.ts).                       *)
(***************************************************************************)
EXTENDS Naturals

CONSTANTS
  App,             \* the applications, with an AuthService each
  DefaultApp,      \* the one whose AuthService the middleware falls back to
  TokenTtl,        \* ticks an entry of tokenKeyCache lives (30 s)
  MaxAuthClock,    \* bound: ticks
  MaxTokenKeys     \* bound: tokenKeys generated

VARIABLES
  tokenKey,        \* of the administrator in the registry; keys are numbered
  tokenKeyCache,   \* tokenKeyCache[a]: [tokenKey, until], or NoCached
  authClock,
  tokens,          \* keys that tokens were signed with
  login,           \* the key read by an authenticateAdmin that compares passwords, or 0
  hashing,         \* where updateAdminPassword hashes, or NoApp
  replaced         \* history: replaced[k] = [at, by] of the end of key k

authVars == <<tokenKey, tokenKeyCache, authClock, tokens, login, hashing, replaced>>

NoApp == "no app"
Cli == "cli"
NoCached == [tokenKey |-> 0, until |-> 0]

ASSUME AuthAssumption ==
  /\ DefaultApp \in App /\ NoApp \notin App /\ Cli \notin App
  /\ TokenTtl \in Nat \ {0} /\ MaxTokenKeys \in Nat \ {0}

AuthInit ==
  /\ tokenKey = 1 /\ authClock = 1 /\ tokens = {} /\ login = 0 /\ hashing = NoApp
  /\ tokenKeyCache = [a \in App |-> NoCached]
  /\ replaced = [k \in 1..MaxTokenKeys |-> [at |-> 0, by |-> NoApp]]

\* getCachedTokenKey finds an entry; until its time is past.
Cached(a) == tokenKeyCache[a] # NoCached /\ authClock <= tokenKeyCache[a].until

\* verifyToken of a token signed with k, by the AuthService of a: a cached key
\* that differs refuses the token, without a look at the registry.
Verifies(a, k) == IF Cached(a) THEN tokenKeyCache[a].tokenKey = k ELSE tokenKey = k

\* AuthMiddleware.handle, for a request to a.
Accepts(a, k) == Verifies(a, k) \/ Verifies(DefaultApp, k)

\* The entry after it was found.  It keeps its time and becomes the most recent.
Touched_Renewed(e) == [e EXCEPT !.until = authClock + TokenTtl]
Touched(e) == e

\* What verifyToken leaves in the cache of a.  A refusal by the registry leaves
\* nothing.
Looked(a, k) ==
  IF Cached(a) THEN Touched(tokenKeyCache[a])
  ELSE IF tokenKey = k THEN [tokenKey |-> k, until |-> authClock + TokenTtl]
  ELSE NoCached

-----------------------------------------------------------------------------
\* authenticateAdmin, until and after the comparison of the passwords.
LoginReads ==
  /\ login = 0
  /\ login' = tokenKey
  /\ UNCHANGED <<tokenKey, tokenKeyCache, authClock, tokens, hashing, replaced>>

LoginEnds ==
  /\ login # 0
  /\ tokens' \in {tokens, tokens \cup {login}}
  /\ login' = 0
  /\ UNCHANGED <<tokenKey, tokenKeyCache, authClock, hashing, replaced>>

\* A request with a token: the AuthService of the application looks, and the
\* default one if it refuses.
HandleToken(a, k) ==
  /\ k \in tokens
  /\ tokenKeyCache' = [b \in App |->
       IF b = a \/ (b = DefaultApp /\ ~Verifies(a, k)) THEN Looked(b, k) ELSE tokenKeyCache[b]]
  /\ UNCHANGED <<tokenKey, authClock, tokens, login, hashing, replaced>>

\* The key is replaced and the caches of apps are invalidated.
Replace(by, apps) ==
  /\ tokenKey < MaxTokenKeys
  /\ tokenKey' = tokenKey + 1
  /\ replaced' = [replaced EXCEPT ![tokenKey] = [at |-> authClock, by |-> by]]
  /\ tokenKeyCache' = [a \in App |-> IF a \in apps THEN NoCached ELSE tokenKeyCache[a]]

RevokeAdminSessions(a) == Replace(a, {a}) /\ UNCHANGED <<authClock, tokens, login, hashing>>

\* updateAdminPassword: the hash is awaited, the rest is one step.
UpdateAdminPassword(a) ==
  /\ hashing = NoApp
  /\ hashing' = a
  /\ UNCHANGED <<tokenKey, tokenKeyCache, authClock, tokens, login, replaced>>

PasswordHashed ==
  /\ hashing # NoApp
  /\ Replace(hashing, {hashing})
  /\ hashing' = NoApp
  /\ UNCHANGED <<authClock, tokens, login>>

\* superuser reset-password: the caches of the server are out of its reach.
ResetPassword == Replace(Cli, {}) /\ UNCHANGED <<authClock, tokens, login, hashing>>

\* setCachedTokenKey of other users evicts the oldest entry of a full cache.
EvictToken(a) ==
  /\ tokenKeyCache[a] # NoCached
  /\ tokenKeyCache' = [tokenKeyCache EXCEPT ![a] = NoCached]
  /\ UNCHANGED <<tokenKey, authClock, tokens, login, hashing, replaced>>

AuthTick ==
  /\ authClock < MaxAuthClock
  /\ authClock' = authClock + 1
  /\ UNCHANGED <<tokenKey, tokenKeyCache, tokens, login, hashing, replaced>>

AuthNext ==
  \/ LoginReads \/ LoginEnds \/ PasswordHashed \/ ResetPassword \/ AuthTick
  \/ \E a \in App : RevokeAdminSessions(a) \/ UpdateAdminPassword(a) \/ EvictToken(a)
  \/ \E a \in App, k \in tokens : HandleToken(a, k)

AuthSpec == AuthInit /\ [][AuthNext]_authVars

-----------------------------------------------------------------------------
AuthTypeOK ==
  /\ tokenKey \in 1..MaxTokenKeys /\ tokens \subseteq 1..tokenKey
  /\ login \in 0..tokenKey /\ hashing \in App \cup {NoApp}
  /\ \A a \in App : tokenKeyCache[a].tokenKey \in 0..tokenKey

(* A token whose key was replaced is refused everywhere thirty seconds later,  *)
(* however often it is used meanwhile, whoever logs in meanwhile, and at once   *)
(* by the AuthService that replaced it.                                      *)
StaleOnlyElsewhere ==
  \A a \in App, k \in 1..tokenKey - 1 :
    Verifies(a, k) => replaced[k].by # a /\ authClock <= replaced[k].at + TokenTtl

(* docs/docs/auth-and-security/session-revocation.md:36: a password change      *)
(* immediately revokes all existing active tokens.  The caches of the other   *)
(* applications still accept them.                                           *)
RevokedEverywhere == \A a \in App, k \in tokens : Accepts(a, k) => k = tokenKey
=============================================================================
