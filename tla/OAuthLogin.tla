------------------------------- MODULE OAuthLogin -------------------------------
(***************************************************************************)
(* Logins with one OAuth2 provider to one collection                         *)
(* (src/auth/oauth/OAuthProviderRegistry.ts, authenticateOAuth2 in            *)
(* src/auth/AuthService.ts): concurrent requests that await the provider and, *)
(* for a new user, the hash, the avatar and the hooks, over the rows of the    *)
(* collection and of _external_auths.  The provider is external.              *)
(***************************************************************************)
EXTENDS FiniteSets

CONSTANTS
  Login,       \* the requests; the id of the account one creates is its own
  State,       \* the values of the OAuth state parameter
  Identity,    \* the users of the provider
  Email

VARIABLES
  sessions,    \* states minted, not consumed and not expired
  minted,      \* history: states minted
  attempt,     \* attempt[l] = [pc, state, identity, email, account]
  account,     \* account[l]: email of the account that l created, or NoEmail
  link,        \* link[i]: account of identity i in _external_auths, or NoLogin
  voided       \* history: logins whose link or account was removed afterwards

oauthVars == <<sessions, minted, attempt, account, link, voided>>

NoLogin == "no login"
NoEmail == "no email"

ASSUME OAuthAssumption ==
  "none" \notin State \cup Identity /\ NoLogin \notin Login /\ NoEmail \notin Email

Idle == [pc |-> "idle", state |-> "none", identity |-> "none", email |-> NoEmail, account |-> NoLogin]

Has(a) == a # NoLogin /\ account[a] # NoEmail
OfEmail(e) == {a \in Login : account[a] = e}

OAuthInit ==
  /\ sessions = {} /\ minted = {} /\ voided = {}
  /\ attempt = [l \in Login |-> Idle]
  /\ account = [l \in Login |-> NoEmail] /\ link = [i \in Identity |-> NoLogin]

-----------------------------------------------------------------------------
ListAuthMethods(s) ==
  /\ s \notin minted
  /\ minted' = minted \cup {s} /\ sessions' = sessions \cup {s}
  /\ UNCHANGED <<attempt, account, link, voided>>

CleanExpiredSessions(s) ==
  /\ s \in sessions
  /\ sessions' = sessions \ {s}
  /\ UNCHANGED <<minted, attempt, account, link, voided>>

\* The sessions after s was looked up.
Consumed(s) == sessions \ {s}

\* validateAndConsumeState: s is used up, even if it was minted for another
\* provider, collection, redirect or verifier.
ValidateAndConsumeState(l, s) ==
  /\ attempt[l] = Idle /\ s \in sessions
  /\ sessions' = Consumed(s)
  /\ \E pc \in {"exchanging", "failed"} :
       attempt' = [attempt EXCEPT ![l].pc = pc, ![l].state = s]
  /\ UNCHANGED <<minted, account, link, voided>>

AttemptEnds(l, profile, pc, a) ==
  attempt' = [attempt EXCEPT ![l] = [pc |-> pc, state |-> @.state, account |-> a,
                                identity |-> profile.identity, email |-> profile.email]]

\* exchangeCode has answered with the profile.  The link decides; a link to an
\* account that is gone is removed; then the e-mail decides, if the provider
\* verified it; otherwise an account must be created.
ExchangeCode(l, i, e, verified) ==
  LET profile == [identity |-> i, email |-> e] IN
  /\ attempt[l].pc = "exchanging"
  /\ \/ /\ Has(link[i])
        /\ AttemptEnds(l, profile, "done", link[i]) /\ UNCHANGED link
     \/ /\ ~Has(link[i]) /\ OfEmail(e) # {}
        /\ IF verified
           THEN \E a \in OfEmail(e) : link' = [link EXCEPT ![i] = a] /\ AttemptEnds(l, profile, "done", a)
           ELSE link' = [link EXCEPT ![i] = NoLogin] /\ AttemptEnds(l, profile, "failed", NoLogin)
     \/ /\ ~Has(link[i]) /\ OfEmail(e) = {}
        /\ link' = [link EXCEPT ![i] = NoLogin] /\ AttemptEnds(l, profile, "provisioning", NoLogin)
  /\ UNCHANGED <<sessions, minted, account, voided>>

\* exchangeCode, or later a hook, the validation or the rule, refuses.
Refused(l) ==
  /\ attempt[l].pc \in {"exchanging", "provisioning"}
  /\ attempt' = [attempt EXCEPT ![l].pc = "failed"]
  /\ UNCHANGED <<sessions, minted, account, link, voided>>

\* The insert of a link: a conflict with the unique index is an error.
LinkInserted_OrReplaced(i) == TRUE
LinkInserted(i) == link[i] = NoLogin

\* The insert of the account, with an e-mail that createData may replace, and
\* of its link.  When the link fails the account stays; when a hook after the insert
\* fails, both do.
Provision(l, e) ==
  LET i == attempt[l].identity IN
  /\ attempt[l].pc = "provisioning"
  /\ \/ /\ OfEmail(e) # {}
        /\ attempt' = [attempt EXCEPT ![l].pc = "failed"]
        /\ UNCHANGED <<account, link>>
     \/ /\ OfEmail(e) = {}
        /\ account' = [account EXCEPT ![l] = e]
        /\ IF LinkInserted(i)
           THEN /\ link' = [link EXCEPT ![i] = l]
                /\ \E pc \in {"done", "failed"} :
                     attempt' = [attempt EXCEPT ![l].pc = pc, ![l].account = l]
           ELSE /\ attempt' = [attempt EXCEPT ![l].pc = "failed"] /\ UNCHANGED link
  /\ UNCHANGED <<sessions, minted, voided>>

UnlinkExternalAuth(i) ==
  /\ link[i] # NoLogin
  /\ link' = [link EXCEPT ![i] = NoLogin]
  /\ voided' = voided \cup {l \in Login : attempt[l].identity = i}
  /\ UNCHANGED <<sessions, minted, attempt, account>>

\* The record is deleted; its links stay.
DeleteAccount(a) ==
  /\ Has(a)
  /\ account' = [account EXCEPT ![a] = NoEmail]
  /\ voided' = voided \cup {l \in Login : attempt[l].account = a}
  /\ UNCHANGED <<sessions, minted, attempt, link>>

OAuthNext ==
  \/ \E s \in State : ListAuthMethods(s) \/ CleanExpiredSessions(s)
  \/ \E l \in Login, s \in State : ValidateAndConsumeState(l, s)
  \/ \E l \in Login, i \in Identity, e \in Email, v \in BOOLEAN : ExchangeCode(l, i, e, v)
  \/ \E l \in Login : Refused(l) \/ DeleteAccount(l) \/ \E e \in Email : Provision(l, e)
  \/ \E i \in Identity : UnlinkExternalAuth(i)

OAuthSpec == OAuthInit /\ [][OAuthNext]_oauthVars

-----------------------------------------------------------------------------
OAuthTypeOK ==
  /\ sessions \subseteq minted /\ minted \subseteq State
  /\ account \in [Login -> Email \cup {NoEmail}] /\ link \in [Identity -> Login \cup {NoLogin}]
  /\ \A l \in Login : attempt[l].pc \in {"idle", "exchanging", "provisioning", "done", "failed"}

(* A state parameter starts one login, however the requests that carry it      *)
(* interleave with the exchange.                                            *)
StateUsedOnce ==
  \A k, l \in Login : attempt[k].state = attempt[l].state /\ attempt[k] # Idle => k = l

(* Two logins of one user of the provider end in one account, also when both   *)
(* find no account and create one: unless the user was unlinked, or the account *)
(* deleted, in between.                                                     *)
TwoLoginsOneAccount ==
  \A k, l \in Login \ voided :
    attempt[k].pc = "done" /\ attempt[l].pc = "done" /\ attempt[k].identity = attempt[l].identity
      => attempt[k].account = attempt[l].account
=============================================================================
