---------------------------- MODULE SingleSignOn ----------------------------
(***************************************************************************)
(* The connection to the identity provider: the one row of oidc_settings,  *)
(* the setup token that lets whoever reads the log write it, the           *)
(* administrators' page that changes it, picoshare -reset-oidc, which is a *)
(* process of its own and by the docs runs beside the server, and the      *)
(* provider that oidcauth.Client caches behind a mutex.                    *)
(*                                                                         *)
(* Abstractions: issuer stands for the issuer URL with all fields that     *)
(* resolveAdminClientSecret and settingsFingerprint treat like it; who is  *)
(* an administrator is Accounts (the development build logs anybody in, so *)
(* there may be one before setup); what the identity provider answers is   *)
(* not told apart beyond success and failure.                              *)
(***************************************************************************)
EXTENDS Sequences

CONSTANTS
  Issuers,    \* issuer URLs that are entered
  Character,  \* the characters, a bar among them
  ClientIDs,  \* client ids that are entered, as sequences of characters
  Secrets,    \* client secrets that are entered, as sequences of characters
  Requests,   \* goroutines that serve HTTP requests
  Resets,     \* processes picoshare -reset-oidc
  Tokens,     \* setup tokens that picoshare.NewSetupToken can draw
  NULL        \* SQL's NULL

\* OIDCSettings
Config == [issuer: Issuers, clientID: ClientIDs, secret: Secrets]

ASSUME ConstantsAssumption ==
  NULL \notin Config \cup Requests \cup Tokens

\* What stands between the fields of a fingerprint, and may be entered too.
Bar == "|"

ASSUME StringsAssumption ==
  Bar \in Character /\ ClientIDs \cup Secrets \subseteq Seq(Character)

VARIABLES
  oidc,        \* the settings in table oidc_settings, NULL before setup
  setupToken,  \* the token whose hash is in setup_token_hash
  server,      \* the server process
  resets,      \* the processes -reset-oidc
  req,         \* the local state of every request goroutine
  provider,    \* Client.provider, known by the settings it was made from
  holder,      \* the request that holds Client.mu
  drawn,       \* history: the setup tokens drawn so far
  spent,       \* history: those with which, or during which, setup completed
  printed,     \* history: what -reset-oidc printed, until setup completes
  cut          \* history: since the server started, a reset died half-way

table == <<oidc, setupToken>>
client == <<provider, holder>>
history == <<drawn, spent, printed, cut>>

vars == <<table, server, resets, req, client, history>>

(***************************************************************************)
(* What a request is about to do.  "setup", "admin", "keep": save the      *)
(* settings of setupPost, of adminOIDCSettingsPut, and of the latter with  *)
(* a blank secret; "waiting", "discovering", "provided": the stages of a   *)
(* login or callback, before, inside and after ensureProvider's mutex.     *)
(***************************************************************************)
Op == {"idle", "setup", "admin", "keep", "waiting", "discovering", "provided"}

\* config: what it is to save, or has read; used: the provider it was given.
Request == [op: Op, token: Tokens \cup {NULL}, config: Config \cup {NULL},
            used: Config \cup {NULL}]

Idle == [op |-> "idle", token |-> NULL, config |-> NULL, used |-> NULL]

TypeOK ==
  /\ oidc \in Config \cup {NULL}
  /\ setupToken \in Tokens \cup {NULL}
  /\ server \in {"down", "starting", "up"}
  /\ resets \in [Resets -> {"idle", "cleared"}]
  /\ req \in [Requests -> Request]
  /\ provider \in Config \cup {NULL}
  /\ holder \in Requests \cup {NULL}
  /\ drawn \subseteq Tokens
  /\ spent \subseteq drawn
  /\ printed \in drawn \cup {NULL}
  /\ cut \in BOOLEAN

\* A fresh database.
Init ==
  /\ oidc = NULL
  /\ setupToken = NULL
  /\ server = "down"
  /\ resets = [p \in Resets |-> "idle"]
  /\ req = [r \in Requests |-> Idle]
  /\ provider = NULL
  /\ holder = NULL
  /\ drawn = {}
  /\ spent = {}
  /\ printed = NULL
  /\ cut = FALSE

-----------------------------------------------------------------------------
(***************************************************************************)
(* The processes                                                           *)
(***************************************************************************)

\* Mutant: a token is drawn at the very first start only.
NeedsSetup_FirstStart == oidc = NULL /\ drawn = {}

NeedsSetup == oidc = NULL

\* ensureSetupToken asks whether it has to draw a token ...
ServerStarts ==
  /\ server = "down"
  /\ server' = IF NeedsSetup THEN "starting" ELSE "up"
  /\ cut' = FALSE
  /\ UNCHANGED <<table, resets, req, client, drawn, spent, printed>>

\* GenerateSetupToken: 256 random bits, never a token twice.
GenerateSetupToken(t) ==
  /\ t \in Tokens \ drawn
  /\ setupToken' = t
  /\ drawn' = drawn \cup {t}
  /\ UNCHANGED oidc

\* ... draws it and prints it to the log, and the server listens.
EnsureSetupToken(t) ==
  /\ server = "starting"
  /\ GenerateSetupToken(t)
  /\ server' = "up"
  /\ UNCHANGED <<resets, req, client, spent, printed, cut>>

\* The server is stopped, crashes, or cannot prepare the setup token.
ServerStops ==
  /\ server # "down"
  /\ server' = "down"
  /\ req' = [r \in Requests |-> Idle]
  /\ provider' = NULL
  /\ holder' = NULL
  /\ UNCHANGED <<table, resets, history>>

\* runResetOIDC: the settings go, a token that is outstanding stays ...
ClearOIDCSettings(p) ==
  /\ resets[p] = "idle"
  /\ oidc' = NULL
  /\ resets' = [resets EXCEPT ![p] = "cleared"]
  /\ UNCHANGED <<setupToken, server, req, client, history>>

\* ... and a new one is drawn and printed.
ResetGenerates(p, t) ==
  /\ resets[p] = "cleared"
  /\ GenerateSetupToken(t)
  /\ printed' = t
  /\ resets' = [resets EXCEPT ![p] = "idle"]
  /\ UNCHANGED <<server, req, client, spent, cut>>

ResetDies(p) ==
  /\ resets[p] = "cleared"
  /\ resets' = [resets EXCEPT ![p] = "idle"]
  /\ cut' = TRUE
  /\ UNCHANGED <<table, server, req, client, drawn, spent, printed>>

-----------------------------------------------------------------------------
(***************************************************************************)
(* Setup and the administrators' page                                      *)
(***************************************************************************)

\* The request r, which was idle, goes on with fields as given.
Begin(r, op, token, config) ==
  /\ server = "up"
  /\ req[r].op = "idle"
  /\ req' = [req EXCEPT ![r] = [Idle EXCEPT !.op = op, !.token = token,
                                            !.config = config]]
  /\ UNCHANGED <<table, server, resets, client, history>>

Answer(r) == req' = [req EXCEPT ![r] = Idle]

ValidateSetupToken(t) == setupToken # NULL /\ setupToken = t

\* setupPost, up to UpdateOIDCSettings.  It does not ask whether setup is
\* complete, only for the token.
SetupPost(r, t, config) ==
  /\ ValidateSetupToken(t)
  /\ Begin(r, "setup", t, config)

AdminOIDCSettingsPut(r, config) == Begin(r, "admin", NULL, config)

\* Mutant: the missing secret of settings that were cleared is let through.
StoredSecrets_Unchecked == {IF oidc = NULL THEN NULL ELSE oidc.secret}

StoredSecrets == IF oidc = NULL THEN {} ELSE {oidc.secret}

\* The secret was left blank: resolveAdminClientSecret puts in the stored one.
AdminKeepsSecret(r, issuer, clientID) ==
  \E secret \in StoredSecrets :
    Begin(r, "keep", NULL, [issuer |-> issuer, clientID |-> clientID,
                            secret |-> secret])

Saving == {"setup", "admin", "keep"}

\* Mutant: the setup token survives the setup.
TokenAfterUpdate_Kept == setupToken

\* UpdateOIDCSettings sets setup_token_hash = NULL.
TokenAfterUpdate == NULL

UpdateOIDCSettings(r) ==
  /\ req[r].op \in Saving
  /\ oidc' = req[r].config
  /\ setupToken' = TokenAfterUpdate
  /\ Answer(r)
  /\ spent' = spent \cup ({setupToken, req[r].token} \ {NULL})
  /\ printed' = NULL
  /\ UNCHANGED <<server, resets, client, drawn, cut>>

UpdateFails(r) ==
  /\ req[r].op \in Saving
  /\ Answer(r)
  /\ UNCHANGED <<table, server, resets, client, history>>

-----------------------------------------------------------------------------
(***************************************************************************)
(* Logins: Redirect and Callback around ensureProvider                     *)
(***************************************************************************)

\* ensureProvider reads the settings before it asks for the mutex.  Without
\* settings the browser is sent away.
ReadOIDCSettings(r) ==
  /\ oidc # NULL
  /\ Begin(r, "waiting", NULL, oidc)

\* settingsFingerprint puts the fields one after the other, with bars between.
Fingerprint(config) ==
  <<config.issuer, Bar>> \o config.clientID \o <<Bar>> \o config.secret

\* Mutant: any provider in the cache will do.
IsCached_Any(r) == provider # NULL

IsCached(r) ==
  /\ provider # NULL
  /\ Fingerprint(provider) = Fingerprint(req[r].config)

UseCached(r) ==
  /\ req[r].op = "waiting"
  /\ holder = NULL
  /\ IsCached(r)
  /\ req' = [req EXCEPT ![r].op = "provided", ![r].used = provider]
  /\ UNCHANGED <<table, server, resets, client, history>>

\* oidc.NewProvider asks the identity provider while the mutex is held.
StartDiscovery(r) ==
  /\ req[r].op = "waiting"
  /\ holder = NULL
  /\ ~IsCached(r)
  /\ holder' = r
  /\ req' = [req EXCEPT ![r].op = "discovering"]
  /\ UNCHANGED <<table, server, resets, provider, history>>

Discovered(r) ==
  /\ req[r].op = "discovering"
  /\ provider' = req[r].config
  /\ holder' = NULL
  /\ req' = [req EXCEPT ![r].op = "provided", ![r].used = req[r].config]
  /\ UNCHANGED <<table, server, resets, history>>

\* Mutant: the error path forgets to unlock.
HolderAfterFailure_Kept(r) == holder

HolderAfterFailure(r) == NULL

\* An error, or requestTimeout; so does a CA certificate that cannot be parsed.
DiscoveryFails(r) ==
  /\ req[r].op = "discovering"
  /\ holder' = HolderAfterFailure(r)
  /\ Answer(r)
  /\ UNCHANGED <<table, server, resets, provider, history>>

\* Redirect sends the browser to the provider; Callback exchanges the code
\* with it, succeeds or fails, and hands an identity to completeLogin.
LoginEnds(r) ==
  /\ req[r].op = "provided"
  /\ Answer(r)
  /\ UNCHANGED <<table, server, resets, client, history>>

-----------------------------------------------------------------------------
ProcessStep ==
  \/ ServerStarts
  \/ ServerStops
  \/ \E t \in Tokens : EnsureSetupToken(t)
  \/ \E p \in Resets : \/ ClearOIDCSettings(p)
                       \/ \E t \in Tokens : ResetGenerates(p, t)
                       \/ ResetDies(p)

SettingsStep(r) ==
  \/ \E t \in drawn, config \in Config : SetupPost(r, t, config)
  \/ \E config \in Config : AdminOIDCSettingsPut(r, config)
  \/ \E issuer \in Issuers, clientID \in ClientIDs :
       AdminKeepsSecret(r, issuer, clientID)
  \/ UpdateOIDCSettings(r)
  \/ UpdateFails(r)

EnsureProvider(r) == UseCached(r) \/ StartDiscovery(r)

DiscoveryEnds(r) == Discovered(r) \/ DiscoveryFails(r)

LoginStep(r) ==
  \/ ReadOIDCSettings(r)
  \/ EnsureProvider(r)
  \/ DiscoveryEnds(r)
  \/ LoginEnds(r)

Next ==
  \/ ProcessStep
  \/ \E r \in Requests : SettingsStep(r) \/ LoginStep(r)

Spec == Init /\ [][Next]_vars

(***************************************************************************)
(* Go's mutex starves nobody, and requestTimeout ends every exchange and   *)
(* every discovery, of which there is one at a time.  Nothing is asked of  *)
(* administrators, clients or crashes.                                     *)
(***************************************************************************)
SomeDiscoveryEnds == \E r \in Requests : DiscoveryEnds(r)

EnsureProviderIsFair(r) == SF_vars(EnsureProvider(r))
ExchangeIsFair(r) == WF_vars(LoginEnds(r))

Fairness ==
  /\ WF_vars(SomeDiscoveryEnds)
  /\ \A r \in Requests : EnsureProviderIsFair(r)
  /\ \A r \in Requests : ExchangeIsFair(r)

FairSpec == Spec /\ Fairness

-----------------------------------------------------------------------------
(***************************************************************************)
(* Properties                                                              *)
(***************************************************************************)

\* A setup token that was outstanding when setup completed, or completed it,
\* is never outstanding again, however resets, restarts and two requests with
\* the same token overlap (UpdateOIDCSettings).
SpentTokensAreRefused == setupToken \notin spent

\* A running server that is not set up has an outstanding setup token, except
\* between the two statements of a reset and after one that died there
\* (ensureSetupToken, runResetOIDC).
SetupIsPossible ==
  server = "up" /\ oidc = NULL /\ setupToken = NULL =>
    cut \/ \E p \in Resets : resets[p] = "cleared"

\* Neither the client id nor the secret has a bar in it.
IsPlain(config) ==
  \A field \in {config.clientID, config.secret} :
    \A i \in DOMAIN field : field[i] # Bar

\* A login that has read settings without bars talks to the provider of these
\* settings, although other logins replace the cached one while it waits and
\* although the settings of those may have bars (ensureProvider).  With bars in
\* its own it may get the provider of others: a settings change does not
\* always invalidate the cache, as settingsFingerprint's comment has it.
ProviderFitsSettings ==
  \A r \in Requests :
    req[r].op = "provided" /\ IsPlain(req[r].config) =>
      req[r].used = req[r].config

\* No login waits for ever, although discovery is slow, fails, and is done
\* under the mutex.
LoginsEnd == \A r \in Requests : req[r].op = "waiting" ~> req[r].op = "idle"

(***************************************************************************)
(* What the repository says of itself and the code does not do             *)
(***************************************************************************)

\* docs/deployment/synology-sso.md: -reset-oidc "prints a new setup token.
\* Restart PicoShare normally afterward and visit /setup again."
PrintedTokenIsGood ==
  server = "up" /\ printed # NULL => setupToken = printed

=============================================================================
