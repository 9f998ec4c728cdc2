------------------------- MODULE SingleSignOnProofs -------------------------
(***************************************************************************)
(* Theorems about SingleSignOn, for any number of requests, resets, setup  *)
(* tokens and settings.                                                    *)
(***************************************************************************)
EXTENDS SingleSignOn, Integers, SequenceTheorems, TLAPS

\* What a request holds fits where it is.
RequestState(r) ==
  /\ req[r].op \notin {"idle", "provided"} => req[r].config \in Config
  /\ req[r].token \in drawn \cup {NULL}

Inv ==
  /\ TypeOK
  /\ setupToken \in drawn \cup {NULL}
  /\ SpentTokensAreRefused
  /\ SetupIsPossible
  /\ \A r \in Requests : RequestState(r)

\* The invariant holds at the start.
LEMMA InitInv == Init => Inv
<1> SUFFICES ASSUME Init
             PROVE  Inv
  OBVIOUS
<1>1. Idle \in Request /\ Idle.op = "idle" /\ Idle.token = NULL
  BY DEF Idle, Request, Op
<1>2. TypeOK
  BY <1>1 DEF Init, TypeOK
<1>3. \A r \in Requests : RequestState(r)
  BY <1>1 DEF Init, RequestState
<1> QED
  BY <1>2, <1>3 DEF Init, Inv, SpentTokensAreRefused, SetupIsPossible

\* A request that only moves on, reading what is stored, keeps the invariant.
LEMMA RequestMoves ==
  ASSUME Inv, UNCHANGED <<table, server, resets, history>>,
         provider' \in Config \cup {NULL}, holder' \in Requests \cup {NULL},
         NEW r \in Requests, NEW next \in Request,
         req' = [req EXCEPT ![r] = next],
         next.op \notin {"idle", "provided"} => next.config \in Config,
         next.token \in drawn \cup {NULL}
  PROVE  Inv'
BY DEF Inv, TypeOK, SpentTokensAreRefused, SetupIsPossible, RequestState,
       table, history

\* SetupPost, the administrators' page, and the first step of a login.
LEMMA BeginKeepsInv ==
  ASSUME Inv, NEW r \in Requests, NEW op \in Op \ {"provided"},
         NEW t \in drawn \cup {NULL}, NEW config \in Config,
         Begin(r, op, t, config)
  PROVE  Inv'
<1> DEFINE next == [Idle EXCEPT !.op = op, !.token = t, !.config = config]
<1>1. /\ next \in Request
      /\ next.token = t /\ next.config = config
  BY DEF Inv, TypeOK, Idle, Request
<1>2. /\ req' = [req EXCEPT ![r] = next]
      /\ UNCHANGED <<table, server, resets, history>>
      /\ UNCHANGED <<provider, holder>>
  BY DEF Begin, client
<1>3. /\ provider' \in Config \cup {NULL}
      /\ holder' \in Requests \cup {NULL}
  BY <1>2 DEF Inv, TypeOK
<1> QED
  BY <1>1, <1>2, <1>3, RequestMoves

LEMMA SettingsStepKeepsInv ==
  ASSUME Inv, NEW r \in Requests, SettingsStep(r)
  PROVE  Inv'
<1>1. ASSUME NEW t \in drawn, NEW config \in Config, SetupPost(r, t, config)
      PROVE  Inv'
  BY <1>1, BeginKeepsInv DEF SetupPost, Op
<1>2. ASSUME NEW config \in Config, AdminOIDCSettingsPut(r, config)
      PROVE  Inv'
  BY <1>2, BeginKeepsInv DEF AdminOIDCSettingsPut, Op
<1>3. ASSUME NEW issuer \in Issuers, NEW clientID \in ClientIDs,
             AdminKeepsSecret(r, issuer, clientID)
      PROVE  Inv'
  <2>1. PICK secret \in StoredSecrets :
          Begin(r, "keep", NULL, [issuer |-> issuer, clientID |-> clientID,
                                  secret |-> secret])
    BY <1>3 DEF AdminKeepsSecret
  <2>2. secret \in Secrets
    BY DEF StoredSecrets, Inv, TypeOK, Config
  <2> QED
    BY <2>1, <2>2, BeginKeepsInv DEF Config, Op
<1>4. ASSUME UpdateOIDCSettings(r)
      PROVE  Inv'
  <2>1. /\ req[r].config \in Config
        /\ req[r].token \in drawn \cup {NULL}
    BY <1>4 DEF UpdateOIDCSettings, Saving, Inv, RequestState
  <2>2. Idle \in Request
    BY DEF Idle, Request, Op
  <2>3. TypeOK' /\ setupToken' = NULL /\ oidc' # NULL
    BY <1>4, <2>1, <2>2, ConstantsAssumption
    DEF UpdateOIDCSettings, TokenAfterUpdate, Answer, Inv, TypeOK, client
  <2>4. SpentTokensAreRefused'
    BY <1>4, <2>3, ConstantsAssumption
    DEF SpentTokensAreRefused, Inv, TypeOK
  <2>5. \A q \in Requests : RequestState(q)'
    BY <1>4
    DEF UpdateOIDCSettings, Answer, Inv, TypeOK, RequestState, Idle
  <2> QED
    BY <2>3, <2>4, <2>5 DEF Inv, SetupIsPossible
<1>5. ASSUME UpdateFails(r)
      PROVE  Inv'
  <2>1. Idle \in Request /\ Idle.op = "idle" /\ Idle.token = NULL
    BY DEF Idle, Request, Op
  <2> QED
    BY <1>5, <2>1, RequestMoves DEF UpdateFails, Answer, client, Inv, TypeOK
<1> QED
  BY <1>1, <1>2, <1>3, <1>4, <1>5 DEF SettingsStep

LEMMA LoginStepKeepsInv ==
  ASSUME Inv, NEW r \in Requests, LoginStep(r)
  PROVE  Inv'
<1>1. Idle \in Request /\ Idle.op = "idle" /\ Idle.token = NULL
  BY DEF Idle, Request, Op
<1>2. /\ req[r] \in Request
      /\ req[r].token \in drawn \cup {NULL}
  BY DEF Inv, TypeOK, RequestState
<1>3. ASSUME ReadOIDCSettings(r)
      PROVE  Inv'
  <2>1. oidc \in Config
    BY <1>3 DEF ReadOIDCSettings, Inv, TypeOK
  <2> QED
    BY <1>3, <2>1, BeginKeepsInv DEF ReadOIDCSettings, Op
<1>4. ASSUME UseCached(r)
      PROVE  Inv'
  <2> DEFINE next == [req[r] EXCEPT !.op = "provided", !.used = provider]
  <2>1. /\ next \in Request
        /\ next.op = "provided" /\ next.token = req[r].token
    BY <1>2 DEF Inv, TypeOK, Request, Op
  <2>2. /\ req' = [req EXCEPT ![r] = next]
        /\ UNCHANGED <<table, server, resets, history>>
        /\ UNCHANGED <<provider, holder>>
    BY <1>4 DEF UseCached, client, Inv, TypeOK
  <2> QED
    BY <1>2, <2>1, <2>2, RequestMoves DEF Inv, TypeOK
<1>5. ASSUME StartDiscovery(r)
      PROVE  Inv'
  <2> DEFINE next == [req[r] EXCEPT !.op = "discovering"]
  <2>1. /\ next \in Request
        /\ next.token = req[r].token /\ next.config = req[r].config
    BY <1>2 DEF Request, Op
  <2>2. req[r].config \in Config
    BY <1>5 DEF StartDiscovery, Inv, RequestState
  <2>3. /\ req' = [req EXCEPT ![r] = next]
        /\ UNCHANGED <<table, server, resets, history>>
        /\ provider' = provider /\ holder' = r
    BY <1>5 DEF StartDiscovery, Inv, TypeOK
  <2> QED
    BY <1>2, <2>1, <2>2, <2>3, RequestMoves DEF Inv, TypeOK
<1>6. ASSUME Discovered(r)
      PROVE  Inv'
  <2> DEFINE next == [req[r] EXCEPT !.op = "provided", !.used = req[r].config]
  <2>1. req[r].config \in Config
    BY <1>6 DEF Discovered, Inv, RequestState
  <2>2. /\ next \in Request
        /\ next.op = "provided" /\ next.token = req[r].token
    BY <1>2, <2>1 DEF Request, Op
  <2>3. /\ req' = [req EXCEPT ![r] = next]
        /\ UNCHANGED <<table, server, resets, history>>
        /\ provider' = req[r].config /\ holder' = NULL
    BY <1>6 DEF Discovered, Inv, TypeOK
  <2> QED
    BY <1>2, <2>1, <2>2, <2>3, RequestMoves DEF Inv, TypeOK
<1>7. ASSUME DiscoveryFails(r) \/ LoginEnds(r)
      PROVE  Inv'
  BY <1>1, <1>7, RequestMoves
  DEF DiscoveryFails, HolderAfterFailure, LoginEnds, Answer, client, Inv, TypeOK
<1> QED
  BY <1>3, <1>4, <1>5, <1>6, <1>7
  DEF LoginStep, EnsureProvider, DiscoveryEnds

\* A new token is not among those that were spent.
LEMMA ProcessStepKeepsInv ==
  ASSUME Inv, ProcessStep
  PROVE  Inv'
<1> USE DEF Inv, TypeOK, RequestState, SpentTokensAreRefused, SetupIsPossible
<1>1. ASSUME ServerStarts
      PROVE  Inv'
  BY <1>1 DEF ServerStarts, NeedsSetup, table, client
<1>2. ASSUME ServerStops
      PROVE  Inv'
  BY <1>2 DEF ServerStops, table, history, Idle, Request, Op
<1>3. ASSUME NEW t \in Tokens, EnsureSetupToken(t)
      PROVE  Inv'
  BY <1>3, ConstantsAssumption
  DEF EnsureSetupToken, GenerateSetupToken, client
<1>4. ASSUME NEW p \in Resets, ClearOIDCSettings(p)
      PROVE  Inv'
  <2>1. resets'[p] = "cleared"
    BY <1>4 DEF ClearOIDCSettings
  <2> QED
    BY <1>4, <2>1 DEF ClearOIDCSettings, client, history
<1>5. ASSUME NEW p \in Resets, NEW t \in Tokens, ResetGenerates(p, t)
      PROVE  Inv'
  BY <1>5, ConstantsAssumption
  DEF ResetGenerates, GenerateSetupToken, client
<1>6. ASSUME NEW p \in Resets, ResetDies(p)
      PROVE  Inv'
  BY <1>6 DEF ResetDies, table, client
<1> QED
  BY <1>1, <1>2, <1>3, <1>4, <1>5, <1>6 DEF ProcessStep

\* Every step preserves the invariant.
LEMMA NextInv == Inv /\ [Next]_vars => Inv'
<1>1. ASSUME Inv, UNCHANGED vars
      PROVE  Inv'
  BY <1>1
  DEF vars, table, client, history, Inv, TypeOK, RequestState,
      SpentTokensAreRefused, SetupIsPossible
<1> QED
  BY <1>1, ProcessStepKeepsInv, SettingsStepKeepsInv, LoginStepKeepsInv DEF Next

\* The inductive invariant, on which the theorems rest.
LEMMA InvIsInvariant == Spec => []Inv
BY InitInv, NextInv, PTL DEF Spec

\* The row of oidc_settings, the processes, requests and the cached provider
\* always have their types.
THEOREM TypeCorrect == Spec => []TypeOK
<1>1. Inv => TypeOK
  BY DEF Inv
<1> QED
  BY <1>1, InvIsInvariant, PTL

\* A token with which, or during which, setup completed stays refused
\* (UpdateOIDCSettings, ValidateSetupToken).
THEOREM SpentTokensStayRefused == Spec => []SpentTokensAreRefused
<1>1. Inv => SpentTokensAreRefused
  BY DEF Inv
<1> QED
  BY <1>1, InvIsInvariant, PTL

\* Setup remains possible unless a reset is in progress or was cut short
\* (ensureSetupToken, runResetOIDC).
THEOREM SetupStaysPossible == Spec => []SetupIsPossible
<1>1. Inv => SetupIsPossible
  BY DEF Inv
<1> QED
  BY <1>1, InvIsInvariant, PTL

-----------------------------------------------------------------------------
\* What the provider of a login and the settings it read have in common: the
\* fingerprint, whatever the settings (ensureProvider).
ProviderHasFingerprint ==
  \A r \in Requests : req[r].op = "provided" =>
    /\ req[r].used \in Config /\ req[r].config \in Config
    /\ Fingerprint(req[r].used) = Fingerprint(req[r].config)

\* A login uses a provider made from settings that have the fingerprint of
\* those it read, however other logins replace the cached one (ensureProvider).
THEOREM ProvidersHaveTheFingerprint == Spec => []ProviderHasFingerprint
<1>1. Init => ProviderHasFingerprint
  BY DEF Init, ProviderHasFingerprint, Idle
<1>2. ASSUME Inv, ProviderHasFingerprint, [Next]_vars
      PROVE  ProviderHasFingerprint'
  <2> USE DEF Inv, TypeOK, ProviderHasFingerprint
  <2>1. CASE ProcessStep
    BY <1>2, <2>1
    DEF ProcessStep, ServerStarts, ServerStops, EnsureSetupToken,
        ClearOIDCSettings, ResetGenerates, ResetDies, Idle
  <2>2. ASSUME NEW r \in Requests, NEW op \in Op \ {"provided"}, NEW t, NEW config,
               Begin(r, op, t, config)
        PROVE  ProviderHasFingerprint'
    BY <1>2, <2>2 DEF Begin, Idle
  <2>3. ASSUME NEW r \in Requests, SettingsStep(r)
        PROVE  ProviderHasFingerprint'
    <3>1. ASSUME NEW t \in drawn, NEW config \in Config, SetupPost(r, t, config)
          PROVE  ProviderHasFingerprint'
      BY <2>2, <3>1 DEF SetupPost, Op
    <3>2. ASSUME NEW config \in Config, AdminOIDCSettingsPut(r, config)
          PROVE  ProviderHasFingerprint'
      BY <2>2, <3>2 DEF AdminOIDCSettingsPut, Op
    <3>3. ASSUME NEW issuer \in Issuers, NEW clientID \in ClientIDs,
                 AdminKeepsSecret(r, issuer, clientID)
          PROVE  ProviderHasFingerprint'
      BY <2>2, <3>3 DEF AdminKeepsSecret, Op
    <3>4. CASE UpdateOIDCSettings(r) \/ UpdateFails(r)
      BY <1>2, <3>4 DEF UpdateOIDCSettings, UpdateFails, Answer, Idle
    <3> QED
      BY <2>3, <3>1, <3>2, <3>3, <3>4 DEF SettingsStep
  <2>4. ASSUME NEW r \in Requests, UseCached(r)
        PROVE  ProviderHasFingerprint'
    <3>1. req[r].config \in Config /\ provider \in Config
      BY <1>2, <2>4 DEF UseCached, IsCached, RequestState, Request
    <3>2. Fingerprint(provider) = Fingerprint(req[r].config)
      BY <2>4 DEF UseCached, IsCached
    <3>3. req' = [req EXCEPT ![r] = [req[r] EXCEPT !.op = "provided",
                                                   !.used = provider]]
      BY <2>4 DEF UseCached
    <3> QED
      BY <1>2, <3>1, <3>2, <3>3 DEF Request
  <2>5. ASSUME NEW r \in Requests, LoginStep(r), ~UseCached(r)
        PROVE  ProviderHasFingerprint'
    <3>1. CASE ReadOIDCSettings(r)
      BY <2>2, <3>1 DEF ReadOIDCSettings, Op
    <3>2. CASE StartDiscovery(r)
      BY <1>2, <3>2 DEF StartDiscovery, Request
    <3>3. CASE Discovered(r)
      <4>1. req[r].config \in Config
        BY <1>2, <3>3 DEF Discovered, RequestState, Request
      <4> QED
        BY <1>2, <3>3, <4>1 DEF Discovered, Request
    <3>4. CASE DiscoveryFails(r) \/ LoginEnds(r)
      BY <1>2, <3>4 DEF DiscoveryFails, LoginEnds, Answer, Idle
    <3> QED
      BY <2>5, <3>1, <3>2, <3>3, <3>4
      DEF LoginStep, EnsureProvider, DiscoveryEnds
  <2>6. CASE UNCHANGED vars
    BY <1>2, <2>6 DEF vars
  <2> QED
    BY <1>2, <2>1, <2>3, <2>4, <2>5, <2>6 DEF Next
<1> QED
  BY <1>1, <1>2, InvIsInvariant, PTL DEF Spec

\* Where the elements of two sequences are when they are put together.
LEMMA ConcatLayout ==
  ASSUME NEW S, NEW s \in Seq(S), NEW t \in Seq(S)
  PROVE  /\ s \o t \in Seq(S)
         /\ Len(s \o t) = Len(s) + Len(t)
         /\ \A i \in 1 .. Len(s) : (s \o t)[i] = s[i]
         /\ \A i \in 1 .. Len(t) : (s \o t)[Len(s) + i] = t[i]
OBVIOUS

\* Where they are when bars are put between two, as settingsFingerprint does.
LEMMA Joined ==
  ASSUME NEW S, NEW a \in S, NEW b \in S, NEW s \in Seq(S), NEW t \in Seq(S),
         NEW whole, whole = <<a, b>> \o s \o <<b>> \o t
  PROVE  /\ Len(whole) = Len(s) + Len(t) + 3
         /\ whole[1] = a
         /\ whole[Len(s) + 3] = b
         /\ \A i \in 1 .. Len(s) : whole[i + 2] = s[i]
         /\ \A i \in 1 .. Len(t) : whole[Len(s) + 3 + i] = t[i]
<1>0. Len(s) \in Nat /\ Len(t) \in Nat
  OBVIOUS
<1>1. PICK front \in Seq(S) :
        front = <<a, b>> /\ Len(front) = 2 /\ front[1] = a
  <2>1. <<a, b>> \in Seq(S) /\ Len(<<a, b>>) = 2 /\ <<a, b>>[1] = a
    OBVIOUS
  <2> QED
    BY <2>1, Zenon
<1>2. PICK bar \in Seq(S) : bar = <<b>> /\ Len(bar) = 1 /\ bar[1] = b
  <2>1. <<b>> \in Seq(S) /\ Len(<<b>>) = 1 /\ <<b>>[1] = b
    OBVIOUS
  <2> QED
    BY <2>1, Zenon
<1>3. PICK head \in Seq(S) :
        /\ head = front \o s /\ Len(head) = Len(s) + 2 /\ head[1] = a
        /\ \A i \in 1 .. Len(s) : head[i + 2] = s[i]
  <2>1. (front \o s)[1] = a
    BY <1>1, ConcatLayout
  <2>2. ASSUME NEW i \in 1 .. Len(s) PROVE (front \o s)[i + 2] = s[i]
    BY <1>0, <1>1, ConcatLayout
  <2>3. front \o s \in Seq(S) /\ Len(front \o s) = Len(s) + 2
    BY <1>0, <1>1, ConcatLayout
  <2> QED
    BY <2>1, <2>2, <2>3
<1>4. PICK longer \in Seq(S) :
        /\ longer = head \o bar /\ Len(longer) = Len(s) + 3
        /\ \A i \in 1 .. Len(s) + 2 : longer[i] = head[i]
        /\ longer[Len(s) + 3] = b
  <2>1. (head \o bar)[Len(s) + 3] = b
    BY <1>0, <1>2, <1>3, ConcatLayout
  <2>2. ASSUME NEW i \in 1 .. Len(s) + 2 PROVE (head \o bar)[i] = head[i]
    BY <1>0, <1>3, ConcatLayout
  <2>3. head \o bar \in Seq(S) /\ Len(head \o bar) = Len(s) + 3
    BY <1>0, <1>2, <1>3, ConcatLayout
  <2> QED
    BY <2>1, <2>2, <2>3
<1>5. PICK print :
        /\ print = longer \o t
        /\ Len(print) = Len(s) + Len(t) + 3
        /\ \A i \in 1 .. Len(s) + 3 : print[i] = longer[i]
        /\ \A i \in 1 .. Len(t) : print[Len(s) + 3 + i] = t[i]
  <2>1. ASSUME NEW i \in 1 .. Len(s) + 3 PROVE (longer \o t)[i] = longer[i]
    BY <1>0, <1>4, ConcatLayout
  <2>2. ASSUME NEW i \in 1 .. Len(t) PROVE (longer \o t)[Len(s) + 3 + i] = t[i]
    <3>1. (longer \o t)[Len(longer) + i] = t[i]
      BY ConcatLayout
    <3> QED
      BY <1>4, <3>1
  <2>3. Len(longer \o t) = Len(s) + Len(t) + 3
    <3>1. Len(longer \o t) = Len(longer) + Len(t)
      BY ConcatLayout
    <3> QED
      BY <1>0, <1>4, <3>1
  <2> QED
    BY <2>1, <2>2, <2>3
<1>6. print = whole
  BY <1>1, <1>2, <1>3, <1>4, <1>5
<1>7. print[1] = a /\ print[Len(s) + 3] = b
  BY <1>0, <1>3, <1>4, <1>5
<1>8. ASSUME NEW i \in 1 .. Len(s) PROVE print[i + 2] = s[i]
  <2>1. i + 2 \in 1 .. Len(s) + 2 /\ i + 2 \in 1 .. Len(s) + 3
    BY <1>0
  <2> QED
    BY <1>3, <1>4, <1>5, <2>1
<1> QED
  BY <1>5, <1>6, <1>7, <1>8

\* Where the fields are in a fingerprint.
LEMMA FingerprintLayout ==
  ASSUME NEW c \in Config
  PROVE  \E m, n \in Nat :
           /\ m = Len(c.clientID) /\ n = Len(c.secret)
           /\ Len(Fingerprint(c)) = m + n + 3
           /\ Fingerprint(c)[1] = c.issuer
           /\ Fingerprint(c)[m + 3] = Bar
           /\ \A i \in 1 .. m : Fingerprint(c)[i + 2] = c.clientID[i]
           /\ \A i \in 1 .. n : Fingerprint(c)[m + 3 + i] = c.secret[i]
<1> DEFINE Any == Issuers \cup Character
           m == Len(c.clientID)
           n == Len(c.secret)
<1>1. /\ c.clientID \in Seq(Any) /\ c.secret \in Seq(Any)
      /\ c.issuer \in Any /\ Bar \in Any
  BY StringsAssumption DEF Config
<1>2. m \in Nat /\ n \in Nat
  <2>1. \A s \in Seq(Any) : Len(s) \in Nat
    OBVIOUS
  <2> QED
    BY <1>1, <2>1
<1>3. Fingerprint(c) = <<c.issuer, Bar>> \o c.clientID \o <<Bar>> \o c.secret
  BY DEF Fingerprint
<1> HIDE DEF Any
<1>4. /\ Len(Fingerprint(c)) = m + n + 3
      /\ Fingerprint(c)[1] = c.issuer
      /\ Fingerprint(c)[m + 3] = Bar
      /\ \A i \in 1 .. m : Fingerprint(c)[i + 2] = c.clientID[i]
      /\ \A i \in 1 .. n : Fingerprint(c)[m + 3 + i] = c.secret[i]
  <2>1. PICK a \in Any, bar \in Any, id \in Seq(Any), secret \in Seq(Any) :
          /\ a = c.issuer /\ bar = Bar
          /\ id = c.clientID /\ secret = c.secret
    BY <1>1, Zenon
  <2>2. Fingerprint(c) = <<a, bar>> \o id \o <<bar>> \o secret
    BY <1>3, <2>1, Zenon
  <2>3. /\ Len(Fingerprint(c)) = Len(id) + Len(secret) + 3
        /\ Fingerprint(c)[1] = a
        /\ Fingerprint(c)[Len(id) + 3] = bar
        /\ \A i \in 1 .. Len(id) : Fingerprint(c)[i + 2] = id[i]
        /\ \A i \in 1 .. Len(secret) :
             Fingerprint(c)[Len(id) + 3 + i] = secret[i]
    <3> HIDE DEF m, n
    <3> QED
      BY <2>2, Joined
  <2> QED
    BY <2>1, <2>3, Zenon
<1> HIDE DEF m, n
<1> QED
  BY <1>2, <1>4 DEF m, n

\* Only settings with bars share their fingerprint with others.
LEMMA PlainFingerprintsDiffer ==
  ASSUME NEW c \in Config, NEW d \in Config, IsPlain(c),
         Fingerprint(c) = Fingerprint(d)
  PROVE  c = d
<1>1. PICK m, k \in Nat :
        /\ m = Len(c.clientID) /\ k = Len(c.secret)
        /\ Len(Fingerprint(c)) = m + k + 3
        /\ Fingerprint(c)[1] = c.issuer
        /\ \A i \in 1 .. m : Fingerprint(c)[i + 2] = c.clientID[i]
        /\ \A i \in 1 .. k : Fingerprint(c)[m + 3 + i] = c.secret[i]
  BY FingerprintLayout, Zenon
<1>2. PICK n, l \in Nat :
        /\ n = Len(d.clientID) /\ l = Len(d.secret)
        /\ Len(Fingerprint(d)) = n + l + 3
        /\ Fingerprint(d)[1] = d.issuer
        /\ Fingerprint(d)[n + 3] = Bar
        /\ \A i \in 1 .. n : Fingerprint(d)[i + 2] = d.clientID[i]
        /\ \A i \in 1 .. l : Fingerprint(d)[n + 3 + i] = d.secret[i]
  BY FingerprintLayout, Zenon
<1>3. /\ c.clientID \in Seq(Character) /\ c.secret \in Seq(Character)
      /\ d.clientID \in Seq(Character) /\ d.secret \in Seq(Character)
  BY StringsAssumption DEF Config
<1>4. /\ \A i \in 1 .. m : c.clientID[i] # Bar
      /\ \A i \in 1 .. k : c.secret[i] # Bar
  BY <1>1, <1>3 DEF IsPlain
<1>5. m + k = n + l
  <2>1. m + k + 3 = n + l + 3
    BY <1>1, <1>2, Zenon
  <2> QED
    BY <2>1
<1>6. ~(n < m)
  <2> SUFFICES ASSUME n < m
               PROVE  FALSE
    OBVIOUS
  <2>1. n + 1 \in 1 .. m /\ n + 3 = (n + 1) + 2
    BY <1>1, <1>2
  <2> QED
    BY <1>1, <1>2, <1>4, <2>1
<1>7. ~(n > m)
  <2> SUFFICES ASSUME n > m
               PROVE  FALSE
    OBVIOUS
  <2>1. n - m \in 1 .. k /\ n + 3 = m + 3 + (n - m)
    BY <1>5
  <2>2. Fingerprint(c)[n + 3] = c.secret[n - m]
    BY <1>1, <2>1
  <2> QED
    BY <1>2, <1>4, <2>1, <2>2
<1>8. m = n /\ k = l
  BY <1>5, <1>6, <1>7
<1>9. /\ \A i \in 1 .. m : c.clientID[i] = d.clientID[i]
      /\ \A i \in 1 .. k : c.secret[i] = d.secret[i]
  <2>1. \A i \in 1 .. m : c.clientID[i] = Fingerprint(c)[i + 2]
    BY <1>1
  <2>2. \A i \in 1 .. k : c.secret[i] = Fingerprint(c)[m + 3 + i]
    BY <1>1
  <2>3. \A i \in 1 .. m : d.clientID[i] = Fingerprint(c)[i + 2]
    BY <1>2, <1>8
  <2>4. \A i \in 1 .. k : d.secret[i] = Fingerprint(c)[m + 3 + i]
    BY <1>2, <1>8
  <2> QED
    BY <2>1, <2>2, <2>3, <2>4
<1>10. c.clientID = d.clientID /\ c.secret = d.secret
  <2>1. Len(c.clientID) = Len(d.clientID) /\ Len(c.secret) = Len(d.secret)
    BY <1>1, <1>2, <1>8, Zenon
  <2>2. /\ \A i \in 1 .. Len(c.clientID) : c.clientID[i] = d.clientID[i]
        /\ \A i \in 1 .. Len(c.secret) : c.secret[i] = d.secret[i]
    BY <1>1, <1>9, Zenon
  <2> QED
    BY <1>3, <2>1, <2>2, SeqEqual
<1>11. c.issuer = d.issuer
  BY <1>1, <1>2
<1> QED
  BY <1>10, <1>11 DEF Config

\* A login that has read settings without bars uses a provider made from these
\* settings, whatever the others that are entered (ensureProvider).
THEOREM PlainLoginsUseTheirProvider == Spec => []ProviderFitsSettings
<1>1. ProviderHasFingerprint => ProviderFitsSettings
  BY PlainFingerprintsDiffer DEF ProviderHasFingerprint, ProviderFitsSettings
<1> QED
  BY <1>1, ProvidersHaveTheFingerprint, PTL

-----------------------------------------------------------------------------
(***************************************************************************)
(* Logins end.  Fairness is taken with the guard of each step in the place *)
(* of ENABLED, about which tlapm cannot reason; when it holds there is     *)
(* always a way to take the step.                                          *)
(***************************************************************************)
LoginsAreFair ==
  /\ <>[](holder # NULL) => []<><<SomeDiscoveryEnds>>_vars
  /\ \A r \in Requests :
       []<>(req[r].op = "waiting" /\ holder = NULL)
         => []<><<EnsureProvider(r)>>_vars
  /\ \A r \in Requests :
       <>[](req[r].op = "provided") => []<><<LoginEnds(r)>>_vars

GuardsSuffice ==
  /\ holder # NULL => ENABLED <<SomeDiscoveryEnds>>_vars
  /\ \A r \in Requests :
       /\ req[r].op = "waiting" /\ holder = NULL
            => ENABLED <<EnsureProvider(r)>>_vars
       /\ req[r].op = "provided" => ENABLED <<LoginEnds(r)>>_vars

\* So LoginsAreFair is what FairSpec says of logins.
LEMMA FairSpecIsFair == FairSpec /\ []GuardsSuffice => LoginsAreFair
<1>1. FairSpec /\ []GuardsSuffice =>
        (<>[](holder # NULL)
           => []<><<SomeDiscoveryEnds>>_vars)
  <2>1. GuardsSuffice =>
          (holder # NULL => ENABLED <<SomeDiscoveryEnds>>_vars)
    BY DEF GuardsSuffice
  <2> QED
    BY <2>1, PTL DEF FairSpec, Fairness
<1>2. FairSpec => \A r \in Requests : EnsureProviderIsFair(r)
  BY PTL DEF FairSpec, Fairness
<1>3. FairSpec => \A r \in Requests : ExchangeIsFair(r)
  BY PTL DEF FairSpec, Fairness
<1>4. ASSUME NEW r \in Requests
      PROVE  FairSpec /\ []GuardsSuffice =>
               ([]<>(req[r].op = "waiting" /\ holder = NULL)
                  => []<><<EnsureProvider(r)>>_vars)
  <2>1. GuardsSuffice => (req[r].op = "waiting" /\ holder = NULL
                            => ENABLED <<EnsureProvider(r)>>_vars)
    BY DEF GuardsSuffice
  <2>2. FairSpec => EnsureProviderIsFair(r)
    BY <1>2
  <2> QED
    BY <2>1, <2>2, PTL DEF EnsureProviderIsFair
<1>5. ASSUME NEW r \in Requests
      PROVE  FairSpec /\ []GuardsSuffice =>
               (<>[](req[r].op = "provided") => []<><<LoginEnds(r)>>_vars)
  <2>1. GuardsSuffice =>
          (req[r].op = "provided" => ENABLED <<LoginEnds(r)>>_vars)
    BY DEF GuardsSuffice
  <2>2. FairSpec => ExchangeIsFair(r)
    BY <1>3
  <2> QED
    BY <2>1, <2>2, PTL DEF ExchangeIsFair
<1> QED
  BY <1>1, <1>4, <1>5 DEF LoginsAreFair

\* How a login goes on, by a step of its goroutine or by a stop of the server.
LEMMA LoginGoesOn ==
  ASSUME Inv, [Next]_vars, NEW r \in Requests
  PROVE  /\ req[r].op = "waiting" =>
              \/ req'[r].op \in {"waiting", "provided", "idle"}
              \/ req'[r].op = "discovering" /\ holder' = r
         /\ req[r].op = "discovering" =>
              req'[r].op \in {"discovering", "provided", "idle"}
         /\ req[r].op = "provided" => req'[r].op \in {"provided", "idle"}
<1>0. req \in [Requests -> Request] /\ req[r] \in Request
  BY DEF Inv, TypeOK
<1>1. Idle.op = "idle"
  BY DEF Idle
<1>2. ASSUME NEW q \in Requests, NEW op, NEW t, NEW config, Begin(q, op, t, config)
      PROVE  req'[r] = req[r] \/ req[r].op = "idle"
  BY <1>0, <1>2 DEF Begin
<1>3. ASSUME NEW q \in Requests, SettingsStep(q)
      PROVE  \/ req'[r] = req[r] \/ req[r].op = "idle"
             \/ req[r].op \in Saving
  <2>1. ASSUME NEW t \in drawn, NEW config \in Config, SetupPost(q, t, config)
        PROVE  req'[r] = req[r] \/ req[r].op = "idle"
    BY <1>2, <2>1 DEF SetupPost
  <2>2. ASSUME NEW config \in Config, AdminOIDCSettingsPut(q, config)
        PROVE  req'[r] = req[r] \/ req[r].op = "idle"
    BY <1>2, <2>2 DEF AdminOIDCSettingsPut
  <2>3. ASSUME NEW issuer \in Issuers, NEW clientID \in ClientIDs,
               AdminKeepsSecret(q, issuer, clientID)
        PROVE  req'[r] = req[r] \/ req[r].op = "idle"
    BY <1>2, <2>3 DEF AdminKeepsSecret
  <2>4. CASE UpdateOIDCSettings(q) \/ UpdateFails(q)
    BY <1>0, <2>4 DEF UpdateOIDCSettings, UpdateFails, Answer
  <2> QED
    BY <1>3, <2>1, <2>2, <2>3, <2>4 DEF SettingsStep
<1>4. ASSUME NEW q \in Requests, LoginStep(q), q # r
      PROVE  req'[r] = req[r]
  BY <1>0, <1>4
  DEF LoginStep, ReadOIDCSettings, Begin, EnsureProvider, UseCached,
      StartDiscovery, DiscoveryEnds, Discovered, DiscoveryFails, LoginEnds, Answer
<1>5. ASSUME LoginStep(r)
      PROVE  \/ req[r].op = "idle"
             \/ req[r].op = "waiting" /\ req'[r].op = "provided"
             \/ /\ req[r].op = "waiting" /\ req'[r].op = "discovering"
                /\ holder' = r
             \/ req[r].op = "discovering" /\ req'[r].op \in {"provided", "idle"}
             \/ req[r].op = "provided" /\ req'[r].op = "idle"
  BY <1>0, <1>1, <1>5
  DEF LoginStep, ReadOIDCSettings, Begin, EnsureProvider, UseCached,
      StartDiscovery, DiscoveryEnds, Discovered, DiscoveryFails, LoginEnds,
      Answer, Request
<1>6. ASSUME ProcessStep
      PROVE  req'[r] = req[r] \/ req'[r].op = "idle"
  BY <1>1, <1>6
  DEF ProcessStep, ServerStarts, ServerStops, EnsureSetupToken,
      ClearOIDCSettings, ResetGenerates, ResetDies
<1>7. CASE UNCHANGED vars
  BY <1>7 DEF vars
<1> QED
  BY <1>3, <1>4, <1>5, <1>6, <1>7 DEF Next, Saving

\* The mutex is held by the one request that asks the identity provider, and
\* is free when the server has stopped.
MutexHeld == \A r \in Requests : req[r].op = "discovering" <=> holder = r

\* Exactly the request that waits for the identity provider holds Client.mu, and
\* a crash leaves it free (ensureProvider).
THEOREM MutexIsConsistent == Spec => []MutexHeld
<1>1. Init => MutexHeld
  BY ConstantsAssumption DEF Init, MutexHeld, Idle
<1>2. Inv /\ MutexHeld /\ [Next]_vars => MutexHeld'
  <2> SUFFICES ASSUME Inv, MutexHeld, [Next]_vars, NEW s \in Requests
               PROVE  req'[s].op = "discovering" <=> holder' = s
    BY DEF MutexHeld
  <2>0. /\ req \in [Requests -> Request] /\ NULL \notin Requests
        /\ Idle.op = "idle" /\ (req[s].op = "discovering" <=> holder = s)
    BY ConstantsAssumption DEF Inv, TypeOK, Idle, MutexHeld
  <2>1. ASSUME NEW q \in Requests, NEW op \in Op \ {"discovering"}, NEW t,
               NEW config, Begin(q, op, t, config)
        PROVE  req'[s].op = "discovering" <=> holder' = s
    BY <2>0, <2>1 DEF Begin, Idle, client
  <2>2. ASSUME NEW q \in Requests, SettingsStep(q)
        PROVE  req'[s].op = "discovering" <=> holder' = s
    <3>1. ASSUME NEW t \in drawn, NEW config \in Config, SetupPost(q, t, config)
          PROVE  req'[s].op = "discovering" <=> holder' = s
      BY <2>1, <3>1 DEF SetupPost, Op
    <3>2. ASSUME NEW config \in Config, AdminOIDCSettingsPut(q, config)
          PROVE  req'[s].op = "discovering" <=> holder' = s
      BY <2>1, <3>2 DEF AdminOIDCSettingsPut, Op
    <3>3. ASSUME NEW issuer \in Issuers, NEW clientID \in ClientIDs,
                 AdminKeepsSecret(q, issuer, clientID)
          PROVE  req'[s].op = "discovering" <=> holder' = s
      BY <2>1, <3>3 DEF AdminKeepsSecret, Op
    <3>4. CASE UpdateOIDCSettings(q) \/ UpdateFails(q)
      BY <2>0, <3>4 DEF UpdateOIDCSettings, UpdateFails, Answer, Saving, client
    <3> QED
      BY <2>2, <3>1, <3>2, <3>3, <3>4 DEF SettingsStep
  <2>3. ASSUME NEW q \in Requests, LoginStep(q)
        PROVE  req'[s].op = "discovering" <=> holder' = s
    <3>1. CASE ReadOIDCSettings(q)
      BY <2>1, <3>1 DEF ReadOIDCSettings, Op
    <3>2. CASE UseCached(q)
      BY <2>0, <3>2 DEF UseCached, client, Request
    <3>3. CASE StartDiscovery(q)
      BY <2>0, <3>3 DEF StartDiscovery, Request
    <3>4. CASE Discovered(q) \/ DiscoveryFails(q)
      <4>1. holder = q
        BY <3>4 DEF Discovered, DiscoveryFails, MutexHeld
      <4> QED
        BY <2>0, <3>4, <4>1
        DEF Discovered, DiscoveryFails, HolderAfterFailure, Answer, Request
    <3>5. CASE LoginEnds(q)
      BY <2>0, <3>5 DEF LoginEnds, Answer, client
    <3> QED
      BY <2>3, <3>1, <3>2, <3>3, <3>4, <3>5
      DEF LoginStep, EnsureProvider, DiscoveryEnds
  <2>4. CASE ProcessStep
    BY <2>0, <2>4
    DEF ProcessStep, ServerStarts, ServerStops, EnsureSetupToken,
        ClearOIDCSettings, ResetGenerates, ResetDies, client
  <2>5. CASE UNCHANGED vars
    BY <2>0, <2>5 DEF vars, client
  <2> QED
    BY <2>2, <2>3, <2>4, <2>5 DEF Next
<1> QED
  BY <1>1, <1>2, InvIsInvariant, PTL DEF Spec

\* No login waits for ever, although discovery is slow, fails, and is done
\* under the mutex (ensureProvider).
THEOREM EveryLoginEnds == Spec /\ LoginsAreFair => LoginsEnd
<1> SUFFICES ASSUME NEW r \in Requests
             PROVE  Spec /\ LoginsAreFair =>
                      (req[r].op = "waiting" ~> req[r].op = "idle")
  BY DEF LoginsEnd
<1> DEFINE Is(op) == req[r].op = op
           Held == holder # NULL
<1>1. <<SomeDiscoveryEnds>>_vars => ~Held'
  BY DEF SomeDiscoveryEnds, DiscoveryEnds, Discovered, DiscoveryFails, HolderAfterFailure
<1>2. LoginsAreFair =>
        (<>[]Held => []<><<SomeDiscoveryEnds>>_vars)
  BY DEF LoginsAreFair
<1>3. LoginsAreFair =>
        ([]<>(Is("waiting") /\ holder = NULL) => []<><<EnsureProvider(r)>>_vars)
  BY DEF LoginsAreFair
<1>4. LoginsAreFair => (<>[]Is("provided") => []<><<LoginEnds(r)>>_vars)
  BY DEF LoginsAreFair
<1>5. Held <=> ~(holder = NULL)
  OBVIOUS
<1>6. Inv /\ Is("waiting") /\ [Next]_vars =>
        Is("waiting")' \/ Is("discovering")' \/ Is("provided")' \/ Is("idle")'
  BY LoginGoesOn
<1>7. Inv /\ Is("discovering") /\ [Next]_vars =>
        Is("discovering")' \/ Is("provided")' \/ Is("idle")'
  BY LoginGoesOn
<1>8. Inv /\ Is("provided") /\ [Next]_vars => Is("provided")' \/ Is("idle")'
  BY LoginGoesOn
<1>9. Inv /\ <<EnsureProvider(r)>>_vars => ~Is("waiting")'
  BY DEF EnsureProvider, UseCached, StartDiscovery, Inv, TypeOK, Request
<1>10. Inv /\ <<LoginEnds(r)>>_vars => Is("idle")'
  BY DEF LoginEnds, Answer, Idle, Inv, TypeOK
<1>11. MutexHeld /\ Is("discovering") => Held
  BY ConstantsAssumption DEF MutexHeld
<1>12. ~(Is("provided") /\ Is("idle"))
  OBVIOUS
<1> HIDE DEF Is, Held
<1>13. Spec /\ LoginsAreFair => (Is("provided") ~> Is("idle"))
  BY <1>4, <1>8, <1>10, InvIsInvariant, PTL DEF Spec
<1>14. Spec /\ LoginsAreFair => []<>~Held
  BY <1>1, <1>2, PTL
<1>15. Spec /\ LoginsAreFair =>
         (Is("discovering") ~> Is("provided") \/ Is("idle"))
  BY <1>7, <1>11, <1>14, InvIsInvariant, MutexIsConsistent, PTL DEF Spec
<1>16. Spec /\ LoginsAreFair =>
         (Is("waiting") ~> Is("discovering") \/ Is("provided") \/ Is("idle"))
  BY <1>3, <1>5, <1>6, <1>9, <1>14, InvIsInvariant, PTL DEF Spec
<1> QED
  BY <1>13, <1>15, <1>16, PTL DEF Is

=============================================================================
