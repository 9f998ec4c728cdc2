------------------------------ MODULE Lifetimes ------------------------------
(***************************************************************************)
(* How long files may live: the settings an administrator saves, the pages *)
(* that offer lifetimes (settingsGet, uploadGet, guestUploadGet), and the  *)
(* checks of what a browser posts from such a page later (settingsPut,     *)
(* entryPost, guestEntryPost).  Between a page and its post the clock runs, *)
(* the settings change and the user may become administrator or cease to   *)
(* be one; between the check and the end of the upload as well.            *)
(*                                                                         *)
(* Lifetimes are durations and expirations are moments, both in units      *)
(* finer than the second, the precision of the dates that a page carries.  *)
(* Numbers of days are uint16 in the server and int16 in nullable columns. *)
(***************************************************************************)
EXTENDS Integers

CONSTANTS
  Second,         \* units of time in a second
  Hour,           \* units of time in an hour
  NeverExpire,    \* picoshare.NeverExpire, a moment
  Instants,       \* BOUND: the moments at which something happens
  DefaultDays,    \* default lifetimes an administrator enters, in days
  CapDays,        \* caps on lifetimes he enters
  RetentionDays,  \* periods he enters for keeping the download history
  LinkLifetimes,  \* lifetimes of the files of guest links, durations
  Expirations,    \* moments that clients name without a list to choose from
  NULL            \* SQL's NULL; nothing

ASSUME TimeAssumption ==
  /\ Second \in Nat \ {0} /\ Hour \in Nat \ {0}
  /\ Hour % Second = 0
  /\ Instants \subseteq Nat /\ 0 \in Instants

Day == 24 * Hour

\* FileLifetime.Days: a conversion to uint16.
Uint16s == {n \in Nat : n < 65536}
Uint16(n) == n % 65536
Int16(n) == IF Uint16(n) < 32768 THEN Uint16(n) ELSE Uint16(n) - 65536

DaysPerYear == 365
MaxFileLifetimeDays == 10 * DaysPerYear
MaxRetentionDays == 3650

NewFileLifetimeInDays(days) == days * Day
FileLifetimeInfinite == NewFileLifetimeInDays(Uint16(100 * DaysPerYear))

Days(lifetime) == Uint16(lifetime \div Day)

\* ExpirationFromTime
ExpirationFromTime(lifetime, t) ==
  IF lifetime = FileLifetimeInfinite THEN NeverExpire ELSE t + lifetime

\* BOUND of Days: link lifetimes stay below 2^16 days, beyond which the
\* conversion of the float is up to the processor.  FileLifetimeFromString
\* accepts what is a day or longer.
ASSUME InputsAssumption ==
  /\ DefaultDays \cup CapDays \cup RetentionDays \subseteq Uint16s
  /\ LinkLifetimes \subseteq Day..(65536 * Day - 1)
  /\ Expirations \subseteq Nat

ASSUME NullAssumption == NULL \notin Nat

\* Nobody lives to see the year 3000, or sets a finite lifetime that reaches it.
ASSUME NeverAssumption ==
  /\ NeverExpire \in Nat
  /\ NeverExpire % Second = 0
  /\ \A t \in Instants : t + 65536 * Day <= NeverExpire

VARIABLES
  now,      \* the clock
  row,      \* the single row of table settings
  isAdmin,  \* whether the user of the browser is an administrator
  page,     \* the page that the browser shows
  fresh,    \* history: nothing the page was made from has changed since
  upload    \* the upload that it has posted

vars == <<now, row, isAdmin, page, fresh, upload>>

\* Numbers of days, as settingsFromRequest lets them through: within what the
\* CHECKs of migrations 017 and 021 ask.
Row == [expiration: 1..MaxFileLifetimeDays \cup {100 * DaysPerYear},
        retention: 1..MaxRetentionDays \cup {NULL},
        maxLifetime: 1..MaxFileLifetimeDays \cup {NULL}]

\* One entry of a list of lifetimes.
Option == [expires: Nat, isDefault: BOOLEAN]

\* The fields of the settings page, or the body it is sent in.
Form == [amount: Uint16s, unit: {"days", "years"}, never: BOOLEAN,
         retention: Uint16s, forever: BOOLEAN, cap: Uint16s, noCap: BOOLEAN]

NoForm == [amount |-> 0, unit |-> "days", never |-> FALSE, retention |-> 0,
           forever |-> FALSE, cap |-> 0, noCap |-> FALSE]

\* at: the moment the page was made; lifetime: of the guest link it is for.
Page == [kind: {"none", "settings", "upload", "guest"}, at: Nat, form: Form,
         options: SUBSET Option, lifetime: Nat]

NoPage == [kind |-> "none", at |-> 0, form |-> NoForm, options |-> {},
           lifetime |-> 0]

\* "body": admitted, the body is being received.  changed is history: a cap
\* was saved meanwhile, or the user became administrator or ceased to be one.
\* lifetime: of the guest link, or 0.
Upload == [op: {"none", "body", "stored"}, expires: Nat, lifetime: Nat,
           changed: BOOLEAN]

NoUpload == [op |-> "none", expires |-> 0, lifetime |-> 0, changed |-> FALSE]

TypeOK ==
  /\ now \in Instants
  /\ row \in Row
  /\ isAdmin \in BOOLEAN
  /\ page \in Page
  /\ fresh \in BOOLEAN
  /\ upload \in Upload

\* Migrations 006, 017 and 021 leave a row without retention and cap.
Init ==
  /\ now = 0
  /\ row = [expiration |-> 30, retention |-> NULL, maxLifetime |-> NULL]
  /\ isAdmin \in BOOLEAN
  /\ page = NoPage
  /\ fresh = FALSE
  /\ upload = NoUpload

-----------------------------------------------------------------------------
(***************************************************************************)
(* Settings                                                                *)
(***************************************************************************)

\* retention 0 keeps the download history for ever.
ReadSettings ==
  [default |-> NewFileLifetimeInDays(row.expiration),
   retention |-> IF row.retention = NULL THEN 0 ELSE Uint16(row.retention),
   cap |-> IF row.maxLifetime = NULL THEN FileLifetimeInfinite
           ELSE NewFileLifetimeInDays(Uint16(row.maxLifetime))]

\* Mutant: an unlimited cap is stored like any other.
Stored_EveryCap(settings) ==
  [expiration |-> Days(settings.default),
   retention |-> IF settings.retention = 0 THEN NULL
                 ELSE Int16(settings.retention),
   maxLifetime |-> Int16(Days(settings.cap))]

\* UpdateSettings
Stored(settings) ==
  [expiration |-> Days(settings.default),
   retention |-> IF settings.retention = 0 THEN NULL
                 ELSE Int16(settings.retention),
   maxLifetime |-> IF settings.cap = FileLifetimeInfinite
                        \/ Days(settings.cap) = 0
                   THEN NULL ELSE Int16(Days(settings.cap))]

\* Mutant: whatever is longer than a year is shown in years.
IsYearBoundary_AtLeastAYear(days) == days >= DaysPerYear

IsYearBoundary(days) == days % DaysPerYear = 0

\* settingsGet: what the page shows, suggestions in the fields it disables.
FormOf(settings) ==
  LET never == settings.default = FileLifetimeInfinite
      days == Days(settings.default)
      inYears == ~never /\ IsYearBoundary(days)
  IN  [amount |-> IF never THEN 30
                  ELSE IF inYears THEN days \div DaysPerYear ELSE days,
       unit |-> IF inYears THEN "years" ELSE "days",
       never |-> never,
       retention |-> IF settings.retention = 0 THEN 90 ELSE settings.retention,
       forever |-> settings.retention = 0,
       cap |-> IF settings.cap = FileLifetimeInfinite THEN 7
               ELSE Days(settings.cap),
       noCap |-> settings.cap = FileLifetimeInfinite]

\* readSettings in settings.html: the payload of the request.
Payload(form) ==
  [defaultDays |-> IF form.never THEN 0
                   ELSE IF form.unit = "years" THEN form.amount * DaysPerYear
                   ELSE form.amount,
   never |-> form.never,
   retentionDays |-> IF form.forever THEN 0 ELSE form.retention,
   forever |-> form.forever,
   capDays |-> IF form.noCap THEN 0 ELSE form.cap,
   noCap |-> form.noCap]

\* parse.FileLifetime, NewDownloadHistoryRetentionInDays
IsFileLifetime(days) == days \in 1..MaxFileLifetimeDays
IsRetention(days) == days \in 1..MaxRetentionDays

Uncapped(payload) == payload.noCap \/ payload.capDays = 0

\* settingsFromRequest: what it accepts, and what it makes of that.
IsValid(payload) ==
  /\ payload.never \/ IsFileLifetime(payload.defaultDays)
  /\ payload.forever \/ IsRetention(payload.retentionDays)
  /\ Uncapped(payload) \/ IsFileLifetime(payload.capDays)

SettingsFromRequest(payload) ==
  [default |-> IF payload.never THEN FileLifetimeInfinite
               ELSE NewFileLifetimeInDays(payload.defaultDays),
   retention |-> IF payload.forever THEN 0 ELSE payload.retentionDays,
   cap |-> IF Uncapped(payload) THEN FileLifetimeInfinite
           ELSE NewFileLifetimeInDays(payload.capDays)]

\* settingsPut, from the page of this browser or of another administrator's.
SettingsPut(payload) ==
  /\ IsValid(payload)
  /\ row' = Stored(SettingsFromRequest(payload))
  /\ fresh' = (fresh /\ row' = row)
  /\ upload' = [upload EXCEPT !.changed = @ \/ row' # row]
  /\ UNCHANGED <<now, isAdmin, page>>

Payloads ==
  [defaultDays: DefaultDays, never: BOOLEAN,
   retentionDays: RetentionDays, forever: BOOLEAN,
   capDays: CapDays, noCap: BOOLEAN]

\* BOUND: the browser does one thing after the other.
Idle == page = NoPage /\ upload.op # "body"

Show(shown) ==
  /\ Idle
  /\ page' = shown
  /\ fresh' = TRUE
  /\ upload' = NoUpload
  /\ UNCHANGED <<now, row, isAdmin>>

SettingsGet ==
  /\ isAdmin
  /\ Show([NoPage EXCEPT !.kind = "settings", !.at = now,
                         !.form = FormOf(ReadSettings)])

\* An administrator changes another member, or is changed.
MemberChanges ==
  /\ isAdmin' = ~isAdmin
  /\ fresh' = FALSE
  /\ upload' = [upload EXCEPT !.changed = TRUE]
  /\ UNCHANGED <<now, row, page>>

-----------------------------------------------------------------------------
(***************************************************************************)
(* The pages for uploads                                                   *)
(***************************************************************************)

BuiltIn ==
  {NewFileLifetimeInDays(1), NewFileLifetimeInDays(7), NewFileLifetimeInDays(30),
   NewFileLifetimeInDays(DaysPerYear), FileLifetimeInfinite}

DenseLifetimeCapThresholdDays == 30

HasLifetimeCap(settings) == ~isAdmin /\ settings.cap # FileLifetimeInfinite

\* The lifetimes that fit under a cap, with the cap itself.
CappedLifetimes(cap) ==
  IF Days(cap) <= DenseLifetimeCapThresholdDays
  THEN {NewFileLifetimeInDays(d) : d \in 1..Days(cap)}
  ELSE {lifetime \in BuiltIn : Days(lifetime) <= Days(cap)} \cup {cap}

LifetimeOptions(settings) ==
  IF HasLifetimeCap(settings) THEN CappedLifetimes(settings.cap) ELSE BuiltIn

\* Mutant: the default is offered although it exceeds the cap.
DefaultLifetime_Unclamped(settings) == settings.default

DefaultLifetime(settings) ==
  IF HasLifetimeCap(settings) /\ Days(settings.default) > Days(settings.cap)
  THEN settings.cap ELSE settings.default

\* formatExpiration writes dates in RFC 3339 without a fraction.
Formatted(t) == t - (t % Second)

OptionsAt(lifetimes, default) ==
  {[expires |-> Formatted(ExpirationFromTime(lifetime, now)),
    isDefault |-> lifetime = default] : lifetime \in lifetimes}

\* Mutant: the default is marked if it is in the list, and not added.
OfferedLifetimes_BuiltInOnly(settings) == LifetimeOptions(settings)

OfferedLifetimes(settings) ==
  LifetimeOptions(settings) \cup {DefaultLifetime(settings)}

UploadGet ==
  Show([NoPage EXCEPT !.kind = "upload", !.at = now,
                      !.options = OptionsAt(OfferedLifetimes(ReadSettings),
                                            DefaultLifetime(ReadSettings))])

\* What guestUploadGet offers for a link with this lifetime.
GuestLifetimes(lifetime) == {lt \in BuiltIn : Days(lt) <= Days(lifetime)}

GuestUploadGet(lifetime) ==
  Show([NoPage EXCEPT !.kind = "guest", !.at = now, !.lifetime = lifetime,
                      !.options = OptionsAt(GuestLifetimes(lifetime), lifetime)])

PageClosed ==
  /\ page # NoPage
  /\ page' = NoPage
  /\ fresh' = FALSE
  /\ UNCHANGED <<now, row, isAdmin, upload>>

-----------------------------------------------------------------------------
(***************************************************************************)
(* Uploads                                                                 *)
(***************************************************************************)

\* parse.Expiration
IsExpiration(expires) == expires - now >= Hour

\* Mutant: the difference is compared in whole days.
LifetimePermitted_InDays(expires) ==
  LET cap == ReadSettings.cap
  IN  \/ isAdmin
      \/ cap = FileLifetimeInfinite
      \/ expires # NeverExpire /\ Days(expires - now) <= Days(cap)

\* enforceMaxFileLifetimeForUser
LifetimePermitted(expires) ==
  LET cap == ReadSettings.cap
  IN  \/ isAdmin
      \/ cap = FileLifetimeInfinite
      \/ /\ expires # NeverExpire
         /\ expires <= ExpirationFromTime(cap, now)

\* parseGuestExpirationFromRequest
GuestLifetimePermitted(expires, lifetime) ==
  expires <= ExpirationFromTime(lifetime, now)

Accepts(expires) ==
  /\ IsExpiration(expires)
  /\ IF page.kind = "guest" THEN GuestLifetimePermitted(expires, page.lifetime)
     ELSE LifetimePermitted(expires)

\* The page makes way for the progress of the upload.
Post(expires) ==
  /\ upload' = [op |-> "body", expires |-> expires, lifetime |-> page.lifetime,
                changed |-> FALSE]
  /\ page' = NoPage
  /\ fresh' = FALSE
  /\ UNCHANGED <<now, row, isAdmin>>

\* entryPost, guestEntryPost: the checks before the body is read.
EntryPost(expires) ==
  /\ page.kind \in {"upload", "guest"}
  /\ Accepts(expires)
  /\ Post(expires)

\* A guest's command line client leaves the expiration out.
GuestPostsNone ==
  /\ page.kind = "guest"
  /\ Post(ExpirationFromTime(page.lifetime, now))

\* InsertEntry stores what was admitted, or the upload fails.
InsertEntry ==
  /\ upload.op = "body"
  /\ upload' = [upload EXCEPT !.op = "stored"]
  /\ UNCHANGED <<now, row, isAdmin, page, fresh>>

UploadFails ==
  /\ upload.op = "body"
  /\ upload' = NoUpload
  /\ UNCHANGED <<now, row, isAdmin, page, fresh>>

Tick ==
  /\ \E t \in Instants : t > now /\ now' = t
  /\ UNCHANGED <<row, isAdmin, page, fresh, upload>>

Next ==
  \/ \E payload \in Payloads \cup {Payload(page.form)} : SettingsPut(payload)
  \/ SettingsGet
  \/ MemberChanges
  \/ UploadGet
  \/ \E lifetime \in LinkLifetimes : GuestUploadGet(lifetime)
  \/ PageClosed
  \/ \E expires \in {option.expires : option \in page.options} \cup Expirations :
       EntryPost(expires)
  \/ GuestPostsNone
  \/ InsertEntry
  \/ UploadFails
  \/ Tick

Spec == Init /\ [][Next]_vars

-----------------------------------------------------------------------------
(***************************************************************************)
(* Properties                                                              *)
(***************************************************************************)

\* An administrator who opens the settings page and saves it as it is changes
\* nothing, unless somebody else saved in between: settingsGet, the script of
\* the page, settingsFromRequest, UpdateSettings and ReadSettings convert days,
\* years and "for ever" back and forth without loss.
SettingsFormIsFaithful ==
  page.kind = "settings" /\ fresh =>
    /\ IsValid(Payload(page.form))
    /\ Stored(SettingsFromRequest(Payload(page.form))) = row

\* Whatever lifetime an upload page offers is accepted when it is posted, as
\* long as the settings and the user's role are those the page was made from,
\* and the shortest lifetime, a day, has not run down to the hour that
\* parse.Expiration demands.  The exception is a guest link whose lifetime is
\* beyond that of FileLifetimeInfinite: its page offers "never", which lies
\* beyond its limit.
OfferedIsAccepted ==
  /\ page.kind \in {"upload", "guest"}
  /\ fresh
  /\ now + Hour + Second <= page.at + Day
  => \A option \in page.options :
       \/ Accepts(option.expires)
       \/ option.expires = NeverExpire /\ page.lifetime > FileLifetimeInfinite

\* An upload page preselects one lifetime, whatever default and cap are, and
\* offers the cap itself: "The maximum permitted lifetime is always selectable"
\* (uploadGet).
UploadOffers ==
  page.kind = "upload" =>
    /\ \E option \in page.options :
         \A other \in page.options : other.isDefault <=> other = option
    /\ fresh /\ HasLifetimeCap(ReadSettings) =>
         \E option \in page.options :
           option.expires = Formatted(page.at + ReadSettings.cap)

\* The checks come before the body is received, and nothing repeats them when
\* the file is stored.  Unless the cap or the user's role has changed while
\* the body was on its way, the file expires within what is permitted then;
\* one that came through a guest link always within the link's limit.
StoredWithinLimits ==
  upload.op # "none" =>
    IF upload.lifetime # 0
    THEN \/ upload.lifetime = FileLifetimeInfinite
         \/ upload.expires <= now + upload.lifetime
    ELSE \/ isAdmin \/ upload.changed \/ row.maxLifetime = NULL
         \/ upload.expires <= now + row.maxLifetime * Day

=============================================================================
