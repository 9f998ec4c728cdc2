---------------------------- MODULE LifetimesProofs ----------------------------
(***************************************************************************)
(* Theorems about Lifetimes, for every length of an hour, all settings an  *)
(* administrator can save, all guest links and all moments.                *)
(***************************************************************************)
EXTENDS Lifetimes, TLAPS

\* What a page that was made at some moment shows of a lifetime.
OptionOf(lifetime, at, default) ==
  [expires |-> Formatted(ExpirationFromTime(lifetime, at)),
   isDefault |-> lifetime = default]

\* A page shows what the settings were when it was made.
MadeFrom ==
  /\ page.kind = "settings" /\ fresh => page.form = FormOf(ReadSettings)
  /\ page.kind = "upload" /\ fresh =>
       page.options = {OptionOf(lt, page.at, DefaultLifetime(ReadSettings)) :
                         lt \in OfferedLifetimes(ReadSettings)}
  /\ page.kind = "guest" =>
       page.options = {OptionOf(lt, page.at, page.lifetime) :
                         lt \in GuestLifetimes(page.lifetime)}

\* Which pages there are.
Shown ==
  /\ page.at \in Instants /\ page.at <= now
  /\ page.kind = "guest" => page.lifetime \in LinkLifetimes
  /\ page.kind # "guest" => page.lifetime = 0

OneDefault(options) ==
  \E option \in options : \A other \in options : other.isDefault <=> other = option

Inv ==
  /\ TypeOK
  /\ MadeFrom
  /\ Shown
  /\ page.kind = "upload" => OneDefault(page.options)
  /\ StoredWithinLimits

-----------------------------------------------------------------------------
(***************************************************************************)
(* Days                                                                    *)
(***************************************************************************)

LEMMA Constants ==
  /\ Second \in Nat \ {0} /\ Hour \in Nat \ {0} /\ Day \in Nat \ {0}
  /\ Hour <= Day
  /\ Instants \subseteq Nat /\ 0 \in Instants
BY TimeAssumption DEF Day

LEMMA Quotient ==
  ASSUME NEW x \in Nat, NEW d \in Nat \ {0}
  PROVE  x \div d \in Nat /\ x % d \in 0..d - 1 /\ x = d * (x \div d) + (x % d)
OBVIOUS

LEMMA Ordered ==
  ASSUME NEW m \in Nat, NEW n \in Nat
  PROVE  /\ m * Day \in Nat
         /\ m <= n => m * Day <= n * Day
         /\ m < n => m * Day + Day <= n * Day
<1>1. Day \in Nat \ {0}
  BY Constants
<1>2. m * Day \in Nat /\ n * Day \in Nat
  BY <1>1
<1>3. ASSUME m < n
      PROVE  m * Day + Day <= n * Day
  <2>1. PICK d \in Nat : n = m + 1 + d
    BY <1>3
  <2>2. n * Day = m * Day + Day + d * Day
    BY <1>1, <2>1
  <2>3. d * Day \in Nat
    BY <1>1
  <2> QED
    BY <1>1, <1>2, <2>2, <2>3
<1>4. m = n => m * Day = n * Day
  OBVIOUS
<1> QED
  BY <1>1, <1>2, <1>3, <1>4

\* Whole days in a duration.
LEMMA WholeDays ==
  ASSUME NEW x \in Nat
  PROVE  /\ x \div Day \in Nat
         /\ (x \div Day) * Day <= x
         /\ x < (x \div Day) * Day + Day
<1> DEFINE q == x \div Day
           b == x % Day
<1>1. Day \in Nat \ {0}
  BY Constants
<1>2. q \in Nat /\ b \in 0..Day - 1 /\ x = Day * q + b
  BY <1>1, Quotient
<1> HIDE DEF q, b
<1>3. Day * q = q * Day /\ q * Day \in Nat
  BY <1>1, <1>2
<1>4. q * Day <= x /\ x < q * Day + Day
  BY <1>1, <1>2, <1>3
<1> QED
  BY <1>2, <1>4 DEF q

LEMMA ExactDays ==
  ASSUME NEW n \in Nat
  PROVE  (n * Day) \div Day = n
<1> DEFINE x == n * Day
           q == x \div Day
<1>1. Day \in Nat \ {0} /\ x \in Nat
  BY Constants, Ordered
<1>2. q \in Nat /\ q * Day <= x /\ x < q * Day + Day
  BY <1>1, WholeDays
<1> HIDE DEF q
<1>3. q * Day \in Nat
  BY <1>2, Ordered
<1>4. ~(n < q)
  <2>1. n < q => n * Day + Day <= q * Day
    BY <1>2, Ordered
  <2> QED
    BY <1>1, <1>2, <1>3, <2>1
<1>5. ~(q < n)
  <2>1. q < n => q * Day + Day <= n * Day
    BY <1>2, Ordered
  <2> QED
    BY <1>1, <1>2, <1>3, <2>1
<1> QED
  BY <1>2, <1>4, <1>5 DEF q

\* The numbers in the code.
LEMMA Numbers ==
  /\ DaysPerYear = 365 /\ MaxFileLifetimeDays = 3650 /\ MaxRetentionDays = 3650
BY DEF DaysPerYear, MaxFileLifetimeDays, MaxRetentionDays

LEMMA Limits ==
  /\ \A n \in 1..MaxFileLifetimeDays :
       n \in Nat /\ n # 0 /\ n >= 1 /\ n <= 3650 /\ n < 65536
  /\ \A n \in 1..MaxRetentionDays :
       n \in Nat /\ n # 0 /\ n >= 1 /\ n <= 3650 /\ n < 65536
  /\ 100 * DaysPerYear = 36500
  /\ \A n \in Nat : n >= 1 /\ n <= 3650 =>
       n \in 1..MaxFileLifetimeDays /\ n \in 1..MaxRetentionDays
BY Numbers

LEMMA Unsigned ==
  ASSUME NEW n \in Nat, n < 65536
  PROVE  Uint16(n) = n
<1>1. n % 65536 = n
  OBVIOUS
<1> QED
  BY <1>1 DEF Uint16

LEMMA Signed ==
  ASSUME NEW n \in Nat, n <= 3650
  PROVE  Uint16(n) = n /\ Int16(n) = n
BY Unsigned DEF Int16

\* FileLifetime.Days takes back what NewFileLifetimeInDays has done.
LEMMA DaysBack ==
  ASSUME NEW n \in Nat, n < 65536
  PROVE  /\ NewFileLifetimeInDays(n) = n * Day
         /\ NewFileLifetimeInDays(n) \in Nat
         /\ Days(NewFileLifetimeInDays(n)) = n
<1>1. NewFileLifetimeInDays(n) = n * Day /\ n * Day \in Nat
  BY Ordered DEF NewFileLifetimeInDays
<1>2. (n * Day) \div Day = n
  BY ExactDays
<1> QED
  BY <1>1, <1>2, Unsigned DEF Days

LEMMA Infinite ==
  /\ FileLifetimeInfinite = NewFileLifetimeInDays(36500)
  /\ FileLifetimeInfinite = 36500 * Day
  /\ FileLifetimeInfinite \in Nat /\ Days(FileLifetimeInfinite) = 36500
<1>1. 100 * DaysPerYear = 36500
  BY Numbers
<1>2. Uint16(36500) = 36500
  BY Unsigned
<1>3. FileLifetimeInfinite = NewFileLifetimeInDays(36500)
  BY <1>1, <1>2 DEF FileLifetimeInfinite
<1> QED
  BY <1>3, DaysBack

\* No number of days that a form accepts means "never".
LEMMA Finite ==
  ASSUME NEW n \in Nat, n <= 3650
  PROVE  n * Day \in Nat /\ n * Day < FileLifetimeInfinite
<1>1. n * Day + Day <= 36500 * Day /\ Day \in Nat \ {0} /\ n * Day \in Nat
      /\ 36500 * Day \in Nat
  BY Ordered, Constants
<1> QED
  BY <1>1, Infinite

-----------------------------------------------------------------------------
(***************************************************************************)
(* Settings                                                                *)
(***************************************************************************)

LEMMA Rows ==
  ASSUME row \in Row
  PROVE  /\ row.expiration \in Nat
         /\ row.expiration \in 1..MaxFileLifetimeDays \/ row.expiration = 36500
         /\ row.expiration <= 36500 /\ row.expiration >= 1
         /\ row.retention # NULL =>
              row.retention \in Nat /\ row.retention >= 1 /\ row.retention <= 3650
         /\ row.maxLifetime # NULL =>
              /\ row.maxLifetime \in Nat /\ row.maxLifetime >= 1
              /\ row.maxLifetime <= 3650
BY Limits DEF Row

\* What ReadSettings makes of the row.
LEMMA ReadBack ==
  ASSUME row \in Row
  PROVE  /\ ReadSettings.default = row.expiration * Day
         /\ ReadSettings.default \in Nat
         /\ Days(ReadSettings.default) = row.expiration
         /\ row.expiration = 36500 <=> ReadSettings.default = FileLifetimeInfinite
         /\ ReadSettings.retention =
              IF row.retention = NULL THEN 0 ELSE row.retention
         /\ row.maxLifetime = NULL => ReadSettings.cap = FileLifetimeInfinite
         /\ row.maxLifetime # NULL =>
              /\ ReadSettings.cap = row.maxLifetime * Day
              /\ ReadSettings.cap \in Nat
              /\ Days(ReadSettings.cap) = row.maxLifetime
              /\ ReadSettings.cap # FileLifetimeInfinite
<1>1. /\ ReadSettings.default = row.expiration * Day
      /\ ReadSettings.default \in Nat
      /\ Days(ReadSettings.default) = row.expiration
  <2>1. row.expiration \in Nat /\ row.expiration < 65536
    BY Rows
  <2>2. ReadSettings.default = NewFileLifetimeInDays(row.expiration)
    BY DEF ReadSettings
  <2> QED
    BY <2>1, <2>2, DaysBack
<1>2. row.expiration = 36500 <=> ReadSettings.default = FileLifetimeInfinite
  BY <1>1, Infinite
<1>3. ReadSettings.retention = IF row.retention = NULL THEN 0 ELSE row.retention
  <2>1. row.retention # NULL => Uint16(row.retention) = row.retention
    BY Rows, Signed
  <2> QED
    BY <2>1 DEF ReadSettings
<1>4. ASSUME row.maxLifetime # NULL
      PROVE  /\ ReadSettings.cap = row.maxLifetime * Day
             /\ ReadSettings.cap \in Nat
             /\ Days(ReadSettings.cap) = row.maxLifetime
             /\ ReadSettings.cap # FileLifetimeInfinite
  <2>1. row.maxLifetime \in Nat /\ row.maxLifetime <= 3650
        /\ row.maxLifetime < 65536
    BY <1>4, Rows
  <2>2. ReadSettings.cap = NewFileLifetimeInDays(Uint16(row.maxLifetime))
    BY <1>4 DEF ReadSettings
  <2>3. ReadSettings.cap = NewFileLifetimeInDays(row.maxLifetime)
    BY <2>1, <2>2, Signed
  <2>4. /\ ReadSettings.cap = row.maxLifetime * Day
        /\ ReadSettings.cap \in Nat
        /\ Days(ReadSettings.cap) = row.maxLifetime
    BY <2>1, <2>3, DaysBack
  <2>5. row.maxLifetime * Day < FileLifetimeInfinite
        /\ FileLifetimeInfinite \in Nat
    BY <2>1, Finite, Infinite
  <2> QED
    BY <2>4, <2>5
<1>5. row.maxLifetime = NULL => ReadSettings.cap = FileLifetimeInfinite
  BY DEF ReadSettings
<1> QED
  BY <1>1, <1>2, <1>3, <1>4, <1>5

\* What a valid request leaves in the row.
LEMMA StoredAsAsked ==
  ASSUME NEW p, IsValid(p)
  PROVE  /\ Stored(SettingsFromRequest(p)) =
              [expiration |-> IF p.never THEN 36500 ELSE p.defaultDays,
               retention |-> IF p.forever THEN NULL ELSE p.retentionDays,
               maxLifetime |-> IF Uncapped(p) THEN NULL ELSE p.capDays]
         /\ Stored(SettingsFromRequest(p)) \in Row
<1> DEFINE s == SettingsFromRequest(p)
<1>1. /\ ~p.never => p.defaultDays \in 1..MaxFileLifetimeDays
      /\ ~p.forever => p.retentionDays \in 1..MaxRetentionDays
      /\ ~Uncapped(p) => p.capDays \in 1..MaxFileLifetimeDays
  BY DEF IsValid, IsFileLifetime, IsRetention
<1>2. /\ s.default = IF p.never THEN FileLifetimeInfinite
                     ELSE NewFileLifetimeInDays(p.defaultDays)
      /\ s.retention = IF p.forever THEN 0 ELSE p.retentionDays
      /\ s.cap = IF Uncapped(p) THEN FileLifetimeInfinite
                 ELSE NewFileLifetimeInDays(p.capDays)
  BY DEF SettingsFromRequest
<1> HIDE DEF s
<1>3. Days(s.default) = IF p.never THEN 36500 ELSE p.defaultDays
  <2>1. CASE p.never
    BY <1>2, <2>1, Infinite
  <2>2. CASE ~p.never
    <3>1. p.defaultDays \in Nat /\ p.defaultDays < 65536
      BY <1>1, <2>2, Limits
    <3> QED
      BY <1>2, <2>2, <3>1, DaysBack
  <2> QED
    BY <2>1, <2>2
<1>4. (IF s.retention = 0 THEN NULL ELSE Int16(s.retention)) =
        IF p.forever THEN NULL ELSE p.retentionDays
  <2>1. ~p.forever => p.retentionDays # 0 /\ Int16(p.retentionDays) = p.retentionDays
    BY <1>1, Limits, Signed
  <2> QED
    BY <1>2, <2>1
<1>5. (IF s.cap = FileLifetimeInfinite \/ Days(s.cap) = 0
       THEN NULL ELSE Int16(Days(s.cap))) =
        IF Uncapped(p) THEN NULL ELSE p.capDays
  <2>1. CASE Uncapped(p)
    BY <1>2, <2>1
  <2>2. CASE ~Uncapped(p)
    <3>1. p.capDays \in Nat /\ p.capDays <= 3650 /\ p.capDays # 0
          /\ p.capDays < 65536
      BY <1>1, <2>2, Limits
    <3>2. s.cap = NewFileLifetimeInDays(p.capDays)
      BY <1>2, <2>2
    <3>3. Days(s.cap) = p.capDays /\ s.cap = p.capDays * Day
      BY <3>1, <3>2, DaysBack
    <3>4. p.capDays * Day < FileLifetimeInfinite /\ FileLifetimeInfinite \in Nat
          /\ Int16(p.capDays) = p.capDays
      BY <3>1, Finite, Infinite, Signed
    <3> QED
      BY <2>2, <3>1, <3>3, <3>4
  <2> QED
    BY <2>1, <2>2
<1>6. Stored(s) = [expiration |-> IF p.never THEN 36500 ELSE p.defaultDays,
                   retention |-> IF p.forever THEN NULL ELSE p.retentionDays,
                   maxLifetime |-> IF Uncapped(p) THEN NULL ELSE p.capDays]
  BY <1>3, <1>4, <1>5 DEF Stored
<1>7. Stored(s) \in Row
  <2>1. (IF p.never THEN 36500 ELSE p.defaultDays)
          \in 1..MaxFileLifetimeDays \cup {100 * DaysPerYear}
    BY <1>1, Limits
  <2>2. (IF p.forever THEN NULL ELSE p.retentionDays)
          \in 1..MaxRetentionDays \cup {NULL}
    BY <1>1
  <2>3. (IF Uncapped(p) THEN NULL ELSE p.capDays)
          \in 1..MaxFileLifetimeDays \cup {NULL}
    BY <1>1
  <2> QED
    BY <1>6, <2>1, <2>2, <2>3 DEF Row
<1> QED
  BY <1>6, <1>7 DEF s

\* The numbers that settingsGet puts into the page.
LEMMA FormFields ==
  ASSUME NEW s
  PROVE  /\ FormOf(s).never \in BOOLEAN /\ FormOf(s).forever \in BOOLEAN
         /\ FormOf(s).noCap \in BOOLEAN
         /\ FormOf(s).never <=> s.default = FileLifetimeInfinite
         /\ s.default # FileLifetimeInfinite /\ IsYearBoundary(Days(s.default)) =>
              /\ FormOf(s).unit = "years"
              /\ FormOf(s).amount = Days(s.default) \div DaysPerYear
         /\ s.default # FileLifetimeInfinite /\ ~IsYearBoundary(Days(s.default)) =>
              FormOf(s).unit = "days" /\ FormOf(s).amount = Days(s.default)
         /\ s.default = FileLifetimeInfinite =>
              FormOf(s).unit = "days" /\ FormOf(s).amount = 30
         /\ FormOf(s).forever <=> s.retention = 0
         /\ FormOf(s).retention = IF s.retention = 0 THEN 90 ELSE s.retention
         /\ FormOf(s).noCap <=> s.cap = FileLifetimeInfinite
         /\ FormOf(s).cap = IF s.cap = FileLifetimeInfinite THEN 7 ELSE Days(s.cap)
BY DEF FormOf

LEMMA FormTypes ==
  ASSUME NEW s
  PROVE  FormOf(s) =
           [amount |-> FormOf(s).amount, unit |-> FormOf(s).unit,
            never |-> FormOf(s).never, retention |-> FormOf(s).retention,
            forever |-> FormOf(s).forever, cap |-> FormOf(s).cap,
            noCap |-> FormOf(s).noCap]
BY DEF FormOf

LEMMA FormOfSettings ==
  ASSUME row \in Row
  PROVE  /\ FormOf(ReadSettings) \in Form
         /\ IsValid(Payload(FormOf(ReadSettings)))
         /\ Stored(SettingsFromRequest(Payload(FormOf(ReadSettings)))) = row
<1> DEFINE s == ReadSettings
           f == FormOf(s)
           p == Payload(f)
           e == row.expiration
<1>1. /\ e \in Nat /\ e >= 1 /\ e <= 36500
      /\ e \in 1..MaxFileLifetimeDays \/ e = 36500
      /\ row.retention # NULL =>
           row.retention \in Nat /\ row.retention >= 1 /\ row.retention <= 3650
      /\ row.maxLifetime # NULL =>
           /\ row.maxLifetime \in Nat /\ row.maxLifetime >= 1
           /\ row.maxLifetime <= 3650
  BY Rows
<1>2. /\ Days(s.default) = e
      /\ e = 36500 <=> s.default = FileLifetimeInfinite
      /\ s.retention = IF row.retention = NULL THEN 0 ELSE row.retention
      /\ s.cap = FileLifetimeInfinite <=> row.maxLifetime = NULL
      /\ row.maxLifetime # NULL => Days(s.cap) = row.maxLifetime
  BY ReadBack
<1>3. row = [expiration |-> e, retention |-> row.retention,
             maxLifetime |-> row.maxLifetime]
  BY DEF Row
<1> HIDE DEF s, e
<1>4. /\ f.never <=> e = 36500
      /\ e # 36500 /\ IsYearBoundary(e) =>
           f.unit = "years" /\ f.amount = e \div DaysPerYear
      /\ e # 36500 /\ ~IsYearBoundary(e) => f.unit = "days" /\ f.amount = e
      /\ e = 36500 => f.unit = "days" /\ f.amount = 30
  BY <1>2, FormFields
<1>5. /\ f.forever <=> row.retention = NULL
      /\ f.retention = IF row.retention = NULL THEN 90 ELSE row.retention
      /\ f.noCap <=> row.maxLifetime = NULL
      /\ f.cap = IF row.maxLifetime = NULL THEN 7 ELSE row.maxLifetime
  BY <1>1, <1>2, FormFields
<1>6. f.never \in BOOLEAN /\ f.forever \in BOOLEAN /\ f.noCap \in BOOLEAN
  BY FormFields
<1>7. IsYearBoundary(e) =>
        /\ e \div DaysPerYear \in Nat /\ e \div DaysPerYear <= e
        /\ (e \div DaysPerYear) * DaysPerYear = e
  <2> DEFINE q == e \div DaysPerYear
  <2>1. DaysPerYear = 365
    BY Numbers
  <2>2. q \in Nat /\ e = 365 * q + (e % 365)
    <3>1. e \div 365 \in Nat /\ e = 365 * (e \div 365) + (e % 365)
      BY <1>1
    <3> QED
      BY <2>1, <3>1
  <2>3. IsYearBoundary(e) => e % 365 = 0
    BY <2>1 DEF IsYearBoundary
  <2> HIDE DEF q
  <2>4. IsYearBoundary(e) => q <= e /\ q * 365 = e
    BY <2>2, <2>3
  <2> QED
    BY <2>1, <2>2, <2>4 DEF q
<1>8. f \in Form
  <2>1. f.amount \in Uint16s /\ f.retention \in Uint16s /\ f.cap \in Uint16s
    BY <1>1, <1>4, <1>5, <1>7 DEF Uint16s
  <2>2. f.unit \in {"days", "years"}
    BY <1>4
  <2>3. f = [amount |-> f.amount, unit |-> f.unit, never |-> f.never,
             retention |-> f.retention, forever |-> f.forever,
             cap |-> f.cap, noCap |-> f.noCap]
    BY FormTypes
  <2> HIDE DEF f
  <2>4. ASSUME NEW a \in Uint16s, NEW u \in {"days", "years"}, NEW n \in BOOLEAN,
               NEW r \in Uint16s, NEW v \in BOOLEAN, NEW c \in Uint16s,
               NEW k \in BOOLEAN
        PROVE  [amount |-> a, unit |-> u, never |-> n, retention |-> r,
                forever |-> v, cap |-> c, noCap |-> k] \in Form
    BY <2>4 DEF Form
  <2>5. [amount |-> f.amount, unit |-> f.unit, never |-> f.never,
         retention |-> f.retention, forever |-> f.forever,
         cap |-> f.cap, noCap |-> f.noCap] \in Form
    BY <1>6, <2>1, <2>2, <2>4, ZenonT(60)
  <2> QED
    BY <2>3, <2>5
<1>9. /\ p.never <=> e = 36500
      /\ e # 36500 => p.defaultDays = e
      /\ p.forever <=> row.retention = NULL
      /\ row.retention # NULL => p.retentionDays = row.retention
      /\ p.noCap <=> row.maxLifetime = NULL
      /\ row.maxLifetime # NULL => p.capDays = row.maxLifetime
  <2> HIDE DEF f
  <2>1. /\ p.never = f.never
        /\ p.defaultDays = IF f.never THEN 0
                           ELSE IF f.unit = "years" THEN f.amount * DaysPerYear
                           ELSE f.amount
        /\ p.forever = f.forever
        /\ p.retentionDays = IF f.forever THEN 0 ELSE f.retention
        /\ p.noCap = f.noCap
        /\ p.capDays = IF f.noCap THEN 0 ELSE f.cap
    BY DEF Payload
  <2> HIDE DEF p
  <2>2. e # 36500 => p.defaultDays = e
    BY <1>4, <1>7, <2>1
  <2> QED
    BY <1>4, <1>5, <2>1, <2>2
<1> HIDE DEF f, p
<1>10. Uncapped(p) <=> row.maxLifetime = NULL
  BY <1>1, <1>9 DEF Uncapped
<1>11. IsValid(p)
  <2>1. ~p.never => p.defaultDays \in 1..MaxFileLifetimeDays
    <3>1. e # 36500 => e \in 1..MaxFileLifetimeDays
      BY <1>1
    <3> QED
      BY <1>9, <3>1
  <2>2. ~p.forever => p.retentionDays \in 1..MaxRetentionDays
    BY <1>1, <1>9, Limits
  <2>3. ~Uncapped(p) => p.capDays \in 1..MaxFileLifetimeDays
    BY <1>1, <1>9, <1>10, Limits
  <2> QED
    BY <2>1, <2>2, <2>3 DEF IsValid, IsFileLifetime, IsRetention
<1>12. Stored(SettingsFromRequest(p)) = row
  <2>1. Stored(SettingsFromRequest(p)) =
          [expiration |-> IF p.never THEN 36500 ELSE p.defaultDays,
           retention |-> IF p.forever THEN NULL ELSE p.retentionDays,
           maxLifetime |-> IF Uncapped(p) THEN NULL ELSE p.capDays]
    BY <1>11, StoredAsAsked
  <2>2. (IF p.never THEN 36500 ELSE p.defaultDays) = e
    BY <1>9
  <2>3. (IF p.forever THEN NULL ELSE p.retentionDays) = row.retention
    BY <1>9
  <2>4. (IF Uncapped(p) THEN NULL ELSE p.capDays) = row.maxLifetime
    BY <1>9, <1>10
  <2> QED
    BY <1>3, <2>1, <2>2, <2>3, <2>4
<1> QED
  BY <1>8, <1>11, <1>12 DEF f, p, s

-----------------------------------------------------------------------------
(***************************************************************************)
(* Lists of lifetimes                                                      *)
(***************************************************************************)

LEMMA BuiltInDays ==
  ASSUME NEW lt \in BuiltIn
  PROVE  \E n \in Nat : n >= 1 /\ n <= 36500 /\ lt = n * Day /\ Days(lt) = n
<1>1. \E n \in Nat : n >= 1 /\ n <= 36500 /\ lt = NewFileLifetimeInDays(n)
  BY Numbers, Infinite DEF BuiltIn
<1>2. PICK n \in Nat : n >= 1 /\ n <= 36500 /\ lt = NewFileLifetimeInDays(n)
  BY <1>1
<1>3. n < 65536
  BY <1>2
<1>4. lt = n * Day /\ Days(lt) = n
  BY <1>2, <1>3, DaysBack
<1> QED
  BY <1>2, <1>4

\* Under a cap of c days nothing longer than c days is offered.
LEMMA CappedDays ==
  ASSUME NEW c \in Nat, c >= 1, c <= 3650,
         NEW lt \in CappedLifetimes(c * Day)
  PROVE  \E n \in Nat : n >= 1 /\ n <= c /\ lt = n * Day
<1>1. Days(c * Day) = c
  <2>1. c < 65536
    OBVIOUS
  <2> QED
    BY <2>1, DaysBack
<1>2. CASE c <= DenseLifetimeCapThresholdDays
  <2>1. PICK d \in 1..c : lt = NewFileLifetimeInDays(d)
    BY <1>1, <1>2 DEF CappedLifetimes
  <2>2. d \in Nat /\ d >= 1 /\ d <= c
    BY <2>1
  <2> QED
    BY <2>1, <2>2 DEF NewFileLifetimeInDays
<1>3. CASE ~(c <= DenseLifetimeCapThresholdDays)
  <2>1. lt = c * Day \/ (lt \in BuiltIn /\ Days(lt) <= c)
    BY <1>1, <1>3 DEF CappedLifetimes
  <2>2. ASSUME lt \in BuiltIn, Days(lt) <= c
        PROVE  \E n \in Nat : n >= 1 /\ n <= c /\ lt = n * Day
    <3>1. PICK n \in Nat : n >= 1 /\ n <= 36500 /\ lt = n * Day /\ Days(lt) = n
      BY <2>2, BuiltInDays
    <3> QED
      BY <2>2, <3>1
  <2> QED
    BY <2>1, <2>2
<1> QED
  BY <1>2, <1>3

LEMMA CapIsOffered ==
  ASSUME NEW c \in Nat, c >= 1, c <= 3650
  PROVE  c * Day \in CappedLifetimes(c * Day)
<1>1. Days(c * Day) = c /\ NewFileLifetimeInDays(c) = c * Day
  <2>1. c < 65536
    OBVIOUS
  <2> QED
    BY <2>1, DaysBack
<1>2. c \in 1..c
  OBVIOUS
<1> QED
  BY <1>1, <1>2 DEF CappedLifetimes

\* What uploadGet offers: whole days, the default among them, and nothing
\* beyond the cap.
LEMMA Offered ==
  ASSUME row \in Row
  PROVE  /\ \A lt \in OfferedLifetimes(ReadSettings) :
              \E n \in Nat : /\ n >= 1 /\ n <= 36500 /\ lt = n * Day
                             /\ HasLifetimeCap(ReadSettings) => n <= row.maxLifetime
         /\ DefaultLifetime(ReadSettings) \in OfferedLifetimes(ReadSettings)
         /\ HasLifetimeCap(ReadSettings) =>
              /\ row.maxLifetime # NULL
              /\ ReadSettings.cap \in OfferedLifetimes(ReadSettings)
<1> DEFINE s == ReadSettings
           e == row.expiration
           c == row.maxLifetime
<1>1. /\ s.default = e * Day /\ Days(s.default) = e
      /\ e \in Nat /\ e >= 1 /\ e <= 36500
      /\ c = NULL => s.cap = FileLifetimeInfinite
      /\ c # NULL => /\ s.cap = c * Day /\ Days(s.cap) = c
                     /\ c \in Nat /\ c >= 1 /\ c <= 3650
  BY ReadBack, Rows
<1> HIDE DEF s, e, c
<1>2. DefaultLifetime(s) \in OfferedLifetimes(s)
  BY DEF OfferedLifetimes
<1>3. CASE HasLifetimeCap(s)
  <2>1. c # NULL
    BY <1>1, <1>3 DEF HasLifetimeCap
  <2>2. s.cap = c * Day /\ Days(s.cap) = c /\ c \in Nat /\ c >= 1 /\ c <= 3650
    BY <1>1, <2>1
  <2>3. ASSUME NEW lt \in OfferedLifetimes(s)
        PROVE  \E n \in Nat : n >= 1 /\ n <= 36500 /\ lt = n * Day /\ n <= c
    <3>1. CASE lt = DefaultLifetime(s)
      <4>1. \/ lt = c * Day
            \/ lt = e * Day /\ ~(e > c)
        BY <1>1, <1>3, <2>2, <3>1 DEF DefaultLifetime
      <4>2. c <= 36500 /\ (~(e > c) => e <= c)
        BY <1>1, <2>2
      <4> QED
        BY <1>1, <2>2, <4>1, <4>2
    <3>2. CASE lt \in CappedLifetimes(c * Day)
      <4>1. PICK n \in Nat : n >= 1 /\ n <= c /\ lt = n * Day
        BY <2>2, <3>2, CappedDays
      <4>2. n <= 36500
        BY <2>2, <4>1
      <4> QED
        BY <4>1, <4>2
    <3> QED
      BY <1>3, <2>2, <2>3, <3>1, <3>2 DEF OfferedLifetimes, LifetimeOptions
  <2>4. s.cap \in OfferedLifetimes(s)
    BY <1>3, <2>2, CapIsOffered DEF OfferedLifetimes, LifetimeOptions
  <2> QED
    BY <1>2, <2>1, <2>3, <2>4 DEF s, c
<1>4. CASE ~HasLifetimeCap(s)
  <2>1. ASSUME NEW lt \in OfferedLifetimes(s)
        PROVE  \E n \in Nat : n >= 1 /\ n <= 36500 /\ lt = n * Day
    <3>1. lt = e * Day \/ lt \in BuiltIn
      BY <1>1, <1>4, <2>1
      DEF OfferedLifetimes, LifetimeOptions, DefaultLifetime
    <3> QED
      BY <1>1, <3>1, BuiltInDays
  <2> QED
    BY <1>2, <1>4, <2>1 DEF s
<1> QED
  BY <1>3, <1>4

LEMMA Links ==
  ASSUME NEW lifetime \in LinkLifetimes
  PROVE  /\ lifetime \in Nat /\ lifetime >= Day /\ lifetime # 0
         /\ Days(lifetime) \in Nat
         /\ Days(lifetime) * Day <= lifetime
         /\ lifetime < Days(lifetime) * Day + Day
<1>1. lifetime \in Day..(65536 * Day - 1) /\ Day \in Nat \ {0}
  BY InputsAssumption, Constants
<1>2. lifetime \in Nat /\ lifetime >= Day /\ lifetime < 65536 * Day
  BY <1>1
<1> DEFINE q == lifetime \div Day
<1>3. q \in Nat /\ q * Day <= lifetime /\ lifetime < q * Day + Day
  BY <1>2, WholeDays
<1> HIDE DEF q
<1>4. q < 65536
  <2>1. 65536 <= q => 65536 * Day <= q * Day
    BY <1>3, Ordered
  <2>2. q * Day \in Nat /\ 65536 * Day \in Nat
    BY <1>3, Ordered
  <2> QED
    BY <1>2, <1>3, <2>1, <2>2
<1>5. Days(lifetime) = q
  BY <1>3, <1>4, Unsigned DEF Days, q
<1> QED
  BY <1>1, <1>2, <1>3, <1>5

\* What guestUploadGet offers: whole days within the link's lifetime.
LEMMA GuestOffered ==
  ASSUME NEW lifetime \in LinkLifetimes, NEW lt \in GuestLifetimes(lifetime)
  PROVE  /\ \E n \in Nat : n >= 1 /\ n <= 36500 /\ lt = n * Day
         /\ lt <= lifetime
<1>1. PICK n \in Nat : n >= 1 /\ n <= 36500 /\ lt = n * Day /\ Days(lt) = n
  BY BuiltInDays DEF GuestLifetimes
<1>2. n <= Days(lifetime)
  BY <1>1 DEF GuestLifetimes
<1>3. n * Day <= Days(lifetime) * Day /\ n * Day \in Nat
      /\ Days(lifetime) * Day \in Nat
  BY <1>1, <1>2, Links, Ordered
<1>4. lt <= lifetime
  BY <1>1, <1>3, Links
<1> QED
  BY <1>1, <1>4

-----------------------------------------------------------------------------
(***************************************************************************)
(* Moments                                                                 *)
(***************************************************************************)

LEMMA Moment ==
  ASSUME NEW x \in Nat
  PROVE  Formatted(x) \in Nat /\ Formatted(x) <= x /\ x < Formatted(x) + Second
<1>1. Second \in Nat \ {0}
  BY Constants
<1>2. x % Second \in 0..Second - 1 /\ x \div Second \in Nat
      /\ x = Second * (x \div Second) + (x % Second)
  BY <1>1, Quotient
<1>3. Second * (x \div Second) \in Nat
  BY <1>1, <1>2
<1> HIDE DEF Formatted
<1>4. x - (x % Second) = Second * (x \div Second)
  BY <1>1, <1>2, <1>3
<1>5. Formatted(x) = Second * (x \div Second) /\ Formatted(x) = x - (x % Second)
  BY <1>4 DEF Formatted
<1> QED
  BY <1>1, <1>2, <1>3, <1>5

LEMMA Never ==
  /\ NeverExpire \in Nat /\ Formatted(NeverExpire) = NeverExpire
  /\ \A t \in Instants : t + 65536 * Day <= NeverExpire
<1>1. NeverExpire \in Nat /\ NeverExpire % Second = 0
  BY NeverAssumption
<1>2. NeverExpire - 0 = NeverExpire
  BY <1>1
<1> QED
  BY <1>1, <1>2, NeverAssumption DEF Formatted

\* A lifetime in days, from some moment on.
LEMMA Expiring ==
  ASSUME NEW at \in Instants, NEW n \in Nat, n >= 1, n <= 36500
  PROVE  /\ ExpirationFromTime(n * Day, at) \in Nat
         /\ n = 36500 => ExpirationFromTime(n * Day, at) = NeverExpire
         /\ n # 36500 => /\ ExpirationFromTime(n * Day, at) = at + n * Day
                         /\ at + n * Day < NeverExpire
<1>1. at \in Nat /\ Day \in Nat \ {0} /\ NeverExpire \in Nat
      /\ at + 65536 * Day <= NeverExpire
  BY Constants, Never
<1>2. n * Day \in Nat /\ 65536 * Day \in Nat /\ n * Day + Day <= 65536 * Day
  <2>1. n < 65536
    OBVIOUS
  <2> QED
    BY <2>1, Ordered
<1>3. at + n * Day < NeverExpire /\ at + n * Day \in Nat
  BY <1>1, <1>2
<1>4. n = 36500 => n * Day = FileLifetimeInfinite
  BY Infinite
<1>5. n # 36500 => n * Day # FileLifetimeInfinite
  <2>1. Days(n * Day) = n
    <3>1. n < 65536
      OBVIOUS
    <3> QED
      BY <3>1, DaysBack
  <2> QED
    BY <2>1, Infinite
<1> HIDE DEF ExpirationFromTime
<1> QED
  BY <1>1, <1>3, <1>4, <1>5 DEF ExpirationFromTime

LEMMA OptionTypes ==
  ASSUME NEW at \in Instants, NEW default,
         NEW lt, \E n \in Nat : n >= 1 /\ n <= 36500 /\ lt = n * Day
  PROVE  /\ OptionOf(lt, at, default) \in Option
         /\ OptionOf(lt, at, default).expires =
              Formatted(ExpirationFromTime(lt, at))
<1>1. ExpirationFromTime(lt, at) \in Nat
  BY Expiring
<1>2. Formatted(ExpirationFromTime(lt, at)) \in Nat
  BY <1>1, Moment
<1>3. OptionOf(lt, at, default) \in Option
  BY <1>2 DEF OptionOf, Option
<1> QED
  BY <1>3 DEF OptionOf

-----------------------------------------------------------------------------
(***************************************************************************)
(* The invariant                                                           *)
(***************************************************************************)

LEMMA NoPageTypes ==
  /\ NoPage \in Page /\ NoPage.kind = "none" /\ NoPage.lifetime = 0
  /\ NoPage.at = 0
  /\ NoUpload \in Upload /\ NoUpload.op = "none" /\ NoUpload.changed = FALSE
<1>1. NoForm \in Form
  BY DEF NoForm, Form, Uint16s
<1>2. NoPage \in Page /\ NoPage.kind = "none" /\ NoPage.lifetime = 0 /\ NoPage.at = 0
  BY <1>1 DEF NoPage, Page
<1>3. NoUpload \in Upload /\ NoUpload.op = "none" /\ NoUpload.changed = FALSE
  BY DEF NoUpload, Upload
<1> QED
  BY <1>2, <1>3

LEMMA InitInv == Init => Inv
<1> SUFFICES ASSUME Init PROVE Inv
  OBVIOUS
<1>1. row \in Row
  BY Limits DEF Init, Row
<1>2. TypeOK
  BY <1>1, Constants, NoPageTypes DEF Init, TypeOK
<1>3. MadeFrom /\ Shown /\ page.kind # "upload"
  BY Constants, NoPageTypes DEF Init, MadeFrom, Shown
<1>4. StoredWithinLimits
  BY NoPageTypes DEF Init, StoredWithinLimits
<1> QED
  BY <1>2, <1>3, <1>4 DEF Inv

LEMMA Changed ==
  ASSUME NEW u \in Upload, NEW b \in BOOLEAN
  PROVE  LET v == [u EXCEPT !.changed = b]
         IN  /\ v \in Upload /\ v.op = u.op /\ v.lifetime = u.lifetime
             /\ v.expires = u.expires /\ v.changed = b
BY DEF Upload

LEMMA SettingsPutKeepsInv ==
  ASSUME Inv, NEW payload, SettingsPut(payload)
  PROVE  Inv'
<1>1. row' \in Row
  BY StoredAsAsked DEF SettingsPut
<1>2. UNCHANGED <<now, isAdmin, page>>
  BY DEF SettingsPut
<1>3. fresh' \in BOOLEAN /\ (fresh' => fresh /\ row' = row)
  BY DEF SettingsPut
<1>4. upload \in Upload /\ upload.changed \in BOOLEAN
  BY DEF Inv, TypeOK, Upload
<1>5. PICK b \in BOOLEAN : /\ b <=> upload.changed \/ row' # row
                           /\ upload' = [upload EXCEPT !.changed = b]
  <2>1. (upload.changed \/ row' # row) \in BOOLEAN
    OBVIOUS
  <2>2. upload' = [upload EXCEPT !.changed = upload.changed \/ row' # row]
    BY DEF SettingsPut
  <2> QED
    BY <2>1, <2>2
<1>6. /\ upload' \in Upload /\ upload'.op = upload.op
      /\ upload'.lifetime = upload.lifetime /\ upload'.expires = upload.expires
      /\ upload'.changed = b
  BY <1>4, <1>5, Changed
<1>7. TypeOK'
  BY <1>1, <1>2, <1>3, <1>6 DEF Inv, TypeOK
<1>8. MadeFrom'
  <2>1. fresh' => ReadSettings' = ReadSettings
                  /\ DefaultLifetime(ReadSettings)' = DefaultLifetime(ReadSettings)
                  /\ OfferedLifetimes(ReadSettings)' = OfferedLifetimes(ReadSettings)
    BY <1>2, <1>3 DEF ReadSettings, DefaultLifetime, OfferedLifetimes,
       LifetimeOptions, HasLifetimeCap
  <2>2. page.kind = "settings" /\ fresh' => page.form = FormOf(ReadSettings)'
    BY <1>3, <2>1 DEF Inv, MadeFrom
  <2>3. page.kind = "upload" /\ fresh' =>
          page.options =
            {OptionOf(lt, page.at, DefaultLifetime(ReadSettings)') :
               lt \in OfferedLifetimes(ReadSettings)'}
    BY <1>3, <2>1 DEF Inv, MadeFrom
  <2> QED
    BY <1>2, <2>2, <2>3 DEF Inv, MadeFrom
<1>9. Shown' /\ (page.kind = "upload" => OneDefault(page.options))'
  BY <1>2 DEF Inv, Shown, OneDefault
<1>10. StoredWithinLimits'
  BY <1>2, <1>5, <1>6 DEF Inv, StoredWithinLimits
<1> QED
  BY <1>7, <1>8, <1>9, <1>10 DEF Inv

LEMMA MemberChangesKeepsInv ==
  ASSUME Inv, MemberChanges
  PROVE  Inv'
<1>1. /\ upload \in Upload /\ isAdmin' \in BOOLEAN
      /\ fresh' = FALSE /\ UNCHANGED <<now, row, page>>
      /\ upload' = [upload EXCEPT !.changed = TRUE]
  BY DEF MemberChanges, Inv, TypeOK
<1>2. /\ upload' \in Upload /\ upload'.op = upload.op
      /\ upload'.lifetime = upload.lifetime /\ upload'.expires = upload.expires
      /\ upload'.changed = TRUE
  BY <1>1, Changed
<1>3. TypeOK'
  BY <1>1, <1>2 DEF Inv, TypeOK
<1>4. MadeFrom' /\ Shown' /\ (page.kind = "upload" => OneDefault(page.options))'
  BY <1>1 DEF Inv, MadeFrom, Shown, OneDefault
<1>5. StoredWithinLimits'
  BY <1>1, <1>2 DEF Inv, StoredWithinLimits
<1> QED
  BY <1>3, <1>4, <1>5 DEF Inv

\* A page appears, and the last upload is forgotten.
LEMMA ShowKeepsInv ==
  ASSUME Inv, NEW shown \in Page, Show(shown), shown.at = now,
         (page.kind = "upload" => OneDefault(page.options))',
         Shown', MadeFrom'
  PROVE  Inv'
<1>1. page' = shown /\ fresh' = TRUE /\ upload' = NoUpload
      /\ UNCHANGED <<now, row, isAdmin>>
  BY DEF Show
<1>2. TypeOK'
  BY <1>1, NoPageTypes DEF Inv, TypeOK
<1>3. StoredWithinLimits'
  BY <1>1, NoPageTypes DEF StoredWithinLimits
<1> QED
  BY <1>2, <1>3 DEF Inv

LEMMA SettingsGetKeepsInv ==
  ASSUME Inv, SettingsGet
  PROVE  Inv'
<1> DEFINE f == FormOf(ReadSettings)
           p == [NoPage EXCEPT !.kind = "settings", !.at = now, !.form = f]
<1>1. row \in Row /\ now \in Instants /\ now \in Nat /\ f \in Form
  BY FormOfSettings, Constants DEF Inv, TypeOK
<1>2. Show(p)
  BY DEF SettingsGet
<1> HIDE DEF f
<1>4. /\ p \in Page /\ p.kind = "settings" /\ p.at = now /\ p.form = f
      /\ p.lifetime = 0
  <2>1. p = [NoPage EXCEPT !.kind = "settings", !.at = now, !.form = f]
    BY DEF p
  <2>2. NoPage \in Page /\ NoPage.lifetime = 0
    BY NoPageTypes
  <2> HIDE DEF p
  <2> QED
    BY <1>1, <2>1, <2>2 DEF Page
<1> HIDE DEF p
<1>5. page' = p /\ UNCHANGED <<now, row, isAdmin>>
  BY <1>2 DEF Show
<1>6. FormOf(ReadSettings)' = f
  BY <1>5 DEF f, FormOf, ReadSettings
<1>7. MadeFrom'
  BY <1>4, <1>5, <1>6 DEF MadeFrom
<1>8. Shown'
  BY <1>1, <1>4, <1>5 DEF Shown
<1> QED
  BY <1>2, <1>4, <1>5, <1>7, <1>8, ShowKeepsInv

LEMMA UploadGetKeepsInv ==
  ASSUME Inv, UploadGet
  PROVE  Inv'
<1> DEFINE L == OfferedLifetimes(ReadSettings)
           d == DefaultLifetime(ReadSettings)
           o == {OptionOf(lt, now, d) : lt \in L}
           p == [NoPage EXCEPT !.kind = "upload", !.at = now, !.options = o]
<1>1. row \in Row /\ now \in Instants /\ now \in Nat
  BY Constants DEF Inv, TypeOK
<1>2. Show(p)
  BY DEF UploadGet, OptionsAt, OptionOf
<1>3. d \in L /\ \A lt \in L : \E n \in Nat : n >= 1 /\ n <= 36500 /\ lt = n * Day
  BY <1>1, Offered
<1>4. UNCHANGED <<now, row, isAdmin>> /\ page' = p
  BY <1>2 DEF Show
<1>5. L' = L /\ d' = d
  BY <1>4 DEF OfferedLifetimes, DefaultLifetime, LifetimeOptions, HasLifetimeCap,
     ReadSettings
<1> HIDE DEF L, d
<1>6. o \subseteq Option
  BY <1>1, <1>3, OptionTypes
<1>7. OneDefault(o)
  <2>1. OptionOf(d, now, d) \in o
    BY <1>3
  <2>2. \A lt : OptionOf(lt, now, d).isDefault <=> lt = d
    BY DEF OptionOf
  <2>3. ASSUME NEW other \in o
        PROVE  other.isDefault <=> other = OptionOf(d, now, d)
    <3>1. PICK lt \in L : other = OptionOf(lt, now, d)
      BY <2>3
    <3> QED
      BY <2>2, <3>1
  <2> QED
    BY <2>1, <2>3 DEF OneDefault
<1> HIDE DEF o
<1>10. /\ p \in Page /\ p.kind = "upload" /\ p.at = now /\ p.options = o
       /\ p.lifetime = 0
  <2>1. p = [NoPage EXCEPT !.kind = "upload", !.at = now, !.options = o]
    BY DEF p
  <2>2. NoPage \in Page /\ NoPage.lifetime = 0
    BY NoPageTypes
  <2> HIDE DEF p
  <2> QED
    BY <1>1, <1>6, <2>1, <2>2 DEF Page
<1> HIDE DEF p
<1>11. MadeFrom'
  <2>1. page'.options = {OptionOf(lt, page'.at, d') : lt \in L'}
    BY <1>4, <1>5, <1>10 DEF o
  <2> QED
    BY <1>4, <1>10, <2>1 DEF MadeFrom, L, d
<1>12. Shown'
  BY <1>1, <1>4, <1>10 DEF Shown
<1>13. (page.kind = "upload" => OneDefault(page.options))'
  BY <1>4, <1>7, <1>10 DEF OneDefault
<1> QED
  BY <1>2, <1>10, <1>11, <1>12, <1>13, ShowKeepsInv

LEMMA GuestUploadGetKeepsInv ==
  ASSUME Inv, NEW lifetime \in LinkLifetimes, GuestUploadGet(lifetime)
  PROVE  Inv'
<1> DEFINE L == GuestLifetimes(lifetime)
           o == {OptionOf(lt, now, lifetime) : lt \in L}
           p == [NoPage EXCEPT !.kind = "guest", !.at = now,
                               !.lifetime = lifetime, !.options = o]
<1>1. now \in Instants /\ now \in Nat /\ lifetime \in Nat
  BY Constants, Links DEF Inv, TypeOK
<1>2. Show(p)
  BY DEF GuestUploadGet, OptionsAt, OptionOf
<1>3. \A lt \in L : \E n \in Nat : n >= 1 /\ n <= 36500 /\ lt = n * Day
  BY GuestOffered
<1>4. UNCHANGED <<now, row, isAdmin>> /\ page' = p
  BY <1>2 DEF Show
<1> HIDE DEF L
<1>5. o \subseteq Option
  BY <1>1, <1>3, OptionTypes
<1> HIDE DEF o
<1>8. /\ p \in Page /\ p.kind = "guest" /\ p.at = now /\ p.options = o
      /\ p.lifetime = lifetime
  <2>1. p = [NoPage EXCEPT !.kind = "guest", !.at = now, !.lifetime = lifetime,
                        !.options = o]
    BY DEF p
  <2>2. NoPage \in Page /\ NoPage.lifetime = 0
    BY NoPageTypes
  <2> HIDE DEF p
  <2> QED
    BY <1>1, <1>5, <2>1, <2>2 DEF Page
<1> HIDE DEF p
<1>9. MadeFrom'
  <2>1. page'.options = {OptionOf(lt, page'.at, page'.lifetime) :
                           lt \in GuestLifetimes(page'.lifetime)}
    BY <1>4, <1>8 DEF L, o
  <2> QED
    BY <1>4, <1>8, <2>1 DEF MadeFrom
<1>10. Shown'
  BY <1>1, <1>4, <1>8 DEF Shown
<1>11. (page.kind = "upload" => OneDefault(page.options))'
  BY <1>4, <1>8
<1> QED
  BY <1>2, <1>8, <1>9, <1>10, <1>11, ShowKeepsInv

LEMMA PageClosedKeepsInv ==
  ASSUME Inv, PageClosed
  PROVE  Inv'
<1>1. page' = NoPage /\ fresh' = FALSE /\ UNCHANGED <<now, row, isAdmin, upload>>
  BY DEF PageClosed
<1>2. TypeOK'
  BY <1>1, NoPageTypes DEF Inv, TypeOK
<1>3. MadeFrom' /\ Shown' /\ (page.kind = "upload" => OneDefault(page.options))'
  <2>1. now \in Nat
    BY Constants DEF Inv, TypeOK
  <2> QED
    BY <1>1, <2>1, NoPageTypes, Constants DEF MadeFrom, Shown
<1>4. StoredWithinLimits'
  BY <1>1 DEF Inv, StoredWithinLimits
<1> QED
  BY <1>2, <1>3, <1>4 DEF Inv

\* An admitted upload, with what its admission has established.
LEMMA PostKeepsInv ==
  ASSUME Inv, NEW expires \in Nat, Post(expires),
         page.kind = "guest" => \/ page.lifetime = FileLifetimeInfinite
                                \/ expires <= now + page.lifetime,
         page.kind # "guest" => \/ isAdmin \/ row.maxLifetime = NULL
                                \/ expires <= now + row.maxLifetime * Day
  PROVE  Inv'
<1>1. page' = NoPage /\ fresh' = FALSE /\ UNCHANGED <<now, row, isAdmin>>
  BY DEF Post
<1>2. page.lifetime \in Nat
  BY DEF Inv, TypeOK, Page
<1>3. /\ upload' \in Upload /\ upload'.op = "body" /\ upload'.expires = expires
      /\ upload'.lifetime = page.lifetime /\ upload'.changed = FALSE
  BY <1>2 DEF Post, Upload
<1>4. TypeOK'
  BY <1>1, <1>3, NoPageTypes DEF Inv, TypeOK
<1>5. MadeFrom' /\ Shown' /\ (page.kind = "upload" => OneDefault(page.options))'
  <2>1. now \in Nat
    BY Constants DEF Inv, TypeOK
  <2> QED
    BY <1>1, <2>1, NoPageTypes, Constants DEF MadeFrom, Shown
<1>6. StoredWithinLimits'
  <2>1. page.kind = "guest" => page.lifetime # 0
    BY Links DEF Inv, Shown
  <2>2. page.kind # "guest" => page.lifetime = 0
    BY DEF Inv, Shown
  <2> QED
    BY <1>1, <1>3, <2>1, <2>2 DEF StoredWithinLimits
<1> QED
  BY <1>4, <1>5, <1>6 DEF Inv

LEMMA EntryPostKeepsInv ==
  ASSUME Inv,
         NEW expires \in {option.expires : option \in page.options} \cup Expirations,
         EntryPost(expires)
  PROVE  Inv'
<1>1. expires \in Nat
  <2>1. page.options \in SUBSET Option
    BY DEF Inv, TypeOK, Page
  <2>2. \A option \in page.options : option.expires \in Nat
    BY <2>1 DEF Option
  <2>3. CASE expires \in {option.expires : option \in page.options}
    BY <2>2, <2>3
  <2>4. CASE expires \in Expirations
    BY <2>4, InputsAssumption
  <2> QED
    BY <2>3, <2>4
<1>2. page.kind = "guest" => \/ page.lifetime = FileLifetimeInfinite
                             \/ expires <= now + page.lifetime
  BY DEF EntryPost, Accepts, GuestLifetimePermitted, ExpirationFromTime
<1>3. page.kind # "guest" => \/ isAdmin \/ row.maxLifetime = NULL
                             \/ expires <= now + row.maxLifetime * Day
  <2>1. ASSUME page.kind # "guest", ~isAdmin, row.maxLifetime # NULL
        PROVE  expires <= now + row.maxLifetime * Day
    <3>1. /\ ReadSettings.cap = row.maxLifetime * Day
          /\ ReadSettings.cap # FileLifetimeInfinite
      BY <2>1, ReadBack DEF Inv, TypeOK
    <3>2. expires <= ExpirationFromTime(ReadSettings.cap, now)
      BY <2>1, <3>1 DEF EntryPost, Accepts, LifetimePermitted
    <3> QED
      BY <3>1, <3>2 DEF ExpirationFromTime
  <2> QED
    BY <2>1
<1> QED
  BY <1>1, <1>2, <1>3, PostKeepsInv DEF EntryPost

LEMMA GuestPostsNoneKeepsInv ==
  ASSUME Inv, GuestPostsNone
  PROVE  Inv'
<1> DEFINE e == ExpirationFromTime(page.lifetime, now)
<1>1. page.kind = "guest" /\ Post(e)
  BY DEF GuestPostsNone
<1>2. page.lifetime \in Nat /\ now \in Nat
  BY <1>1, Links, Constants DEF Inv, Shown, TypeOK
<1>3. /\ page.lifetime = FileLifetimeInfinite => e = NeverExpire
      /\ page.lifetime # FileLifetimeInfinite => e = now + page.lifetime
  BY DEF ExpirationFromTime
<1> HIDE DEF e
<1>4. e \in Nat
  BY <1>2, <1>3, Never
<1>5. page.lifetime = FileLifetimeInfinite \/ e <= now + page.lifetime
  BY <1>2, <1>3, <1>4
<1> QED
  BY <1>1, <1>4, <1>5, PostKeepsInv

LEMMA InsertEntryKeepsInv ==
  ASSUME Inv, InsertEntry
  PROVE  Inv'
<1>1. UNCHANGED <<now, row, isAdmin, page, fresh>>
  BY DEF InsertEntry
<1>2. /\ upload' \in Upload /\ upload.op # "none"
      /\ upload'.expires = upload.expires /\ upload'.lifetime = upload.lifetime
      /\ upload'.changed = upload.changed
  <2>1. upload \in Upload
    BY DEF Inv, TypeOK
  <2> QED
    BY <2>1 DEF InsertEntry, Upload
<1>3. TypeOK'
  BY <1>1, <1>2 DEF Inv, TypeOK
<1>4. MadeFrom' /\ Shown' /\ (page.kind = "upload" => OneDefault(page.options))'
  BY <1>1 DEF Inv, MadeFrom, Shown, OneDefault, ReadSettings, DefaultLifetime,
     OfferedLifetimes, LifetimeOptions, HasLifetimeCap
<1>5. StoredWithinLimits'
  BY <1>1, <1>2 DEF Inv, StoredWithinLimits
<1> QED
  BY <1>3, <1>4, <1>5 DEF Inv

LEMMA UploadFailsKeepsInv ==
  ASSUME Inv, UploadFails
  PROVE  Inv'
<1>1. UNCHANGED <<now, row, isAdmin, page, fresh>> /\ upload' = NoUpload
  BY DEF UploadFails
<1>2. TypeOK'
  BY <1>1, NoPageTypes DEF Inv, TypeOK
<1>3. MadeFrom' /\ Shown' /\ (page.kind = "upload" => OneDefault(page.options))'
  BY <1>1 DEF Inv, MadeFrom, Shown, OneDefault, ReadSettings, DefaultLifetime,
     OfferedLifetimes, LifetimeOptions, HasLifetimeCap
<1>4. StoredWithinLimits'
  BY <1>1, NoPageTypes DEF StoredWithinLimits
<1> QED
  BY <1>2, <1>3, <1>4 DEF Inv

\* Time only adds to what is permitted.
LEMMA TickKeepsInv ==
  ASSUME Inv, Tick
  PROVE  Inv'
<1>1. UNCHANGED <<row, isAdmin, page, fresh, upload>>
  BY DEF Tick
<1>2. now \in Instants /\ now' \in Instants /\ now \in Nat /\ now' \in Nat /\ now <= now'
  BY Constants DEF Tick, Inv, TypeOK
<1>3. TypeOK'
  BY <1>1, <1>2 DEF Inv, TypeOK
<1>4. MadeFrom' /\ (page.kind = "upload" => OneDefault(page.options))'
  BY <1>1 DEF Inv, MadeFrom, OneDefault, ReadSettings, DefaultLifetime,
     OfferedLifetimes, LifetimeOptions, HasLifetimeCap
<1>5. Shown'
  <2>1. page.at \in Nat /\ page.at <= now
    BY Constants DEF Inv, Shown
  <2>2. page.at <= now'
    BY <1>2, <2>1
  <2> QED
    BY <1>1, <2>2 DEF Inv, Shown
<1>6. StoredWithinLimits'
  <2>1. upload.expires \in Nat /\ upload.lifetime \in Nat
    BY DEF Inv, TypeOK, Upload
  <2>2. upload.expires <= now + upload.lifetime =>
          upload.expires <= now' + upload.lifetime
    BY <1>2, <2>1
  <2>3. row.maxLifetime # NULL /\ upload.expires <= now + row.maxLifetime * Day =>
          upload.expires <= now' + row.maxLifetime * Day
    <3>1. row.maxLifetime # NULL => row.maxLifetime * Day \in Nat
      BY Rows, Ordered DEF Inv, TypeOK
    <3> DEFINE c == row.maxLifetime * Day
    <3> HIDE DEF c
    <3>2. c \in Nat /\ upload.expires <= now + c => upload.expires <= now' + c
      BY <1>2, <2>1
    <3> QED
      BY <3>1, <3>2 DEF c
  <2> QED
    BY <1>1, <2>2, <2>3 DEF Inv, StoredWithinLimits
<1> QED
  BY <1>3, <1>4, <1>5, <1>6 DEF Inv

LEMMA NextKeepsInv ==
  ASSUME Inv, [Next]_vars
  PROVE  Inv'
<1>1. ASSUME NEW payload, SettingsPut(payload)
      PROVE  Inv'
  BY <1>1, SettingsPutKeepsInv
<1>2. CASE SettingsGet
  BY <1>2, SettingsGetKeepsInv
<1>3. CASE MemberChanges
  BY <1>3, MemberChangesKeepsInv
<1>4. CASE UploadGet
  BY <1>4, UploadGetKeepsInv
<1>5. ASSUME NEW lifetime \in LinkLifetimes, GuestUploadGet(lifetime)
      PROVE  Inv'
  BY <1>5, GuestUploadGetKeepsInv
<1>6. CASE PageClosed
  BY <1>6, PageClosedKeepsInv
<1>7. ASSUME NEW expires \in {option.expires : option \in page.options} \cup Expirations,
             EntryPost(expires)
      PROVE  Inv'
  BY <1>7, EntryPostKeepsInv
<1>8. CASE GuestPostsNone
  BY <1>8, GuestPostsNoneKeepsInv
<1>9. CASE InsertEntry
  BY <1>9, InsertEntryKeepsInv
<1>10. CASE UploadFails
  BY <1>10, UploadFailsKeepsInv
<1>11. CASE Tick
  BY <1>11, TickKeepsInv
<1>12. CASE UNCHANGED vars
  BY <1>12 DEF vars, Inv, TypeOK, MadeFrom, Shown, OneDefault, StoredWithinLimits,
     ReadSettings, DefaultLifetime, OfferedLifetimes, LifetimeOptions,
     HasLifetimeCap
<1> QED
  BY <1>1, <1>2, <1>3, <1>4, <1>5, <1>6, <1>7, <1>8, <1>9, <1>10, <1>11, <1>12
  DEF Next

LEMMA Invariance == Spec => []Inv
BY InitInv, NextKeepsInv, PTL DEF Spec

-----------------------------------------------------------------------------
(***************************************************************************)
(* What a page offers                                                      *)
(***************************************************************************)

\* No offered lifetime runs out within its first day, less an hour.
LEMMA OfferedIsExpiration ==
  ASSUME now \in Instants, NEW at \in Instants, now + Hour + Second <= at + Day,
         NEW n \in Nat, n >= 1, n <= 36500
  PROVE  IsExpiration(Formatted(ExpirationFromTime(n * Day, at)))
<1> DEFINE x == ExpirationFromTime(n * Day, at)
           l == n * Day
           far == 65536 * Day
<1>1. /\ now \in Nat /\ at \in Nat /\ Hour \in Nat /\ Second \in Nat
      /\ Day \in Nat /\ Hour <= Day
  BY Constants
<1>2. /\ x \in Nat
      /\ n = 36500 => x = NeverExpire
      /\ n # 36500 => x = at + l
  BY Expiring
<1>3. l \in Nat /\ Day <= l /\ far \in Nat /\ Day <= far
  <2>1. 1 * Day = Day
    BY <1>1
  <2>2. 1 * Day <= l /\ l \in Nat
    BY Ordered
  <2>3. 1 * Day <= far /\ far \in Nat
    BY Ordered
  <2> QED
    BY <2>1, <2>2, <2>3
<1>4. NeverExpire \in Nat /\ now + far <= NeverExpire
      /\ Formatted(NeverExpire) = NeverExpire
  BY Never
<1>5. Formatted(x) \in Nat /\ x < Formatted(x) + Second
  BY <1>2, Moment
<1> HIDE DEF x, l, far, Formatted
<1>6. n = 36500 => Formatted(x) - now >= Hour
  BY <1>1, <1>2, <1>3, <1>4
<1>7. n # 36500 => Formatted(x) - now >= Hour
  BY <1>1, <1>2, <1>3, <1>5
<1> QED
  BY <1>6, <1>7 DEF IsExpiration, x

\* What a page for a guest link offers is within the link's lifetime, "never"
\* excepted.
LEMMA GuestOfferIsPermitted ==
  ASSUME now \in Instants, NEW at \in Instants, at <= now,
         NEW lifetime \in LinkLifetimes, NEW lt \in GuestLifetimes(lifetime)
  PROVE  LET e == Formatted(ExpirationFromTime(lt, at))
         IN  \/ GuestLifetimePermitted(e, lifetime)
             \/ e = NeverExpire /\ lifetime > FileLifetimeInfinite
<1>1. PICK n \in Nat : n >= 1 /\ n <= 36500 /\ lt = n * Day
  BY GuestOffered
<1> DEFINE x == ExpirationFromTime(lt, at)
           l == n * Day
<1>2. /\ now \in Nat /\ at \in Nat /\ lifetime \in Nat /\ lt <= lifetime
      /\ lt = l /\ l \in Nat
  BY <1>1, Constants, Links, GuestOffered, Ordered
<1>3. /\ x \in Nat
      /\ n = 36500 => x = NeverExpire
      /\ n # 36500 => x = at + l /\ at + l < NeverExpire
  BY <1>1, Expiring
<1>4. Formatted(x) \in Nat /\ Formatted(x) <= x
  BY <1>3, Moment
<1>5. n = 36500 => lt = FileLifetimeInfinite
  BY <1>1, Infinite
<1>6. NeverExpire \in Nat /\ Formatted(NeverExpire) = NeverExpire
      /\ FileLifetimeInfinite \in Nat
  BY Never, Infinite
<1>7. /\ lifetime = FileLifetimeInfinite =>
           ExpirationFromTime(lifetime, now) = NeverExpire
      /\ lifetime # FileLifetimeInfinite =>
           ExpirationFromTime(lifetime, now) = now + lifetime
  BY DEF ExpirationFromTime
<1> HIDE DEF x, l, Formatted, FileLifetimeInfinite, ExpirationFromTime
<1>8. \/ Formatted(x) <= ExpirationFromTime(lifetime, now)
      \/ Formatted(x) = NeverExpire /\ lifetime > FileLifetimeInfinite
  <2>1. CASE n = 36500
    BY <1>2, <1>3, <1>5, <1>6, <1>7, <2>1
  <2>2. CASE n # 36500
    BY <1>2, <1>3, <1>4, <1>6, <1>7, <2>2
  <2> QED
    BY <2>1, <2>2
<1> QED
  BY <1>8 DEF GuestLifetimePermitted, x

\* What the upload page offers a user is permitted to that user.
LEMMA UploadOfferIsPermitted ==
  ASSUME row \in Row, now \in Instants, NEW at \in Instants, at <= now,
         NEW lt \in OfferedLifetimes(ReadSettings)
  PROVE  LifetimePermitted(Formatted(ExpirationFromTime(lt, at)))
<1> DEFINE x == ExpirationFromTime(lt, at)
           c == row.maxLifetime
           m == c * Day
<1>1. CASE ~HasLifetimeCap(ReadSettings)
  BY <1>1 DEF HasLifetimeCap, LifetimePermitted
<1>2. CASE HasLifetimeCap(ReadSettings)
  <2>1. c # NULL
    BY <1>2, Offered
  <2>2. /\ ReadSettings.cap = m /\ ReadSettings.cap # FileLifetimeInfinite
        /\ c \in Nat /\ c <= 3650
    BY <2>1, ReadBack, Rows
  <2>3. PICK n \in Nat : n >= 1 /\ n <= 36500 /\ lt = n * Day /\ n <= c
    BY <1>2, Offered
  <2> DEFINE l == n * Day
  <2>4. l \in Nat /\ m \in Nat /\ l <= m
    BY <2>2, <2>3, Ordered
  <2>5. n # 36500
    BY <2>2, <2>3
  <2>6. x \in Nat /\ x = at + l /\ at + l < NeverExpire
    BY <2>3, <2>5, Expiring
  <2>7. Formatted(x) \in Nat /\ Formatted(x) <= x
    BY <2>6, Moment
  <2>8. now \in Nat /\ at \in Nat /\ NeverExpire \in Nat
    BY Constants, Never
  <2>9. ExpirationFromTime(ReadSettings.cap, now) = now + m
    BY <2>2 DEF ExpirationFromTime
  <2> HIDE DEF x, l, m, Formatted
  <2>10. Formatted(x) # NeverExpire /\ Formatted(x) <= now + m
    BY <2>4, <2>6, <2>7, <2>8
  <2> QED
    BY <2>9, <2>10 DEF LifetimePermitted, x
<1> QED
  BY <1>1, <1>2

-----------------------------------------------------------------------------
(***************************************************************************)
(* Theorems                                                                *)
(***************************************************************************)

\* What the settings, the page and the upload are.
THEOREM TypeCorrect == Spec => []TypeOK
BY Invariance, PTL DEF Inv

\* The settings page can be saved as it is without changing anything,
\* whatever an administrator had entered before.
THEOREM UntouchedFormIsFaithful == Spec => []SettingsFormIsFaithful
<1>1. ASSUME Inv PROVE SettingsFormIsFaithful
  <2>1. row \in Row /\ (page.kind = "settings" /\ fresh => page.form = FormOf(ReadSettings))
    BY <1>1 DEF Inv, TypeOK, MadeFrom
  <2> QED
    BY <2>1, FormOfSettings DEF SettingsFormIsFaithful
<1> QED
  BY <1>1, Invariance, PTL

\* Of all the lifetimes a page can offer, for all caps and defaults in days
\* and all lifetimes of guest links to the unit of time, the server refuses
\* none.
THEOREM OffersAreAccepted == Spec => []OfferedIsAccepted
<1>1. ASSUME Inv PROVE OfferedIsAccepted
  <2> SUFFICES ASSUME page.kind \in {"upload", "guest"}, fresh,
                      now + Hour + Second <= page.at + Day,
                      NEW option \in page.options
               PROVE  \/ Accepts(option.expires)
                      \/ /\ option.expires = NeverExpire
                         /\ page.lifetime > FileLifetimeInfinite
    BY DEF OfferedIsAccepted
  <2>1. row \in Row /\ now \in Instants /\ page.at \in Instants /\ page.at <= now
    BY <1>1 DEF Inv, TypeOK, Shown
  <2>2. CASE page.kind = "upload"
    <3>1. PICK lt \in OfferedLifetimes(ReadSettings) :
            option = OptionOf(lt, page.at, DefaultLifetime(ReadSettings))
      BY <1>1, <2>2 DEF Inv, MadeFrom
    <3>2. option.expires = Formatted(ExpirationFromTime(lt, page.at))
      BY <3>1 DEF OptionOf
    <3>3. \E n \in Nat : n >= 1 /\ n <= 36500 /\ lt = n * Day
      BY <2>1, Offered
    <3>4. IsExpiration(option.expires)
      BY <2>1, <3>2, <3>3, OfferedIsExpiration
    <3>5. LifetimePermitted(option.expires)
      BY <2>1, <3>2, UploadOfferIsPermitted
    <3> QED
      BY <2>2, <3>4, <3>5 DEF Accepts
  <2>3. CASE page.kind = "guest"
    <3>1. PICK lt \in GuestLifetimes(page.lifetime) :
            option = OptionOf(lt, page.at, page.lifetime)
      BY <1>1, <2>3 DEF Inv, MadeFrom
    <3>2. option.expires = Formatted(ExpirationFromTime(lt, page.at))
      BY <3>1 DEF OptionOf
    <3>3. page.lifetime \in LinkLifetimes
      BY <1>1, <2>3 DEF Inv, Shown
    <3>4. \E n \in Nat : n >= 1 /\ n <= 36500 /\ lt = n * Day
      BY <3>3, GuestOffered
    <3>5. IsExpiration(option.expires)
      BY <2>1, <3>2, <3>4, OfferedIsExpiration
    <3>6. \/ GuestLifetimePermitted(option.expires, page.lifetime)
          \/ option.expires = NeverExpire /\ page.lifetime > FileLifetimeInfinite
      BY <2>1, <3>2, <3>3, GuestOfferIsPermitted
    <3> QED
      BY <2>3, <3>5, <3>6 DEF Accepts
  <2> QED
    BY <2>2, <2>3
<1> QED
  BY <1>1, Invariance, PTL

\* The upload page preselects exactly one lifetime and offers the cap.
THEOREM OffersAreComplete == Spec => []UploadOffers
<1>1. ASSUME Inv PROVE UploadOffers
  <2> SUFFICES ASSUME page.kind = "upload" PROVE
         /\ OneDefault(page.options)
         /\ fresh /\ HasLifetimeCap(ReadSettings) =>
              \E option \in page.options :
                option.expires = Formatted(page.at + ReadSettings.cap)
    BY DEF UploadOffers, OneDefault
  <2>1. OneDefault(page.options)
    BY <1>1 DEF Inv
  <2>2. ASSUME fresh, HasLifetimeCap(ReadSettings)
        PROVE  \E option \in page.options :
                 option.expires = Formatted(page.at + ReadSettings.cap)
    <3> DEFINE cap == ReadSettings.cap
               option == OptionOf(cap, page.at, DefaultLifetime(ReadSettings))
    <3>1. cap \in OfferedLifetimes(ReadSettings) /\ cap # FileLifetimeInfinite
      BY <1>1, <2>2, Offered DEF Inv, TypeOK, HasLifetimeCap
    <3>2. option \in page.options
      BY <1>1, <2>2, <3>1 DEF Inv, MadeFrom
    <3>3. ExpirationFromTime(cap, page.at) = page.at + cap
      BY <3>1 DEF ExpirationFromTime
    <3>4. option.expires = Formatted(page.at + cap)
      BY <3>3 DEF OptionOf
    <3> HIDE DEF option
    <3> QED
      BY <3>2, <3>4
  <2> QED
    BY <2>1, <2>2
<1> QED
  BY <1>1, Invariance, PTL

\* What is stored expires within the limits, however long the upload takes.
THEOREM StoredFilesExpire == Spec => []StoredWithinLimits
BY Invariance, PTL DEF Inv

=============================================================================
