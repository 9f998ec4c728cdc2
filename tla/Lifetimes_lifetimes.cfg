\* Settings, roles and the clock change between a page, its post and the end
\* of the upload.
SPECIFICATION Spec
CONSTANTS
  Second = 2
  Hour = 4
  NeverExpire <- Year3000
  Instants <- Moments
  DefaultDays = {3, 400}
  CapDays = {2, 31}
  RetentionDays = {90}
  LinkLifetimes <- GuestLifetimesMC
  Expirations <- NamedExpirations
  NULL = NULL
INVARIANTS TypeOK SettingsFormIsFaithful OfferedIsAccepted UploadOffers StoredWithinLimits
