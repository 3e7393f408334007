\* Two submissions race, of one account or of two; handlers may crash.
SPECIFICATION KycSpec
CONSTANTS
  Users = {alice, bob}
  Phones = {p1, p2}
  NoValue = NoValue
  Connected = {"identity"}
  Fronts = {f1, f2}
  Backs = {b1}
  Selfies = {s1, s2}
  Passports = {f1, f2}
  Faces = {s1, s2}
  PassportOf <- MCPassportOf
  FaceOf <- MCFaceOf
  MockProvider = TRUE
  KycReqs = {r1, r2}
  MaxUploads <- MCMaxUploads
  Crashes = TRUE
SYMMETRY KycSymmetry
INVARIANTS
  KycTypeOK
  PassportOnce
  OneAccountPerIdentity
  SharedFaceOnlyByRace
  VerifiedIsLinked
  DuplicateIsReal
PROPERTY
  IdentityNeverReplaced
