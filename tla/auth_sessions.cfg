\* Two requests race over one phone; Redis may fail, handlers and the process may die.
SPECIFICATION AuthSpec
CONSTANTS
  Users = {alice, bob}
  Phones = {p1}
  NoValue = NoValue
  Absent = Absent
  Keys <- MCKeys
  RedisFails = TRUE
  Connected = {"auth"}
  AuthReqs = {r1, r2}
  MaxAttempts = 1
  MaxSends = 2
  MaxTokens = 3
  MaxRestarts = 1
  Crashes = TRUE
SYMMETRY AuthSymmetry
INVARIANTS
  AuthTypeOK
  LoginsShareAccount
  CodeReusedOnlyByRace
  CounterExpires
  ForkedOnlyByRace
  AccessIsVerified
