CONSTANTS
  Desktops = {one, two}
  Passwords = {"p"}
  Users = {"ann", "bob"}
  Reveals = {one, two}
  Domains = {one, two}
  Sites = {one, two}
  Execs = {one, two}
  CfAccounts = {one, two}
  MaxMint = 2
  MaxFaults = 1
  MaxKeys = 2
  MaxAccounts = 1
  MaxBlobs = 3
  MaxUpsets = 1
  MaxPushes = 2
  MaxCalls = 2
  MaxQuestions = 2
  MaxPanels = 2
  MaxSaves = 2
  MaxTime = 6
  MaxTests = 1
SPECIFICATION Spec
SYMMETRY Symm
INVARIANTS
  TypeOK
  KeysFit
  RecoveryWorks
  VaultIsTheUsers
  SecretsAreReferenced
  RunsAreGated
  PasswordsAreDelivered
  ZonesAreBound
  SetupTellsTheTruth
  HostKeysAreAsked
  FormsKeepEdits
  PanelIsOurs
  FactsAreCurrent
  ActionsAreAnnounced
  TestsAreTrue
CHECK_DEADLOCK FALSE
