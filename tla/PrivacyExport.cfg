\* One request with any URL and handler, or one Export and five calls on it.
CONSTANTS
    Names = {"users", "grades", "../keys"}
    Invalid = {"../keys"}
    MaxCalls = 5
    URLs <- MCURLs
    AllowedHosts <- MCAllowedHosts
SPECIFICATION Spec
INVARIANTS TypeOK StoredWhole AnswerTruthful SentToAllowedHost
PROPERTIES Frozen FileRemoved
\* One export, which ends.
CHECK_DEADLOCK FALSE
