SPECIFICATION Spec
CONSTANTS
    good = good
    bad = bad
    none = none
    v = v
    w = w
    pack = pack
    Segments <- MCSegments
    Index <- MCIndex
    Values = {v, w, good, bad, pack, none}
    Requests <- MCRequests
    Expanded <- MCExpanded
    SecretKeys <- MCSecretKeys
    Secrets = {good}
    Redacted = bad
    NoValue = none
    NumberedIds = {"product_id1", "product_id2"}
    IdLike = {"product_idx"}
INVARIANTS TypeOK ReadInAnyOrder AllOrNothing BothCountsAgree
CHECK_DEADLOCK FALSE
