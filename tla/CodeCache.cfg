\* Three pages of two bytes, of which two can have a handler, and a cache with
\* room for one large block or two small ones; four structures are all it can use.
SPECIFICATION CodeSpec
CONSTANTS
    Pages        = {p, q, r}
    PageEnd      = 1
    HashSize     = 1
    Blocks       = {1, 2, 3, 4}
    CacheTotal   = 3
    CacheMaxSize = 2
    CacheAlign   = 1
    CachePages   = 2
    ReleaseDelay = 1
    LinkIds      = {1}
    LinkBlock    = LinkBlock
    None         = None
SYMMETRY PageSymmetry
INVARIANTS CacheSound LinksLead CodeIsCurrent
CHECK_DEADLOCK FALSE
