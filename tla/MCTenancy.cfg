\* Two requests, one change by an administrator, one lookup of a slug.
CONSTANTS
    u1 = u1
    u2 = u2
    c1 = c1
    c2 = c2
    s1 = s1
    e1 = e1
    t1 = t1
    r1 = r1
    r2 = r2
    Users = {u1, u2}
    Companies = {c1, c2}
    Slugs = {s1, s2}
    Events = {e1}
    Tiers = {t1}
    Requests = {r1, r2}
    Lookups = {l1}
    Statuses = {"draft"}
    MaxPlaces = 1
    MaxSaves = 1
    TTL = 1
    None = None
SPECIFICATION Spec
SYMMETRY RequestSymmetry
INVARIANTS
    DemotionLasts
    StaleIsBounded
PROPERTIES
    SavesOnlyWhatWasAsked
    TenantsApart
\* Each request is made once, and every change may have been made.
CHECK_DEADLOCK FALSE
