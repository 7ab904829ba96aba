SPECIFICATION Spec
CONSTANTS
    ann = ann
    Ann = Ann
    bob = bob
    ann_canonical = ann_canonical
    bob_canonical = bob_canonical
    Addresses = {ann, Ann, bob}
    EmailOf <- MCEmailOf
    Passwords = {pw1, pw2}
    Ids = {u1, u2, u3}
    Callers = {c1, c2}
    Persistence = "inmemory"
    NoUser = NoUser
    MaxCrashes = 0
SYMMETRY Interchangeable
INVARIANTS
    DuplicateIsConflict
