SPECIFICATION MCSpec
CONSTANTS
    Clients = {c1, c2}
    Keys = {k1, k2}
    Files = {f1, f2}
    Readable = {f1}
    Truncated = Truncated
    Slots = {s1, s2}
    MaxObjects = 2
    MaxPublications = 2
    None = None
    Users = {u1}
    CreationKeys = {q1}
    Titles = {t1, t2}
    CourseIds = {x1, x2}
    Requests = {r1, r2, r3}
    NoKey = NoKey
    Instances = {i1, i2}
    MaxCreated = 2
    MaxMishaps = 4
    Null = Null
SYMMETRY Symmetry
INVARIANTS
    OneUploadPerKey OneConfirmation JudgedAsConfirmed
    OneCoursePerKey
    NoSecondCreate NothingForgotten SubjectsKeepData ConfiguredHasState
PROPERTY NoLostPublication
