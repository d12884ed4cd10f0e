SPECIFICATION Spec
CONSTANTS
    f1 = f1
    f2 = f2
    u1 = u1
    u2 = u2
    Families = {f1, f2}
    Users = {u1, u2}
    ReaderOf <- MCReaderOf
    WriterOf <- MCWriterOf
    Options = {o1}
    Groups = {g1}
    Notes = {n1, n2}
    Reqs = {r1, r2}
    None = None
    Unset = Unset
PROPERTY
    WritersOnly
