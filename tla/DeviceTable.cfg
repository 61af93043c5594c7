SPECIFICATION Spec
CONSTANTS
    i1 = i1
    i2 = i2
    p = p
    q = q
    s = s
    u = u
    Nobody = Nobody
    None = None
    Instances <- TwoInstances
    Devices = {1}
    Products <- TwoProducts
    Specs <- TwoSpecs
    Latest = 4
    MaxPages = 2
SYMMETRY Symmetry
INVARIANTS Coherent SchemaWhole MissingWasGone
