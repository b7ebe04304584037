SPECIFICATION Spec
CONSTANTS
    Cpu = {c1, c2}
    Page = {p1, p2, p3}
    objects_per_slab = 2
INVARIANTS ObjectsAccounted SlabsFiled
SYMMETRY Sym
