\* Two setups and a task around one slice in any state, and two disturbances.
CONSTANTS
    s1 = s1
    s2 = s2
    t1 = t1
    Setup = {s1, s2}
    Task = {t1}
    Explicit = {"none", "slice", "elsewhere"}
    MaxDisturb = 2
\* The setups and the task have ended.
CHECK_DEADLOCK FALSE
SPECIFICATION Spec
SYMMETRY Symmetry
INVARIANTS
    NeverQuietlyUncapped
    SetupsDelegate
