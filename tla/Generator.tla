------------------------------ MODULE Generator -----------------------------
(***************************************************************************)
(* Generator of generator.hpp and a clone of it, and Person's use of it:   *)
(* an object made without an id takes one.  Ids have IdRange values and    *)
(* wrap around.                                                            *)
(***************************************************************************)
EXTENDS Integers, Sequences

CONSTANTS
    IdRange,    \* stands for 2^64
    Steps,      \* steps a generator is made or initialized with
    Starts      \* initial values

ASSUME GenAssumption ==
    IdRange \in Nat \ {0} /\ Steps \subseteq Nat /\ Starts \subseteq Nat

VARIABLES
    gen,        \* mdata of the generator
    copied,     \* mdata of the clone; the generator's own before there is one
    issued,     \* history: ids of get_id since the last initialize or set_value
    rewound     \* history: was the value ever set, or a clone asked?

genVars == <<gen, copied, issued, rewound>>

Data(v, s) == [minitial_value |-> v, mvalue |-> v, mstep |-> s]

GenInit ==
    /\ \E v \in Starts, s \in Steps : gen = Data(v, s)
    /\ copied = gen /\ issued = <<>> /\ rewound = FALSE

\* Mutant: the value before the step.
NextValue_Late(g) == g.mvalue

\* next()
NextValue(g) == (g.mvalue + g.mstep) % IdRange

\* get_id; the constructor of Person with a null id.
get_id ==
    /\ Len(issued) < IdRange
    /\ gen' = [gen EXCEPT !.mvalue = NextValue(gen)]
    /\ issued' = Append(issued, NextValue(gen))
    /\ UNCHANGED <<copied, rewound>>

\* set_value; read leaves the value of another generator too.
set_value(v) ==
    /\ gen' = [gen EXCEPT !.mvalue = v]
    /\ issued' = <<>> /\ rewound' = TRUE
    /\ UNCHANGED copied

gen_initialize(v, s) ==
    /\ gen' = Data(v, s)
    /\ issued' = <<>> /\ rewound' = TRUE
    /\ UNCHANGED copied

\* clone takes an id for the copy, which starts at the initial value again.
clone ==
    /\ Len(issued) < IdRange
    /\ gen' = [gen EXCEPT !.mvalue = NextValue(gen)]
    /\ issued' = Append(issued, NextValue(gen))
    /\ copied' = Data(gen.minitial_value, gen.mstep)
    /\ UNCHANGED rewound

\* An id of the clone, which goes to the same class of objects.
clone_get_id ==
    /\ Len(issued) < IdRange
    /\ copied' = [copied EXCEPT !.mvalue = NextValue(copied)]
    /\ issued' = Append(issued, NextValue(copied))
    /\ rewound' = TRUE
    /\ UNCHANGED gen

GenNext ==
    \/ get_id \/ clone \/ clone_get_id
    \/ \E v \in Starts : set_value(v)
    \/ \E v \in Starts, s \in Steps : gen_initialize(v, s)

GenSpec == GenInit /\ [][GenNext]_genVars

-----------------------------------------------------------------------------
\* Ids of one generator are unique until they have gone once around: as many
\* as IdRange / gcd(step, IdRange), as long as nobody sets the value back
\* or asks a clone, whose ids begin like the generator's own.
IdsUnique ==
    ~rewound =>
        \A i, j \in 1..Len(issued) :
            issued[i] = issued[j] => ((i - j) * gen.mstep) % IdRange = 0
=============================================================================
