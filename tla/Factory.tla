------------------------------- MODULE Factory ------------------------------
(***************************************************************************)
(* The factories of factory.hpp.  Objects are numbers in the order of      *)
(* their creation.  std::shared_ptr is modelled by its owners: the pool,   *)
(* the copies that clients hold, and the copy on the heap that             *)
(* PoolFactory::get makes and never deletes.                               *)
(***************************************************************************)
EXTENDS Integers, Sequences, FiniteSets, FiniteSetsExt

CONSTANTS
    PoolSizes,      \* sizes a pool is made or reset with
    RefillSizes,    \* refill sizes
    MaxObjects      \* bound: objects ever created

ASSUME FactoryAssumption ==
    /\ MaxObjects \in Nat \ {0}
    /\ PoolSizes \subseteq 0..MaxObjects /\ RefillSizes \subseteq Nat

VARIABLES
    kind,       \* "new", "mockup", "pool" or "singleton"
    made,       \* number of objects created
    pool,       \* the sequence of the pool's objects
    available,  \* available_count
    refill,     \* refill_size
    leaked,     \* by object: heap copies of its pointer
    clients,    \* by object: pointers that clients hold
    dead,       \* objects that were deleted
    stuck       \* has get called itself without end?

factoryVars == <<kind, made, pool, available, refill, leaked, clients, dead, stuck>>

Objects == 1..MaxObjects

Uses(p, o) == Cardinality({i \in DOMAIN p : p[i] = o}) + leaked[o] + clients[o]

\* The constructors.
FactoryInit ==
    /\ kind \in {"new", "mockup", "pool", "singleton"}
    /\ available \in IF kind = "pool" THEN PoolSizes ELSE {0}
    /\ pool = [i \in 1..available |-> i]
    /\ refill \in IF kind = "pool" THEN RefillSizes ELSE {0}
    /\ made = IF kind \in {"mockup", "singleton"} THEN 1 ELSE available
    /\ leaked = [o \in Objects |-> 0] /\ clients = [o \in Objects |-> 0]
    /\ dead = {} /\ stuck = FALSE

\* NewFactory::get, and clone
new_get ==
    /\ kind = "new" /\ made < MaxObjects
    /\ made' = made + 1
    /\ clients' = [clients EXCEPT ![made + 1] = 1]
    /\ UNCHANGED <<kind, pool, available, refill, leaked, dead, stuck>>

Shared ==
    /\ clients[1] < 2
    /\ clients' = [clients EXCEPT ![1] = @ + 1]
    /\ UNCHANGED <<kind, made, pool, available, refill, leaked, dead, stuck>>

\* MockupFactory::get makes another owner of the raw pointer.
mockup_get == kind = "mockup" /\ Shared

\* SingletonFactory::get copies the pointer it keeps; the arguments are not
\* used.
singleton_get == kind = "singleton" /\ Shared

\* fill_pool and add: n new objects at the end of p.
Added(p, n) == p \o [i \in 1..n |-> made + i]

Available(p) == {i \in DOMAIN p : Uses(p, p[i]) < 2}

\* * new (std::shared_ptr<T>) (ptr)
HeapCopies == 1

\* Mutant: the first object of the pool, in use or not.
Take_First(p, n) ==
    /\ available' = n - 1
    /\ leaked' = [leaked EXCEPT ![p[1]] = @ + HeapCopies]
    /\ clients' = [clients EXCEPT ![p[1]] = @ + 1]

Take(p, n) ==
    LET o == p[Min(Available(p))]
    IN  /\ available' = n - 1
        /\ leaked' = [leaked EXCEPT ![o] = @ + HeapCopies]
        /\ clients' = [clients EXCEPT ![o] = @ + 1]

\* PoolFactory::get: the first available object, after a refill if there is
\* none; with a refill of 0 it calls itself for ever.
pool_get ==
    /\ kind = "pool" /\ ~stuck
    /\ IF Available(pool) # {}
       THEN /\ Take(pool, available)
            /\ UNCHANGED <<made, pool, stuck>>
       ELSE IF refill = 0
            THEN stuck' = TRUE /\ UNCHANGED <<made, pool, available, leaked, clients>>
            ELSE /\ made + refill <= MaxObjects
                 /\ made' = made + refill
                 /\ pool' = Added(pool, refill)
                 /\ Take(Added(pool, refill), available + refill)
                 /\ UNCHANGED stuck
    /\ UNCHANGED <<kind, refill, dead>>

\* reset
pool_reset(n, r) ==
    /\ kind = "pool" /\ ~stuck /\ made + n <= MaxObjects
    /\ pool' = Added(<<>>, n) /\ made' = made + n
    /\ available' = n /\ refill' = r
    /\ dead' = dead \cup {pool[i] : i \in {j \in DOMAIN pool : Uses(<<>>, pool[j]) = 0}}
    /\ UNCHANGED <<kind, leaked, clients, stuck>>

set_refill_size(r) ==
    /\ kind = "pool" /\ refill' = r
    /\ UNCHANGED <<kind, made, pool, available, leaked, clients, dead, stuck>>

\* A client's pointer goes out of scope.  Every pointer of a MockupFactory
\* believes to be the only owner.
release(o) ==
    /\ clients[o] > 0
    /\ clients' = [clients EXCEPT ![o] = @ - 1]
    /\ dead' = IF kind = "mockup" \/ (kind # "singleton" /\ Uses(pool, o) = 1)
               THEN dead \cup {o} ELSE dead
    /\ UNCHANGED <<kind, made, pool, available, refill, leaked, stuck>>

FactoryNext ==
    \/ new_get \/ mockup_get \/ singleton_get \/ pool_get
    \/ \E n \in PoolSizes, r \in RefillSizes : pool_reset(n, r)
    \/ \E r \in RefillSizes : set_refill_size(r)
    \/ \E o \in Objects : release(o)

FactorySpec == FactoryInit /\ [][FactoryNext]_factoryVars

-----------------------------------------------------------------------------
\* available_count is the number of objects that get could hand out, in
\* every state; so it never falls below zero and the assertion of get holds.
\* It is exact only because no object ever comes back: the copy on the heap
\* keeps every object that was handed out in use.
AvailableExact ==
    kind = "pool" =>
        /\ available = Cardinality(Available(pool))
        /\ \A i \in DOMAIN pool : leaked[pool[i]] = 0 => clients[pool[i]] = 0

\* An object of a pool or of a NewFactory has one holder at most, and an
\* object that is held is not deleted.  (Two pointers of a MockupFactory
\* delete the object twice.)
HeldAlone ==
    \A o \in Objects :
        /\ kind \in {"new", "pool"} => clients[o] <= 1
        /\ clients[o] > 0 /\ kind # "mockup" => o \notin dead

\* The factories count what they have and hand out nothing twice.
FactoryExact == AvailableExact /\ HeldAlone
=============================================================================
