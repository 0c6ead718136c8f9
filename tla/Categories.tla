----------------------------- MODULE Categories -----------------------------
(***************************************************************************)
(* The switches that decide whether a measurement is recorded: one flag    *)
(* runtime_enabled<Category> per category selected by the configuration    *)
(* (core/categories.cpp), and the state of the process (core/state.cpp).   *)
(* Both are read by every instrumented call and written by whoever calls   *)
(* enable_categories or disable_categories, one flag after the other and   *)
(* without a lock; so is the flag of the call-stack sampler, which         *)
(* sampling::block_samples and unblock_samples write.                      *)
(***************************************************************************)
EXTENDS Integers

CONSTANTS
    NumCategories,   \* get_enabled_categories().size()
    Actors           \* the threads that write the flags

ASSUME CategoriesAssumption == NumCategories \in Nat \ {0}

VARIABLES
    state,     \* get_state()
    enabled,   \* the categories whose flag is set
    sweep,     \* each actor's call of configure_categories: target and next flag
    samples    \* runtime_enabled<sampler_t>

catVars == <<state, enabled, sweep, samples>>

All == 1 .. NumCategories

CategoriesTypeOK ==
    /\ state \in {"Init", "Active", "Finalized"}
    /\ enabled \subseteq All
    /\ sweep \in [Actors -> [enable : BOOLEAN, next : 1 .. NumCategories + 1]]
    /\ samples \in BOOLEAN

\* The flags are set when the program starts.
CategoriesInit ==
    /\ state = "Init"
    /\ enabled = All
    /\ sweep = [a \in Actors |-> [enable |-> TRUE, next |-> NumCategories + 1]]
    /\ samples = TRUE

\* A wrong form of SweepFrom: the index sequence skips the first category.
SweepFromSecond(a, enable) ==
    sweep' = [sweep EXCEPT ![a] = [enable |-> enable, next |-> 2]]

\* Actor a calls configure_categories(enable, get_enabled_categories()).
SweepFrom(a, enable) ==
    sweep' = [sweep EXCEPT ![a] = [enable |-> enable, next |-> 1]]

\* The call has returned.
Swept(a) == sweep[a].next > NumCategories

\* A wrong form of SetFlag: one flag too many.
SetFlagTooFar(a) ==
    /\ sweep[a].next =< NumCategories + 1
    /\ enabled' = IF sweep[a].enable THEN enabled \cup {sweep[a].next}
                                     ELSE enabled \ {sweep[a].next}
    /\ sweep' = [sweep EXCEPT ![a].next = @ + 1]
    /\ UNCHANGED <<state, samples>>

\* trait::runtime_enabled<Category>::set(enable), for the next category.
SetFlag(a) ==
    /\ ~Swept(a)
    /\ enabled' = IF sweep[a].enable THEN enabled \cup {sweep[a].next}
                                     ELSE enabled \ {sweep[a].next}
    /\ sweep' = [sweep EXCEPT ![a].next = @ + 1]
    /\ UNCHANGED <<state, samples>>
=============================================================================
