----------------------------- MODULE ForkGotcha -----------------------------
(***************************************************************************)
(* What happens around fork(): fork_gotcha.cpp.  The handlers are          *)
(* registered with pthread_atfork and called by the wrapper of fork() as   *)
(* well, so each of them runs twice per call; three plain flags are to let *)
(* only the first one through.                                             *)
(*                                                                         *)
(* A behaviour follows one process: at a fork it goes on in the parent or  *)
(* in the child, where only the forking thread exists.  The calls of the   *)
(* AMD SMI sampler that the handlers make are left out here.               *)
(***************************************************************************)
EXTENDS Categories

CONSTANTS
    Forkers,       \* the application threads that call fork()
    UseSampling    \* config::get_use_sampling()

ASSUME ForkersAssumption == Forkers \subseteq Actors /\ UseSampling \in BOOLEAN

VARIABLES
    prefork_lock, postfork_parent_lock, postfork_child_lock,
    fork,          \* where each thread's call of fork() is
    process        \* whether this is the root process or a child

lockVars == <<prefork_lock, postfork_parent_lock, postfork_child_lock>>
forkVars == <<lockVars, fork, process>>

Layers == {"gotcha", "atfork"}   \* who calls the handler
Handler == {"pre", "preBody", "preSwept", "preLocked", "preParent",
            "post", "postBody", "postSwept", "postLocked",
            "child", "childBody", "childSwept", "childLocked"}
ForkStages == (Handler \X Layers) \cup {<<"idle">>, <<"fork">>, <<"gone">>}

ForkTypeOK ==
    /\ {prefork_lock, postfork_parent_lock, postfork_child_lock} \subseteq BOOLEAN
    /\ fork \in [Forkers -> ForkStages]
    /\ process \in {"root", "child", "child that forked"}

ForkInit ==
    /\ prefork_lock = FALSE
    /\ postfork_parent_lock = FALSE
    /\ postfork_child_lock = FALSE
    /\ fork = [t \in Forkers |-> <<"idle">>]
    /\ process = "root"

ForkStep(t, from, to) ==
    /\ fork[t] = from
    /\ Swept(t)
    /\ fork' = [fork EXCEPT ![t] = to]
    /\ UNCHANGED process

\* Where a call goes when the handler `h' of layer `l' returns.
PreforkReturn(l) == IF l = "gotcha" THEN <<"pre", "atfork">> ELSE <<"fork">>
PostforkReturn(h, l) == IF l = "atfork" THEN <<h, "gotcha">> ELSE <<"idle">>

-----------------------------------------------------------------------------
(* prefork_setup *)

CallFork(t) ==
    /\ state # "Init"
    /\ ForkStep(t, <<"idle">>, <<"pre", "gotcha">>)
    /\ UNCHANGED <<catVars, lockVars>>

PreforkTest(t, l) ==
    /\ ForkStep(t, <<"pre", l>>, IF prefork_lock THEN PreforkReturn(l)
                                                 ELSE <<"preBody", l>>)
    /\ UNCHANGED <<catVars, lockVars>>

\* block_samples and disable_categories
PreforkBody(t, l) ==
    /\ ForkStep(t, <<"preBody", l>>, <<"preSwept", l>>)
    /\ samples' = IF UseSampling THEN FALSE ELSE samples
    /\ SweepFrom(t, FALSE)
    /\ UNCHANGED <<state, enabled, lockVars>>

PreforkLocks(t, l) ==
    /\ ForkStep(t, <<"preSwept", l>>, <<"preLocked", l>>)
    /\ prefork_lock' = TRUE
    /\ UNCHANGED <<catVars, postfork_parent_lock, postfork_child_lock>>

\* A wrong form of PreforkUnlocksParent: the flag keeps its value.
PreforkKeepsParent(t, l) ==
    /\ ForkStep(t, <<"preLocked", l>>, <<"preParent", l>>)
    /\ UNCHANGED <<catVars, lockVars>>

PreforkUnlocksParent(t, l) ==
    /\ ForkStep(t, <<"preLocked", l>>, <<"preParent", l>>)
    /\ postfork_parent_lock' = FALSE
    /\ UNCHANGED <<catVars, prefork_lock, postfork_child_lock>>

PreforkUnlocksChild(t, l) ==
    /\ ForkStep(t, <<"preParent", l>>, PreforkReturn(l))
    /\ postfork_child_lock' = FALSE
    /\ UNCHANGED <<catVars, prefork_lock, postfork_parent_lock>>

Prefork(t, l) ==
    \/ PreforkTest(t, l) \/ PreforkBody(t, l) \/ PreforkLocks(t, l)
    \/ PreforkUnlocksParent(t, l) \/ PreforkUnlocksChild(t, l)

-----------------------------------------------------------------------------
(* fork, and the handlers in the parent and in the child *)

\* The behaviour stays with the parent.
ForkInParent(t) ==
    /\ fork[t] = <<"fork">>
    /\ fork' = [fork EXCEPT ![t] = <<"post", "atfork">>]
    /\ process' = IF process = "root" THEN "root" ELSE "child that forked"
    /\ UNCHANGED <<catVars, lockVars>>

\* The behaviour goes on in the child, where no other thread exists.  A call of
\* configure_categories by another thread stays as it is in the copied memory.
ForkInChild(t) ==
    /\ fork[t] = <<"fork">>
    /\ process = "root"
    /\ process' = "child"
    /\ fork' = [u \in Forkers |-> IF u = t THEN <<"child", "atfork">> ELSE <<"gone">>]
    /\ sweep' = [a \in Actors |-> [sweep[a] EXCEPT !.next = NumCategories + 1]]
    /\ UNCHANGED <<state, enabled, samples, lockVars>>

PostforkParentTest(t, l) ==
    /\ ForkStep(t, <<"post", l>>, IF postfork_parent_lock THEN PostforkReturn("post", l)
                                                          ELSE <<"postBody", l>>)
    /\ UNCHANGED <<catVars, lockVars>>

\* enable_categories, whatever they were before the fork
PostforkParentBody(t, l) ==
    /\ ForkStep(t, <<"postBody", l>>, <<"postSwept", l>>)
    /\ SweepFrom(t, TRUE)
    /\ UNCHANGED <<state, enabled, samples, lockVars>>

\* unblock_samples, and the handler's own flag, in one step
PostforkParentLocks(t, l) ==
    /\ ForkStep(t, <<"postSwept", l>>, <<"postLocked", l>>)
    /\ samples' = IF UseSampling THEN TRUE ELSE samples
    /\ postfork_parent_lock' = TRUE
    /\ UNCHANGED <<state, enabled, sweep, prefork_lock, postfork_child_lock>>

\* A wrong form of PostforkParentUnlocks: the next fork finds the lock taken.
PostforkParentKeepsLock(t, l) ==
    /\ ForkStep(t, <<"postLocked", l>>, PostforkReturn("post", l))
    /\ UNCHANGED <<catVars, lockVars>>

PostforkParentUnlocks(t, l) ==
    /\ ForkStep(t, <<"postLocked", l>>, PostforkReturn("post", l))
    /\ prefork_lock' = FALSE
    /\ UNCHANGED <<catVars, postfork_parent_lock, postfork_child_lock>>

PostforkParent(t, l) ==
    \/ PostforkParentTest(t, l) \/ PostforkParentBody(t, l)
    \/ PostforkParentLocks(t, l) \/ PostforkParentUnlocks(t, l)

PostforkChildTest(t, l) ==
    /\ ForkStep(t, <<"child", l>>, IF postfork_child_lock THEN PostforkReturn("child", l)
                                                          ELSE <<"childBody", l>>)
    /\ UNCHANGED <<catVars, lockVars>>

\* A wrong form of PostforkChildBody: the state is inherited.
PostforkChildKeepsState(t, l) ==
    /\ ForkStep(t, <<"childBody", l>>, <<"childSwept", l>>)
    /\ SweepFrom(t, FALSE)
    /\ UNCHANGED <<state, enabled, samples, lockVars>>

\* set_state(Finalized) and categories::shutdown
PostforkChildBody(t, l) ==
    /\ ForkStep(t, <<"childBody", l>>, <<"childSwept", l>>)
    /\ state' = "Finalized"
    /\ SweepFrom(t, FALSE)
    /\ UNCHANGED <<enabled, samples, lockVars>>

PostforkChildLocks(t, l) ==
    /\ ForkStep(t, <<"childSwept", l>>, <<"childLocked", l>>)
    /\ postfork_child_lock' = TRUE
    /\ UNCHANGED <<catVars, prefork_lock, postfork_parent_lock>>

PostforkChildUnlocks(t, l) ==
    /\ ForkStep(t, <<"childLocked", l>>, PostforkReturn("child", l))
    /\ prefork_lock' = FALSE
    /\ UNCHANGED <<catVars, postfork_parent_lock, postfork_child_lock>>

PostforkChild(t, l) ==
    \/ PostforkChildTest(t, l) \/ PostforkChildBody(t, l)
    \/ PostforkChildLocks(t, l) \/ PostforkChildUnlocks(t, l)

ForkRuns(t) ==
    \/ \E l \in Layers : Prefork(t, l) \/ PostforkParent(t, l) \/ PostforkChild(t, l)
    \/ ForkInParent(t)
=============================================================================
