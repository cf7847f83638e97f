----------------------------- MODULE DelayedWork -----------------------------
(***************************************************************************)
(* What the asynchronous side of Database promises its callers: an accepted *)
(* operation is executed at most once, operations of one order class are    *)
(* executed in the order in which they were accepted, and the callback of a *)
(* query is applied once, after the query was executed.                     *)
(***************************************************************************)
EXTENDS Naturals, Sequences, SequencesExt

CONSTANTS
    Operations,     \* the operations a caller may hand over
    Reads(_),       \* does the operation deliver a result to a callback
    Class(_)        \* its order class, or Unordered

Unordered == <<>>

VARIABLES
    accepted,       \* the operations in the order of acceptance
    executed,       \* positions in `accepted`, in the order of execution
    applied         \* positions in `accepted`, in the order of their callbacks

vars == <<accepted, executed, applied>>

Init == accepted = <<>> /\ executed = <<>> /\ applied = <<>>

Accept ==
    /\ \E o \in Operations : accepted' = Append(accepted, o)
    /\ UNCHANGED <<executed, applied>>

\* i has to wait for the earlier operations of its class.
MustFollow(i) ==
    {j \in 1 .. i - 1 : /\ Class(accepted[j]) = Class(accepted[i])
                        /\ Class(accepted[i]) # Unordered}

Perform(i) ==
    /\ i \notin Range(executed)
    /\ MustFollow(i) \subseteq Range(executed)
    /\ executed' = Append(executed, i)
    /\ UNCHANGED <<accepted, applied>>

Apply(i) ==
    /\ i \in Range(executed) \ Range(applied)
    /\ Reads(accepted[i])
    /\ applied' = Append(applied, i)
    /\ UNCHANGED <<accepted, executed>>

Next == Accept \/ \E i \in DOMAIN accepted : Perform(i) \/ Apply(i)

Spec == Init /\ [][Next]_vars
=============================================================================
