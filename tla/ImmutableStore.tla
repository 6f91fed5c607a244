--------------------------- MODULE ImmutableStore ---------------------------
(***************************************************************************)
(* What the run, dataset and model stores promise: a name is bound to one  *)
(* whole content in one step.  The binding first becomes visible, then     *)
(* durable; only a binding that is not yet durable can be lost, and only   *)
(* to a failure of the host.                                               *)
(***************************************************************************)
CONSTANTS
    Names,      \* content addresses
    Contents,   \* what a name may be bound to
    Unbound

VARIABLES
    content,    \* content[n]: what n is bound to, or Unbound
    durable     \* names whose binding survives a failure of the host

Init ==
    /\ content = [n \in Names |-> Unbound]
    /\ durable = {}

\* A binding appears; it never replaces another.
Bind(n) ==
    /\ content[n] = Unbound
    /\ \E c \in Contents : content' = [content EXCEPT ![n] = c]
    /\ UNCHANGED durable

Settle(n) ==
    /\ content[n] # Unbound
    /\ durable' = durable \cup {n}
    /\ UNCHANGED content

\* The host fails: any of the bindings that are not durable may be gone.
Fail ==
    /\ \E gone \in SUBSET (Names \ durable) :
        content' = [n \in Names |-> IF n \in gone THEN Unbound ELSE content[n]]
    /\ durable' = {n \in Names : content'[n] # Unbound}

Next == Fail \/ \E n \in Names : Bind(n) \/ Settle(n)

Spec == Init /\ [][Next]_<<content, durable>>
=============================================================================
