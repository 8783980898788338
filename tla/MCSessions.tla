----------------------------- MODULE MCSessions -----------------------------
(* Instances of Sessions for TLC. *)
EXTENDS Sessions, TLC

SessionSymmetry == Permutations(Browser) \cup Permutations(Call)

\* Of an answer only what it does to the cookies is left: a 401 to a route that
\* does not clear them, and the kind of a request that was let in, are forgotten.
LeftOf(p) ==
    IF p = Idle \/ p.at \notin Answered \/ p.kind = "logout" \/ (p.kind = "login" /\ p.new # NoPair)
    THEN p
    ELSE [p EXCEPT !.kind = "request",
                   !.at = IF p.kind \in Clearing THEN @ ELSE "done"]

SessionView == <<tokens, clock, jar, rough, [c \in Call |-> LeftOf(call[c])]>>
=============================================================================
