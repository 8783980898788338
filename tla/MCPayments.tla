----------------------------- MODULE MCPayments -----------------------------
(* Small instances of Payments: one booking, requests that overlap. *)
EXTENDS Payments, TLC

RequestSymmetry ==
    Permutations(Marker) \cup Permutations(Refunder)
        \cup Permutations(Customer) \cup Permutations(Admin)
=============================================================================
