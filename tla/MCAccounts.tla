----------------------------- MODULE MCAccounts -----------------------------
(* A small instance of Accounts.  Every two kinds of request that write the  *)
(* same row are together in a mix.                                           *)
EXTENDS Accounts, TLC

AccountSymmetry == Permutations(User) \cup Permutations(Process)

AccountMixes ==
    { {"register", "verify", "decide", "hour", "restart"},
      {"register", "verify", "decide", "profile", "password"},
      {"register", "verify", "decide", "forgot", "restart"},
      {"register", "verify", "forgot", "hour"},
      {"register", "verify", "profile", "password", "forgot"},
      {"staff", "profile", "password", "forgot", "restart"} }
=============================================================================
