------------------------------ MODULE MCWebMail ------------------------------
(* The users, passwords and groups can change places. *)
EXTENDS WebMail

Symmetry ==
    Permutations(Users) \cup Permutations(Passwords) \cup Permutations(Groups)
        \cup Permutations(Browsers)
=============================================================================
