--------------------------- MODULE MCAuthSession ---------------------------
(* Two browsers and two users, two logins.                                 *)
EXTENDS AuthSession, TLC

(* Browsers and users are interchangeable.                                 *)
Symmetry == Permutations(Browsers) \cup Permutations(Users)
=============================================================================
