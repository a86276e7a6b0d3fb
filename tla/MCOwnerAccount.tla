---------------------------- MODULE MCOwnerAccount ----------------------------
(* The two things that an owner does: signing in, and filing the dossier     *)
(* once signed in.  They share no state but the restaurant's existence, so   *)
(* the dossier is filed while the sign-in rests: one code has given tokens,  *)
(* and every key of it has expired.                                          *)
EXTENDS OwnerOtp, RestaurantDossier, TLC

OneOfEach == [w \in Ways |-> 1]

AccountSymmetry == Permutations(Requests) \cup Permutations(Codes)

\* What a first sign-in leaves behind.
IsSignedIn ==
    /\ owner = "created"
    /\ returned \in {{k} : k \in Codes}
    /\ code = NoKey /\ attempts = Zero /\ asked = [w \in Ways |-> Zero]
    /\ req = [r \in Requests |-> Idle]
    /\ orphans = {} /\ wrong = 0 /\ spared = FALSE /\ mixed = FALSE

AccountInit == DossierInit /\ (Init \/ IsSignedIn)

AccountNext ==
    \/ Next /\ DossierInit /\ UNCHANGED dossierVars
    \/ IsSignedIn /\ DossierNext /\ UNCHANGED vars

AccountSpec == AccountInit /\ [][AccountNext]_<<vars, dossierVars>>
===============================================================================
