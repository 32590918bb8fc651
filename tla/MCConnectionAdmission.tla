----------------------- MODULE MCConnectionAdmission -----------------------
(* ConnectionAdmission on small sets of interchangeable sockets.           *)
EXTENDS ConnectionAdmission, TLC

ConnSymmetry == Permutations(Conns)
=============================================================================
