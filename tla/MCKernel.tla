------------------------------ MODULE MCKernel ------------------------------
(* Instances of Kernel for TLC: some calls are the server's, the others are
   made by missions or by other vehicles. *)
EXTENDS Kernel, LawFiles

==============================================================================
