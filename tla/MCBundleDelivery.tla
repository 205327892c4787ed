--------------------------- MODULE MCBundleDelivery ---------------------------
(* Instances of BundleDelivery for TLC.                                      *)
EXTENDS BundleDelivery, TLC

RequestSymmetry == Permutations(Boot) \cup Permutations(Admin)
===============================================================================
