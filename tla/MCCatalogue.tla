----------------------------- MODULE MCCatalogue -----------------------------
(* An instance of Catalogue.  With two requests the second can refer to     *)
(* what the first created, or overlap with it; with two attempts a request  *)
(* can be repeated after a commit that took effect; two deletions reach     *)
(* both rows a subscription refers to.                                      *)
EXTENDS Catalogue
=============================================================================
