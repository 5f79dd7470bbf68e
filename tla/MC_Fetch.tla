------------------------------ MODULE MC_Fetch ------------------------------
(***************************************************************************)
(* Model-checking instance of Fetch.  The constants are given small sets   *)
(* in each .cfg, chosen per question: header filtering needs rich          *)
(* response headers and little else; redirects, ports and retries need     *)
(* rich URLs and statuses and no headers.                                  *)
(***************************************************************************)
EXTENDS Fetch

(* The redirect chain and the 421 retry bound the behaviour; this keeps    *)
(* the checker from exploring a mutant that removes those bounds forever.  *)
MCConstraint == hops <= RedirectLimit + 1 /\ attempts <= 3
=============================================================================
