---------------------------- MODULE MCLiveReload ----------------------------
(* LiveReload for TLC: a page made of dashboard.yml and a template, next   *)
(* to a README.md, whose extension is not watched.                         *)
EXTENDS LiveReload
==============================================================================
