----------------------------- MODULE MCAdmission -----------------------------
(* Three concurrent callers, four URLs and room for one: all may pass the  *)
(* gate before any of them commits, and a gate that let more pass would be *)
(* seen to.                                                                *)
EXTENDS Admission

CONSTANTS c1, c2, c3, a, b, d, e
=============================================================================
