--------------------------- MODULE MCResearchLog ---------------------------
(***************************************************************************)
(* TLC instances of ResearchLog.  The registrations: a complete post-hoc   *)
(* selection of two, one of the second schema, one with a malformed field, *)
(* one with parameters keyed by instrument, and one of the first schema, a *)
(* post-hoc selection without a universe.                                  *)
(***************************************************************************)
EXTENDS ResearchLog, TLC

Form(rule, size, rest, v3, keyed) ==
  [rule |-> rule, size |-> size, rest |-> rest, v3 |-> v3, keyed |-> keyed]

MCForms == {Form("post_hoc", 2, TRUE, "given", FALSE),
            Form("pooled", 1, TRUE, "missing", TRUE),
            Form("pooled", 2, TRUE, "malformed", FALSE),
            Form("pooled", 2, TRUE, "given", TRUE),
            Form("post_hoc", 0, FALSE, "missing", FALSE)}

WriterSymmetry == Permutations(Writers) \union Permutations(Hypotheses)
============================================================================
