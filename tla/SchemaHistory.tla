---------------------------- MODULE SchemaHistory ----------------------------
(***************************************************************************)
(* What the migration runner promises: the versions take effect one after  *)
(* the other, each exactly once, and a version is recorded in the same     *)
(* instant in which it takes effect.                                       *)
(***************************************************************************)
EXTENDS Naturals, Sequences

VARIABLES
    history,  \* the versions whose SQL took effect, in order
    recorded  \* the versions in schema_migrations

Init == history = <<>> /\ recorded = {}

\* The next version, counted in the order of the file names.
Apply ==
    LET v == Len(history) + 1 IN
    /\ history' = Append(history, v)
    /\ recorded' = recorded \cup {v}

Spec == Init /\ [][Apply]_<<history, recorded>>
=============================================================================
