------------------------------ MODULE Nullable ------------------------------
(***************************************************************************)
(* None stands for Python's None and SQL's NULL wherever the code lets a   *)
(* value be missing.                                                       *)
(***************************************************************************)
EXTENDS Integers

CONSTANT None

ASSUME NoneAssumption == None \notin Int

Optional(S) == S \cup {None}

\* COALESCE of two values.
OrElse(value, default) == IF value = None THEN default ELSE value

=============================================================================
