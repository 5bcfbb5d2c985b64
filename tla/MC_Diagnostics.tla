--------------------------- MODULE MC_Diagnostics ---------------------------
(***************************************************************************)
(* Instances of Diagnostics for TLC: a warning and an error reported with  *)
(* and without a callback, and the tuples a Python program may unpickle.  *)
(***************************************************************************)
EXTENDS Diagnostics, TLC

Sev(v) == [kind |-> "Severity", val |-> v]
Cat(v) == [kind |-> "ErrorCategory", val |-> v]
PyText(m) == [kind |-> "str", val |-> m]

MCReports ==
    { [severity |-> "Warning", category |-> "QELinkSignatureWarning",
       message |-> "m1"],
      [severity |-> "Error", category |-> "QECompilerError",
       message |-> "m2"] }

\* A well-formed state, a short tuple, and a category that arithmetic on
\* the py::arithmetic enum turned into an int.
MCCrafted ==
    { << Sev("Fatal"), Cat("UncategorizedError"), PyText("m1") >>,
      << Sev("Error"), Cat("QECompilerError") >>,
      << Sev("Error"), [kind |-> "int", val |-> IntValue], PyText("m2") >> }

\* The same, and a category built as ErrorCategory(<no enumerator>).
MCCraftedOutOfRange ==
    MCCrafted \cup { << Sev("Error"), Cat(OutOfRange), PyText("m1") >> }
=============================================================================
