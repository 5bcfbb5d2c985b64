---------------------------- MODULE Diagnostics ----------------------------
(***************************************************************************)
(* Diagnostics (errors.cpp, src/unnamed/part_001 1-138) and their Python   *)
(* bindings (src/python_lib/qe_compiler/lib_enums.cpp).                    *)
(*                                                                         *)
(* emitDiagnostic hands a Diagnostic to the optional callback and then     *)
(* returns an llvm::Error carrying its code and Diagnostic::toString().    *)
(* On the Python side the callback keeps the Diagnostic objects it is      *)
(* given; Python may str() them, and pickle and unpickle them through the  *)
(* py::pickle pair of addDiagnostic, or unpickle any tuple it builds.      *)
(*                                                                         *)
(* A Python enum value is a record [kind, val]: kind is the Python type    *)
(* ("Severity", "ErrorCategory", "str", "int") and val the enumerator.     *)
(* py::enum_ also lets Python build an enum from an integer that is no     *)
(* enumerator (ErrorCategory(99)); its val is the model value OutOfRange.  *)
(***************************************************************************)
EXTENDS Naturals, Sequences

CONSTANTS
    Messages,    \* message texts
    Codes,       \* std::error_code values passed to emitDiagnostic
    OutOfRange,  \* an enum value that is no enumerator
    IntValue,    \* an int Python computed from enum values (py::arithmetic)
    Reports,     \* the Diagnostics C++ code reports in this instance
    Crafted,     \* tuples a Python program may pass to __setstate__
    MaxReports   \* bound on emitDiagnostic calls

\* getSeverityAsString (part_001 92-105).
SeverityText ==
    [Info |-> "Info", Warning |-> "Warning", Error |-> "Error",
     Fatal |-> "Fatal"]

\* getErrorCategoryAsString (part_001 34-90).
CategoryText ==
    [OpenQASM3ParseFailure |-> "OpenQASM 3 parse error",
     QECompilerError |-> "Unknown compiler error",
     QECompilerNoInputError |-> "Error when no input file or string is provided",
     QECompilerCommunicationFailure |-> "Error on compilation communication failure",
     QECompilerEOFFailure |-> "EOF Error",
     QECompilerNonZeroStatus |-> "Errored because non-zero status is returned",
     QECompilerSequenceTooLong |-> "Input sequence is too long",
     QECompilationFailure |-> "Failure during compilation",
     QELinkerNotImplemented |-> "BindArguments not implemented for target",
     QELinkSignatureWarning |-> "Signature file format is invalid but may be processed",
     QELinkSignatureError |-> "Signature file format is invalid",
     QELinkAddressError |-> "Signature address is invalid",
     QELinkSignatureNotFound |-> "Signature file not found",
     QELinkArgumentNotFoundWarning |-> "Parameter in signature not found in arguments",
     QELinkInvalidPatchTypeError |-> "Invalid patch point type",
     QEControlSystemResourcesExceeded |-> "Control system resources exceeded",
     UncategorizedError |-> "Compilation failure"]

Severities == DOMAIN SeverityText
ErrorCategories == DOMAIN CategoryText

\* A Diagnostic built by C++ code, from enumerators.
Diagnostic ==
    [severity : Severities, category : ErrorCategories, message : Messages]

\* addSeverity / addErrorCategory (lib_enums.cpp 14-57): the Python values
\* of the two enum types, including those built from a non-enumerator.
PySeverity == [kind : {"Severity"}, val : Severities \cup {OutOfRange}]
PyErrorCategory ==
    [kind : {"ErrorCategory"}, val : ErrorCategories \cup {OutOfRange}]
PyStr == [kind : {"str"}, val : Messages]
PyInt == [kind : {"int"}, val : {IntValue}]
PyValue == PySeverity \cup PyErrorCategory \cup PyStr \cup PyInt

\* A Diagnostic object as Python can hold one (def_readonly fields).
PyDiagnostic ==
    [severity : Severities \cup {OutOfRange},
     category : ErrorCategories \cup {OutOfRange}, message : Messages]

ASSUME DiagnosticsAssumption ==
    /\ OutOfRange \notin Severities \cup ErrorCategories
    /\ IntValue \notin Severities \cup ErrorCategories \cup {OutOfRange}
    /\ Reports \subseteq Diagnostic
    /\ Crafted \subseteq Seq(PyValue)
    /\ MaxReports \in Nat

\* Diagnostic::toString (part_001 111-120): "<severity>: <category>\n<message>".
toString(d) ==
    SeverityText[d.severity] \o ": " \o CategoryText[d.category] \o "\n"
        \o d.message

\* A value toString can format without reaching llvm_unreachable.
Printable(d) ==
    d.severity \in Severities /\ d.category \in ErrorCategories

Texts == {toString(d) : d \in Diagnostic}

\* Mutant: the state tuple lists the category before the severity.
GetStateSwapped(d) ==
    << [kind |-> "ErrorCategory", val |-> d.category],
       [kind |-> "Severity", val |-> d.severity],
       [kind |-> "str", val |-> d.message] >>

\* __getstate__ (lib_enums.cpp 66-69).
GetState(d) ==
    << [kind |-> "Severity", val |-> d.severity],
       [kind |-> "ErrorCategory", val |-> d.category],
       [kind |-> "str", val |-> d.message] >>

\* __setstate__ (lib_enums.cpp 70-80): the size check, then the three
\* casts, each of which raises pybind11::cast_error on a value of another
\* type; an enum value is not checked against the enumerators.
NoDiagnostic == [severity |-> OutOfRange, category |-> OutOfRange,
                 message |-> OutOfRange]
\* Mutant: the category is taken without its cast.
SetStateNoCategoryCast(t) ==
    IF Len(t) # 3
    THEN [exc |-> "runtime_error", diag |-> NoDiagnostic]
    ELSE IF ~ (t[1].kind = "Severity" /\ t[3].kind = "str")
    THEN [exc |-> "cast_error", diag |-> NoDiagnostic]
    ELSE [exc |-> "none",
          diag |-> [severity |-> t[1].val, category |-> t[2].val,
                    message |-> t[3].val]]
SetState(t) ==
    IF Len(t) # 3
    THEN [exc |-> "runtime_error", diag |-> NoDiagnostic]
    ELSE IF ~ /\ t[1].kind = "Severity"
              /\ t[2].kind = "ErrorCategory"
              /\ t[3].kind = "str"
    THEN [exc |-> "cast_error", diag |-> NoDiagnostic]
    ELSE [exc |-> "none",
          diag |-> [severity |-> t[1].val, category |-> t[2].val,
                    message |-> t[3].val]]

VARIABLES
    sink,     \* the Diagnostics the callback has received, in order
    errors,   \* the llvm::Errors emitDiagnostic returned, in order
    held,     \* the Diagnostic objects Python holds
    printed,  \* the texts str() has returned to Python
    raised,   \* the exceptions __setstate__ has raised
    aborted   \* llvm_unreachable was reached

vars == <<sink, errors, held, printed, raised, aborted>>

TypeOK ==
    /\ sink \in Seq(Diagnostic)
    /\ errors \in Seq([code : Codes, text : Texts, callback : BOOLEAN])
    /\ held \subseteq PyDiagnostic
    /\ printed \subseteq Texts
    /\ raised \subseteq {"runtime_error", "cast_error"}
    /\ aborted \in BOOLEAN

Init ==
    /\ sink = <<>>
    /\ errors = <<>>
    /\ held = {}
    /\ printed = {}
    /\ raised = {}
    /\ aborted = FALSE

\* emitDiagnostic (part_001 122-136): the callback first, when there is
\* one, then the error; cb says whether a (Python) callback was passed.
EmitDiagnostic(cb, d, ec) ==
    /\ sink' = IF cb THEN Append(sink, d) ELSE sink
    /\ held' = IF cb THEN held \cup {d} ELSE held
    /\ errors' = Append(errors, [code |-> ec, text |-> toString(d),
                                 callback |-> cb])

Report(cb, d, ec) ==
    /\ ~aborted
    /\ Len(errors) < MaxReports
    /\ EmitDiagnostic(cb, d, ec)
    /\ UNCHANGED <<printed, raised, aborted>>

\* Python unpickles a tuple: one pickled from a held Diagnostic, or one of
\* its own making.
Unpickle(t) ==
    /\ ~aborted
    /\ LET r == SetState(t) IN
         IF r.exc = "none"
         THEN held' = held \cup {r.diag} /\ UNCHANGED raised
         ELSE raised' = raised \cup {r.exc} /\ UNCHANGED held
    /\ UNCHANGED <<sink, errors, printed, aborted>>

\* Python calls str() on a held Diagnostic (__str__ is toString).
Str(d) ==
    /\ ~aborted
    /\ IF Printable(d)
       THEN printed' = printed \cup {toString(d)} /\ UNCHANGED aborted
       ELSE aborted' = TRUE /\ UNCHANGED printed
    /\ UNCHANGED <<sink, errors, held, raised>>

Next ==
    \/ \E cb \in BOOLEAN, d \in Reports, ec \in Codes : Report(cb, d, ec)
    \/ \E t \in {GetState(d) : d \in held} \cup Crafted : Unpickle(t)
    \/ \E d \in held : Str(d)

Spec == Init /\ [][Next]_vars

(***************************************************************************)
(* Properties.                                                             *)
(***************************************************************************)

\* The py::pickle pair: unpickling the state of any Diagnostic Python holds
\* gives back that same Diagnostic.
PickleRoundTrip ==
    \A d \in held : SetState(GetState(d)) = [exc |-> "none", diag |-> d]

\* Python can never drive Diagnostic::toString into llvm_unreachable: every
\* str() of a Diagnostic object returns its text.
NoUnreachable == ~aborted

=============================================================================
