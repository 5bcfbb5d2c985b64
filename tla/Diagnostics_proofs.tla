------------------------ MODULE Diagnostics_proofs ------------------------
(***************************************************************************)
(* Proofs about the Python pickling of Diagnostics, for every set of       *)
(* messages, codes, reported diagnostics and hand-made tuples.             *)
(***************************************************************************)
EXTENDS Diagnostics, SequenceTheorems, TLAPS

\* __setstate__ undoes __getstate__ on every Diagnostic object, those whose
\* enums are no enumerator included.
LEMMA RoundTrip ==
    \A d \in PyDiagnostic : SetState(GetState(d)) = [exc |-> "none", diag |-> d]
<1> TAKE d \in PyDiagnostic
<1>1. Len(GetState(d)) = 3
    BY DEF GetState
<1>2. /\ GetState(d)[1].kind = "Severity"
      /\ GetState(d)[2].kind = "ErrorCategory"
      /\ GetState(d)[3].kind = "str"
    BY DEF GetState
<1>3. d = [severity |-> GetState(d)[1].val, category |-> GetState(d)[2].val,
           message |-> GetState(d)[3].val]
    BY DEF GetState, PyDiagnostic
<1> QED BY <1>1, <1>2, <1>3 DEF SetState

\* The three elements of a triple drawn from Seq(S) are in S.
LEMMA TripleElems ==
    ASSUME NEW S, NEW t \in Seq(S), Len(t) = 3
    PROVE  t[1] \in S /\ t[2] \in S /\ t[3] \in S
<1>1. {1, 2, 3} \subseteq 1..Len(t)
    OBVIOUS
<1> QED BY <1>1, ElementOfSeq

\* What __setstate__ returns without raising is a Diagnostic object.
LEMMA SetStateTyped ==
    \A t \in Seq(PyValue) :
        SetState(t).exc = "none" => SetState(t).diag \in PyDiagnostic
<1> TAKE t \in Seq(PyValue)
<1> HAVE SetState(t).exc = "none"
<1>1. /\ Len(t) = 3
      /\ t[1].kind = "Severity"
      /\ t[2].kind = "ErrorCategory"
      /\ t[3].kind = "str"
    BY DEF SetState
<1>2. t[1] \in PyValue /\ t[2] \in PyValue /\ t[3] \in PyValue
    BY <1>1, TripleElems
<1>3. /\ t[1] \in PySeverity
      /\ t[2] \in PyErrorCategory
      /\ t[3] \in PyStr
    BY <1>1, <1>2 DEF PyValue, PySeverity, PyErrorCategory, PyStr, PyInt
<1> QED BY <1>1, <1>3 DEF SetState, PyDiagnostic, PySeverity,
                          PyErrorCategory, PyStr

\* The pickled state of a Diagnostic object is a tuple of Python values.
LEMMA GetStateTyped == \A d \in PyDiagnostic : GetState(d) \in Seq(PyValue)
BY DEF GetState, PyDiagnostic, PyValue, PySeverity, PyErrorCategory, PyStr

HeldTyped == held \subseteq PyDiagnostic

\* Python only ever holds Diagnostic objects: those the callback was given
\* and those __setstate__ built.
LEMMA HeldStep == HeldTyped /\ [Next]_vars => HeldTyped'
<1> SUFFICES ASSUME HeldTyped, [Next]_vars PROVE HeldTyped'
    OBVIOUS
<1>1. Reports \subseteq PyDiagnostic
    BY DiagnosticsAssumption DEF Diagnostic, PyDiagnostic
<1>2. CASE \E cb \in BOOLEAN, d \in Reports, ec \in Codes : Report(cb, d, ec)
    BY <1>1, <1>2 DEF Report, EmitDiagnostic, HeldTyped
<1>3. CASE \E t \in {GetState(d) : d \in held} \cup Crafted : Unpickle(t)
    <2> PICK t \in {GetState(d) : d \in held} \cup Crafted : Unpickle(t)
        BY <1>3
    <2>1. t \in Seq(PyValue)
        BY GetStateTyped, DiagnosticsAssumption DEF HeldTyped
    <2> QED BY <2>1, SetStateTyped DEF Unpickle, HeldTyped
<1>4. CASE \E d \in held : Str(d)
    BY <1>4 DEF Str, HeldTyped
<1>5. CASE UNCHANGED vars
    BY <1>5 DEF vars, HeldTyped
<1> QED BY <1>2, <1>3, <1>4, <1>5 DEF Next

\* Unpickling the pickled state of a Diagnostic Python holds gives it back,
\* in every reachable state: the invariant the diagnostics_report run checks.
THEOREM PickleRoundTripCorrect == Spec => []PickleRoundTrip
<1>1. Init => HeldTyped
    BY DEF Init, HeldTyped
<1>2. HeldTyped => PickleRoundTrip
    BY RoundTrip DEF HeldTyped, PickleRoundTrip
<1> QED BY <1>1, <1>2, HeldStep, PTL DEF Spec
\* The text of every Diagnostic built from enumerators is a text toString
\* can produce.
LEMMA TextTyped ==
    ASSUME NEW d \in Diagnostic
    PROVE  toString(d) \in Texts
BY DEF Texts

\* A Diagnostic object str() can format is one built from enumerators.
LEMMA PrintableIsDiagnostic ==
    ASSUME NEW d \in PyDiagnostic, Printable(d)
    PROVE  d \in Diagnostic
BY DEF PyDiagnostic, Printable, Diagnostic

LEMMA TypeInit == Init => TypeOK
<1> SUFFICES ASSUME Init PROVE TypeOK
    OBVIOUS
<1>1. <<>> \in Seq(Diagnostic)
    BY EmptySeq
<1>2. <<>> \in Seq([code : Codes, text : Texts, callback : BOOLEAN])
    BY EmptySeq
<1> QED BY <1>1, <1>2 DEF Init, TypeOK

LEMMA TypeStep == TypeOK /\ [Next]_vars => TypeOK'
<1> SUFFICES ASSUME TypeOK, [Next]_vars PROVE TypeOK'
    OBVIOUS
<1>0. HeldTyped'
    BY HeldStep DEF TypeOK, HeldTyped
<1>1. CASE \E cb \in BOOLEAN, d \in Reports, ec \in Codes : Report(cb, d, ec)
    <2> PICK cb \in BOOLEAN, d \in Reports, ec \in Codes : Report(cb, d, ec)
        BY <1>1
    <2>1. d \in Diagnostic
        BY DiagnosticsAssumption
    <2>2. [code |-> ec, text |-> toString(d), callback |-> cb]
              \in [code : Codes, text : Texts, callback : BOOLEAN]
        BY <2>1, TextTyped
    <2>3. errors' \in Seq([code : Codes, text : Texts, callback : BOOLEAN])
        BY <2>2, AppendProperties DEF Report, EmitDiagnostic, TypeOK
    <2>4. sink' \in Seq(Diagnostic)
        BY <2>1, AppendProperties DEF Report, EmitDiagnostic, TypeOK
    <2> QED BY <1>0, <2>3, <2>4 DEF Report, EmitDiagnostic, TypeOK, HeldTyped
<1>2. CASE \E t \in {GetState(d) : d \in held} \cup Crafted : Unpickle(t)
    <2> PICK t \in {GetState(d) : d \in held} \cup Crafted : Unpickle(t)
        BY <1>2
    <2>1. raised' \subseteq {"runtime_error", "cast_error"}
        BY DEF Unpickle, SetState, TypeOK
    <2> QED BY <1>0, <2>1 DEF Unpickle, TypeOK, HeldTyped
<1>3. CASE \E d \in held : Str(d)
    <2> PICK d \in held : Str(d)
        BY <1>3
    <2>1. Printable(d) => toString(d) \in Texts
        BY PrintableIsDiagnostic, TextTyped DEF TypeOK
    <2> QED BY <2>1 DEF Str, TypeOK
<1>4. CASE UNCHANGED vars
    BY <1>4 DEF vars, TypeOK
<1> QED BY <1>1, <1>2, <1>3, <1>4 DEF Next

\* Whatever the C++ side reports and whatever tuples Python unpickles, the
\* callback's list, the returned errors, the objects Python holds and the
\* texts str() returned stay of their types: in particular __setstate__
\* only ever builds Diagnostic objects of the two enum types and a string.
THEOREM TypeCorrect == Spec => []TypeOK
BY TypeInit, TypeStep, PTL DEF Spec

====
