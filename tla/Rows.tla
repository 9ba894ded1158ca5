-------------------------------- MODULE Rows --------------------------------
(***************************************************************************)
(* Transactions as applications compose them (dude/store/ops.py,           *)
(* dude/session.py, dude/ds/plaintext_map.py): guarded writes of named     *)
(* rows.  The live rows are a function whose domain is the names that are  *)
(* present.  A name is a tuple, its prefix first; the digest of a value is *)
(* the value.                                                              *)
(***************************************************************************)
EXTENDS Integers, Sequences, FiniteSets, SequencesExt

\* Session.get: the record under a name, as the set of the values it holds.
Get(rows, name) == IF name \in DOMAIN rows THEN {rows[name]} ELSE {}

\* The predicates a step may carry on its own row.
Absent == [is |-> "absent", of |-> {}]
Exists == [is |-> "exists", of |-> {}]

\* Holds, and HoldsAny when several records are expected.
Expect(record) == [is |-> "holds", of |-> record]

\* holds
Holds(rows, name, guard) ==
    \/ guard.is = "absent" /\ name \notin DOMAIN rows
    \/ guard.is = "exists" /\ name \in DOMAIN rows
    \/ guard.is = "holds" /\ name \in DOMAIN rows /\ rows[name] \in guard.of

\* Set and Del: what the row holds afterwards.
Put(name, value, guards) == <<[name |-> name, to |-> {value}, guards |-> guards]>>
Delete(name, guards) == <<[name |-> name, to |-> {}, guards |-> guards]>>

\* collect_guards raises on an expected record that is absent.
Composes(steps) == \A i \in DOMAIN steps : Expect({}) \notin steps[i].guards

\* Overlay.apply
Apply(rows, step) ==
    [n \in (DOMAIN rows \ {step.name}) \cup {m \in {step.name} : step.to # {}} |->
        IF n = step.name THEN CHOOSE v \in step.to : TRUE ELSE rows[n]]

\* PlaintextMap: the keys under a prefix.
KeysUnder(rows, prefix) ==
    {n \in DOMAIN rows : Len(n) = Len(prefix) + 1 /\ IsPrefix(prefix, n)}
=============================================================================
