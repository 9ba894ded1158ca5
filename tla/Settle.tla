------------------------------- MODULE Settle -------------------------------
(***************************************************************************)
(* What a batch of transactions does to the store (dude/store/settle.py),  *)
(* over chains of settled blocks.  The log is the state: a block hash      *)
(* commits to the whole history below it, so a chain is represented by the *)
(* sequence of its blocks, the digest of a block by the chain that ends in *)
(* it, and the genesis stamp by the empty chain.                           *)
(*                                                                         *)
(* A transaction is named by its op_hash, a natural number whose order is  *)
(* the canonical order, and the value it writes under a key is named by    *)
(* the transaction.  A guard is the set of values it accepts under a key:  *)
(* Absent, Exists, Holds and HoldsAny are all of that form.  What a step   *)
(* needs besides (the author's grant, the epoch and the shape of the row)  *)
(* reads rows as well, and is a set of guards that is never soft.          *)
(***************************************************************************)
EXTENDS Integers, Sequences, FiniteSets, SequencesExt

CONSTANTS
    Nodes,      \* every node that is ever a member of a roster
    Txs,        \* op_hashes
    Keys,       \* names in the store
    Steps,      \* Steps[t]: the guarded mutations of transaction t
    Isolated,   \* transactions whose author holds an isolated role
    Members,    \* the roster the genesis block writes
    RosterKey,  \* the key that holds the roster
    NewRoster   \* NewRoster[t]: the roster t writes when it writes RosterKey

\* What is held under a key without a row.
Absent == -1

Guard == [key: Keys, accepts: SUBSET (Txs \cup {Absent})]

ASSUME NodesAssumption == IsFiniteSet(Nodes) /\ Members \subseteq Nodes
ASSUME TxsAssumption == Txs \subseteq Nat
ASSUME StepsAssumption ==
    Steps \in [Txs -> Seq([key: Keys, deletes: BOOLEAN, needs: SUBSET Guard,
                           guards: SUBSET Guard, soft: BOOLEAN])]

Block == [bucket: Nat, txs: SUBSET Txs]
Chain == Seq(Block)

\* Mutant: the entries of the head block are not seen.
SettledBelowHead(c) == UNION {c[i].txs : i \in 1..(Len(c) - 1)}

\* has_settled: the op_hashes with a log entry.
Settled(c) == UNION {c[i].txs : i \in DOMAIN c}

\* holds
Holds(state, guard) == state[guard.key] \in guard.accepts

\* One step of evaluate.  A failed soft guard skips the step; a failed hard
\* guard or a missing need rejects the whole transaction.
EvaluateStep(t, acc, step) ==
    LET may     == \A g \in step.needs : Holds(acc.state, g)
        guarded == \A g \in step.guards : Holds(acc.state, g)
    IN  IF ~acc.ok \/ (may /\ ~guarded /\ step.soft) THEN acc
        ELSE IF may /\ guarded
             THEN [acc EXCEPT !.state[step.key] = IF step.deletes THEN Absent ELSE t]
             ELSE [acc EXCEPT !.ok = FALSE]

\* evaluate: the overlay a transaction leaves, and whether it may be applied.
Evaluate(state, t) ==
    FoldLeft(LAMBDA acc, step : EvaluateStep(t, acc, step),
             [ok |-> TRUE, state |-> state], Steps[t])

\* A transaction that does not apply is dropped and leaves no trace for the
\* ones after it.
Keep(acc, t, verdict) ==
    IF verdict.ok THEN [state |-> verdict.state, keep |-> acc.keep \cup {t}] ELSE acc

\* apply_to: the batch in canonical order.
ApplyTo(state, batch) ==
    MapThenFoldSet(LAMBDA t, acc : Keep(acc, t, Evaluate(acc.state, t)),
                   [state |-> state, keep |-> {}],
                   LAMBDA t : t, Max, batch)

\* The live rows after the blocks of c were applied in order.
StateOf(c) ==
    FoldLeft(LAMBDA state, b : ApplyTo(state, b.txs).state,
             [k \in Keys |-> Absent], c)

\* would_apply: the door's test of a single transaction against the store.
WouldApply(c, t) == ApplyTo(StateOf(c), {t}).keep = {t}

\* The members a row of the roster lists.
Listed(row) == IF row = Absent THEN Members ELSE NewRoster[row]

\* MgmtReader.roster, read from the store.
Roster(c) == Nodes \cap Listed(StateOf(c)[RosterKey])

\* The first transaction of an isolated role is a block of its own.
Alone(survivors) ==
    IF survivors \cap Isolated = {} THEN survivors ELSE {Min(survivors \cap Isolated)}

\* Coordinator._screen_slice, filtered through the candidate it was given: what
\* has settled goes, then what does not apply.
Screen(c, candidate) ==
    LET fresh == candidate \ Settled(c)
    IN  fresh \cap Alone(ApplyTo(StateOf(c), fresh).keep)
=============================================================================
