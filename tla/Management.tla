----------------------------- MODULE Management -----------------------------
(***************************************************************************)
(* The management store (dude/store/management.py): who is seated, who may *)
(* write what, which keys an epoch has, and the transactions managers      *)
(* compose.  Evaluate is what settlement makes of a composed transaction   *)
(* (dude/store/settle.py), authority and epoch rules included.             *)
(*                                                                         *)
(* A certificate is named by its signer; subject and purpose are the row   *)
(* it is kept in.  A node's record is its certificate (endpoints and       *)
(* domains are left out), a wrap is the master it wraps.                   *)
(***************************************************************************)
EXTENDS ManagedMap

CONSTANT Anchor \* the identity every authority derives from

RosterRow == <<"roster">>
EpochRow == <<"epoch">>
WrapRow(epoch, who) == <<"wrap", epoch, who>>
PopRow(who) == <<"pop", who>>
BlindRow(who) == <<"blind", who>>
SealedRow(name) == <<"sealed", name>>

\* The values of the rows: a Grant (of every store and kind) and a
\* RosterCommitment, whose fingerprint is that of its members' records.
GrantOf(role, signer) == [role |-> role, signer |-> signer]
CommitmentOf(serial, members, signer) ==
    [serial |-> serial, members |-> members, signer |-> signer]

\* Everything but these prefixes belongs to the data store.
OfManagement(name) == name[1] \in {"node", "grant", "roster", "epoch", "wrap", "pop", "blind"}

Grant(rows, who) == {e.value : e \in Entry(rows, "grant", who)}

IsManager(rows, who) == GrantOf("manager", Anchor) \in Grant(rows, who)

\* verify_cert of the purposes the anchor and managers may sign.
VerifyCert(rows, signer) == signer = Anchor \/ IsManager(rows, signer)

\* valid_grant, and may_write
MayWrite(rows, who, name) ==
    \/ who = Anchor
    \/ IsManager(rows, who)
    \/ \E g \in Grant(rows, who) : /\ g.role = "client_rw" /\ ~OfManagement(name)
                                   /\ VerifyCert(rows, g.signer)

\* MgmtReader.nodes, and roster: the nodes whose certificate verifies.
NodeRecords(rows) == Items(rows, "node")
Seated(rows) == {who \in DOMAIN NodeRecords(rows) : VerifyCert(rows, NodeRecords(rows)[who])}

CurrentEpoch(rows) == IF EpochRow \in DOMAIN rows THEN rows[EpochRow] ELSE 0

\* Mutant: an epoch may be minted again.
EpochNotBack(rows, step) ==
    /\ step.name = EpochRow => \E e \in step.to : e \in {CurrentEpoch(rows), CurrentEpoch(rows) + 1}
    /\ step.name[1] = "sealed" =>
         \A v \in step.to : v.epoch \in {CurrentEpoch(rows), CurrentEpoch(rows) - 1} \ {0}

\* _data_row_shape and _epoch_step: an epoch row is never deleted and moves one
\* forwards, and a sealed value carries the current epoch or the one before.
DataRowShape(rows, step) ==
    /\ step.name = EpochRow => step.to = {CurrentEpoch(rows) + 1}
    /\ step.name[1] = "sealed" =>
         \A v \in step.to : v.epoch \in {CurrentEpoch(rows), CurrentEpoch(rows) - 1} \ {0}

\* What evaluate asks of one step before it applies it.
Allowed(rows, author, step) ==
    /\ MayWrite(rows, author, step.name)
    /\ DataRowShape(rows, step)
    /\ \A g \in step.guards : Holds(rows, step.name, g)

\* evaluate: the verdict, and the overlay after the last step that applied.
EvaluateStep(acc, author, step) ==
    IF acc.ok /\ Allowed(acc.rows, author, step)
    THEN [ok |-> TRUE, rows |-> Apply(acc.rows, step)]
    ELSE [ok |-> FALSE, rows |-> acc.rows]
Evaluate(rows, tx) ==
    LET Evaluated[n \in 0..Len(tx.steps)] ==
          IF n = 0 THEN [ok |-> TRUE, rows |-> rows]
          ELSE EvaluateStep(Evaluated[n - 1], tx.author, tx.steps[n])
    IN  Evaluated[Len(tx.steps)]

\* A rejected transaction leaves no trace.
Settle(rows, verdict) == IF verdict.ok THEN verdict.rows ELSE rows

\* roster_commitment: what the roster row commits to, when its signer is
\* authorised and every member it names is recorded.
RosterCommitment(rows) ==
    {rc \in Get(rows, RosterRow) :
        VerifyCert(rows, rc.signer) /\ rc.members \subseteq DOMAIN NodeRecords(rows)}

NextSerial(rows) ==
    IF RosterCommitment(rows) = {} THEN 1 ELSE Only(RosterCommitment(rows)).serial + 1

\* quorum.would_brick
WouldBrick(n) == n < 3

\* change_roster refuses to shrink a roster of three or more below three.
BrickRefused(before, add, remove) ==
    ~WouldBrick(Cardinality(before)) /\ WouldBrick(Cardinality((before \ remove) \cup add))

\* The roster row change_roster writes; nothing guards it.
Commitment(rows, signer, members) ==
    Put(RosterRow, CommitmentOf(NextSerial(rows), members, signer), {})

\* change_roster: removals and additions are each composed against the store,
\* on the meta row read before.
ChangeRoster(rows, signer, before, add, remove, meta) ==
    FlattenSeq([i \in DOMAIN SetToSeq(remove) |->
                    MapRemove(rows, "node", SetToSeq(remove)[i], meta)
                    \o Delete(PopRow(SetToSeq(remove)[i]), {})])
    \o (IF add = {} THEN <<>>
        ELSE BatchAdd("node", SetToSeq(add), [who \in add |-> signer], meta))
    \o Commitment(rows, signer, (before \ remove) \cup add)

\* authorise
Authorise(rows, signer, who, role) ==
    TxAdd("grant", who, GrantOf(role, signer), Meta(rows, "grant"))
    \o Put(PopRow(who), who, {})

\* _reissue of the certificate under an entry of map p.
ReissueEntry(rows, p, k, value) == TxUpdate(p, k, value, Entry(rows, p, k))

\* attestations_by: the entries and the roster row that signer attested.
AttestedNodes(rows, signer) ==
    {k \in DOMAIN NodeRecords(rows) : NodeRecords(rows)[k] = signer}
AttestedGrants(rows, signer) ==
    {k \in Keys(rows, "grant") : \E g \in Grant(rows, k) : g.signer = signer}

\* revoke: re-issues what the key attested, then removes its grant.
Revoke(rows, who, signer) ==
    LET nodes  == SetToSeq(AttestedNodes(rows, who))
        grants == SetToSeq(AttestedGrants(rows, who))
    IN  FlattenSeq([i \in DOMAIN nodes |-> ReissueEntry(rows, "node", nodes[i], signer)])
        \o FlattenSeq([i \in DOMAIN grants |->
              ReissueEntry(rows, "grant", grants[i],
                           GrantOf(Only(Grant(rows, grants[i])).role, signer))])
        \o FlattenSeq([i \in DOMAIN SetToSeq({rc \in Get(rows, RosterRow) : rc.signer = who}) |->
              Put(RosterRow, [rows[RosterRow] EXCEPT !.signer = signer], {})])
        \o MapRemove(rows, "grant", who, Meta(rows, "grant"))
        \o Delete(PopRow(who), {})

\* wraps_for: the masters who can unwrap.
WrapsFor(rows, who) ==
    {e \in 1..CurrentEpoch(rows) : WrapRow(e, who) \in DOMAIN rows}

\* Mutant: the wraps go under the epoch that ends.
RotateWrapsBehind(from, master, readers, blinded) ==
    Put(EpochRow, from + 1, {})
    \o FlattenSeq([i \in DOMAIN SetToSeq(readers) |->
                     Put(WrapRow(from, SetToSeq(readers)[i]), master, {})])
    \o FlattenSeq([i \in DOMAIN SetToSeq(blinded) |->
                     Put(BlindRow(SetToSeq(blinded)[i]), "blinding", {})])

\* rotate: the epoch's bump and every wrap of its master in one transaction, and
\* the blinding secret at the first mint.
Rotate(from, master, readers, blinded) ==
    Put(EpochRow, from + 1, {})
    \o FlattenSeq([i \in DOMAIN SetToSeq(readers) |->
                     Put(WrapRow(from + 1, SetToSeq(readers)[i]), master, {})])
    \o FlattenSeq([i \in DOMAIN SetToSeq(blinded) |->
                     Put(BlindRow(SetToSeq(blinded)[i]), "blinding", {})])

\* admit_reader: the blinding secret and every master the manager can unwrap,
\* wrapped for who.
AdmitReader(rows, manager, who) ==
    LET epochs == SetToSeq(WrapsFor(rows, manager))
    IN  Put(BlindRow(who), "blinding", {})
        \o FlattenSeq([i \in DOMAIN epochs |->
                         Put(WrapRow(epochs[i], who), rows[WrapRow(epochs[i], manager)], {})])

\* compose_genesis and mint_first_keyepoch: grants for the managers and clients,
\* the first epoch, and the roster, all the anchor's.
ComposeGenesis(managers, clients, nodes) ==
    LET granted == managers \cup clients
    IN  (IF granted = {} THEN <<>>
         ELSE BatchAdd("grant", SetToSeq(granted),
                       [who \in granted |->
                          GrantOf(IF who \in managers THEN "manager" ELSE "client_rw", Anchor)],
                       {}))
        \o FlattenSeq([i \in DOMAIN SetToSeq(granted) |->
                         Put(PopRow(SetToSeq(granted)[i]), SetToSeq(granted)[i], {})])
        \o Rotate(0, 0, {Anchor} \cup granted, {Anchor} \cup granted)
        \o ChangeRoster(<<>>, Anchor, {}, nodes, {}, {})

\* bootstrap: what the genesis block comes to; it raises when a step is refused.
Genesis(managers, clients, nodes) ==
    Evaluate(<<>>, [author |-> Anchor, steps |-> ComposeGenesis(managers, clients, nodes)])
=============================================================================
