------------------------------ MODULE Manager ------------------------------
(***************************************************************************)
(* Managers (dude/store/management.py, dude/cli/mgr.py) and the clients    *)
(* whose sessions seal values under the keys managers rotate (KeyCache in  *)
(* dude/session.py).  A roster change reads the nodes, then the meta row,  *)
(* then the rows it moves, and blocks settle in between.                   *)
(***************************************************************************)
EXTENDS Submission

CONSTANTS
    Managers,       \* identities with a manager's grant at genesis
    Writers,        \* identities that write sealed values
    Newcomers,      \* identities that are admitted or seated later
    MaxChanges      \* bound on the transactions managers compose

VARIABLES
    manager,    \* manager[m]: the roster change m is composing
    keys,       \* keys[c]: the KeyCache of client c
    changes,    \* how many transactions managers have composed
    metas,      \* the meta rows of the node map so far
    recurred    \* whether a meta row came back

managerVars == <<manager, keys, changes, metas, recurred>>

Signers == {Anchor} \cup Managers
Idle == [pc |-> "idle", before |-> {}, add |-> {}, remove |-> {}, meta |-> {}]

ManagerInit ==
    /\ manager = [m \in Signers |-> Idle]
    /\ keys = [c \in Writers |-> [epoch |-> 0, masters |-> <<>>]]
    /\ changes = 0
    /\ metas = {Meta(rows, "node")} /\ recurred = FALSE

\* The history of the node map's meta row, for the step that settles.
RecordMeta ==
    /\ metas' = metas \cup {Meta(rows', "node")}
    /\ recurred' = (recurred \/ (Meta(rows', "node") # Meta(rows, "node")
                                 /\ Meta(rows', "node") \in metas))

ComposeBegins == changes < MaxChanges /\ changes' = changes + 1

\* change_roster up to its checks of the nodes it read.
BeginChange(m, add, remove) ==
    /\ manager[m].pc = "idle" /\ ComposeBegins
    /\ ~BrickRefused(DOMAIN NodeRecords(rows), add, remove)
    /\ add # {} => VerifyCert(rows, m)
    /\ manager' = [manager EXCEPT ![m] =
         [pc |-> "meta", before |-> DOMAIN NodeRecords(rows), add |-> add, remove |-> remove,
          meta |-> {}]]
    /\ UNCHANGED <<rows, pool, keys, metas, recurred>>

\* ManagedMap.meta, read by remove and by batch_add.
ReadMeta(m) ==
    /\ manager[m].pc = "meta"
    /\ manager' = [manager EXCEPT ![m].pc = "rows", ![m].meta = Meta(rows, "node")]
    /\ UNCHANGED <<rows, pool, keys, changes, metas, recurred>>

\* The rest of change_roster; it raises when a row it needs is missing.
ComposeChange(m) ==
    /\ manager[m].pc = "rows"
    /\ LET c == manager[m]
       IN  \/ /\ \A who \in c.remove : Removable(rows, "node", who, c.meta)
              /\ VerifyCert(rows, m)
              /\ Submit(m, ChangeRoster(rows, m, c.before, c.add, c.remove, c.meta))
           \/ /\ \/ \E who \in c.remove : ~Removable(rows, "node", who, c.meta)
                 \/ ~VerifyCert(rows, m)
              /\ UNCHANGED pool
    /\ manager' = [manager EXCEPT ![m] = Idle]
    /\ UNCHANGED <<rows, keys, changes, metas, recurred>>

\* A manager's operation composed from one read of what it depends on.
Operate(m, steps) ==
    /\ manager[m].pc = "idle" /\ ComposeBegins
    /\ Submit(m, steps)
    /\ UNCHANGED <<rows, manager, keys, metas, recurred>>

\* MgmtWriter.authorise of a client
AuthoriseClient(m, who) ==
    VerifyCert(rows, m) /\ Operate(m, Authorise(rows, m, who, "client_rw"))

\* MgmtWriter.revoke; only the anchor revokes a manager.
RevokeManager(who) ==
    /\ Removable(rows, "grant", who, Meta(rows, "grant"))
    /\ Operate(Anchor, Revoke(rows, who, Anchor))

\* MgmtWriter.rotate, the new master wrapped for everyone who holds the current
\* one; the number of the change names the master.
RotateKeys(m) ==
    LET from == CurrentEpoch(rows)
    IN  Operate(m, Rotate(from, changes + 1,
                          {m} \cup {who \in Ids : WrapRow(from, who) \in DOMAIN rows}, {}))

\* MgmtWriter.admit_reader
Admit(m, who) == Operate(m, AdmitReader(rows, m, who))

\* Mutant: the cache is filled with the epoch that comes next.
CachedEpochAhead(c) == IF keys[c].epoch # 0 THEN keys[c].epoch ELSE CurrentEpoch(rows) + 1

\* KeyCache.current_epoch: read once, kept for the life of the session.
CachedEpoch(c) == IF keys[c].epoch # 0 THEN keys[c].epoch ELSE CurrentEpoch(rows)

\* KeyCache.value_key
MasterOf(c, epoch) ==
    IF epoch \in DOMAIN keys[c].masters THEN {keys[c].masters[epoch]}
    ELSE Get(rows, WrapRow(epoch, c))

\* SessionRW.put of a sealed value; without a key it raises, the epoch cached.
SealedPut(c, name) ==
    \E epoch \in {CachedEpoch(c)} :
        /\ \/ /\ MasterOf(c, epoch) # {} /\ BlindRow(c) \in DOMAIN rows
              /\ Submit(c, Put(SealedRow(name),
                               [epoch |-> epoch, master |-> Only(MasterOf(c, epoch))], {}))
              /\ keys' = [keys EXCEPT ![c] =
                   [epoch |-> epoch,
                    masters |-> [e \in DOMAIN @.masters \cup {epoch} |->
                                   IF e = epoch THEN Only(MasterOf(c, epoch)) ELSE @.masters[e]]]]
           \/ /\ MasterOf(c, epoch) = {} \/ BlindRow(c) \notin DOMAIN rows
              /\ keys' = [keys EXCEPT ![c].epoch = epoch]
              /\ UNCHANGED pool
        /\ UNCHANGED <<rows, manager, changes, metas, recurred>>

\* A new session, in a process that starts again, has an empty cache.
NewSession(c) ==
    /\ keys' = [keys EXCEPT ![c] = [epoch |-> 0, masters |-> <<>>]]
    /\ keys' # keys
    /\ UNCHANGED <<rows, pool, manager, changes, metas, recurred>>

RosterNext ==
    \/ \E m \in Signers :
         \/ \E who \in Newcomers : BeginChange(m, {who}, {})
         \/ \E who \in DOMAIN NodeRecords(rows) :
              \/ BeginChange(m, {}, {who})
              \/ \E new \in Newcomers : BeginChange(m, {new}, {who})
         \/ ReadMeta(m)
         \/ ComposeChange(m)
    \/ \E who \in Managers : RevokeManager(who)

KeysNext ==
    \/ \E m \in Signers :
         \/ \E who \in Newcomers : AuthoriseClient(m, who) \/ Admit(m, who)
         \/ RotateKeys(m)
    \/ \E c \in Writers : SealedPut(c, "k") \/ NewSession(c)
=============================================================================
