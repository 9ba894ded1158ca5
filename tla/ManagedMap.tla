----------------------------- MODULE ManagedMap -----------------------------
(***************************************************************************)
(* The map the roster and the grants are kept in (dude/ds/managed_map.py): *)
(* a dense index of keys, an entry per key with its slot in the index, and *)
(* a meta row that counts the keys and accumulates them.  The accumulator  *)
(* is a group element, so it is modelled by the multiplicity of each key.  *)
(***************************************************************************)
EXTENDS Rows

CONSTANT Ids    \* the identities that are ever keys of a map

MetaName(p) == <<p, "meta">>
IndexName(p, i) == <<p, "index", i>>
EntryName(p, k) == <<p, "entry", k>>

\* ACC_IDENTITY, MapAcc.add and MapAcc.sub
EmptyAcc == [k \in Ids |-> 0]
AccAdd(acc, k) == [acc EXCEPT ![k] = @ + 1]
AccSub(acc, k) == [acc EXCEPT ![k] = @ - 1]

Meta(rows, p) == Get(rows, MetaName(p))
MetaOf(meta) == IF meta = {} THEN [count |-> 0, acc |-> EmptyAcc] ELSE CHOOSE m \in meta : TRUE

KeyAt(rows, p, i) == Get(rows, IndexName(p, i))
Entry(rows, p, k) == Get(rows, EntryName(p, k))
Only(record) == CHOOSE v \in record : TRUE

Keys(rows, p) == UNION {KeyAt(rows, p, i) : i \in 0..(MetaOf(Meta(rows, p)).count - 1)}

\* items: the listed keys that have an entry, with its value.
Items(rows, p) ==
    [k \in {key \in Keys(rows, p) : Entry(rows, p, key) # {}} |-> Only(Entry(rows, p, k)).value]

MetaGuard(meta) == IF meta = {} THEN Absent ELSE Expect(meta)

\* tx_add_entry
TxAddEntry(p, k, value, i) ==
    Put(IndexName(p, i), k, {})
    \o Put(EntryName(p, k), [index |-> i, value |-> value], {Absent})

\* tx_meta_write
TxMetaWrite(p, count, acc, meta) ==
    Put(MetaName(p), [count |-> count, acc |-> acc], {MetaGuard(meta)})

\* tx_add, on the meta row read.
TxAdd(p, k, value, meta) ==
    LET m == MetaOf(meta)
    IN  TxMetaWrite(p, m.count + 1, AccAdd(m.acc, k), meta)
        \o TxAddEntry(p, k, value, m.count)

\* Mutant: an addition that does not look at the meta row again.
BatchAddBlindly(p, keys, values, meta) ==
    LET m == MetaOf(meta)
    IN  FlattenSeq([i \in DOMAIN keys |->
                      TxAddEntry(p, keys[i], values[keys[i]], m.count + i - 1)])
        \o Put(MetaName(p), [count |-> m.count + Len(keys),
                             acc |-> FoldLeft(AccAdd, m.acc, keys)], {})

\* batch_add: keys in order, into the slots from count on.
BatchAdd(p, keys, values, meta) ==
    LET m == MetaOf(meta)
    IN  FlattenSeq([i \in DOMAIN keys |->
                      TxAddEntry(p, keys[i], values[keys[i]], m.count + i - 1)])
        \o TxMetaWrite(p, m.count + Len(keys), FoldLeft(AccAdd, m.acc, keys), meta)

\* Where the last key goes: into the slot of the victim.
Move(p, victim, lastKey, lastEntry, last) ==
    IF victim.index = last THEN <<>>
    ELSE Put(IndexName(p, victim.index), lastKey, {})
         \o Put(EntryName(p, lastKey), [index |-> victim.index, value |-> lastEntry.value], {})

\* tx_remove
TxRemove(p, k, meta, victim, lastKey, lastEntry) ==
    LET m    == Only(meta)
        last == m.count - 1
    IN  TxMetaWrite(p, last, AccSub(m.acc, k), meta)
        \o Delete(EntryName(p, k), {})
        \o Delete(IndexName(p, last), {})
        \o Move(p, victim, lastKey, lastEntry, last)

\* remove raises unless the map is not empty, the key has an entry and the last
\* slot names a key with an entry.  The meta row was read before the others.
Removable(rows, p, k, meta) ==
    /\ meta # {} /\ Entry(rows, p, k) # {}
    /\ \E last \in KeyAt(rows, p, Only(meta).count - 1) : Entry(rows, p, last) # {}

\* remove, composed
MapRemove(rows, p, k, meta) ==
    LET lastKey == Only(KeyAt(rows, p, Only(meta).count - 1))
    IN  TxRemove(p, k, meta, Only(Entry(rows, p, k)), lastKey,
                 Only(Entry(rows, p, lastKey)))

\* tx_update
TxUpdate(p, k, value, entry) ==
    Put(EntryName(p, k), [index |-> Only(entry).index, value |-> value], {Expect(entry)})

\* What the three kinds of rows say together: the index is dense, it and the
\* entries name each other, and the meta row counts and accumulates the keys.
Dense(rows, p) ==
    LET m       == MetaOf(Meta(rows, p))
        entries == {n[3] : n \in {e \in DOMAIN rows : e[1] = p /\ e[2] = "entry"}}
        slots   == {n[3] : n \in {e \in DOMAIN rows : e[1] = p /\ e[2] = "index"}}
    IN  /\ slots = 0..(m.count - 1) /\ Cardinality(entries) = m.count
        /\ \A i \in slots : /\ rows[IndexName(p, i)] \in entries
                            /\ rows[EntryName(p, rows[IndexName(p, i)])].index = i
        /\ m.acc = [k \in Ids |-> IF k \in entries THEN 1 ELSE 0]
=============================================================================
