----------------------------- MODULE BlockStore -----------------------------
(***************************************************************************)
(* A node's store as the sync path sees it (dude/store/store.py): the      *)
(* block table, the log entries, the live rows, and the head floor that a  *)
(* checkpoint leaves.  The chain itself is settled elsewhere (Consensus):  *)
(* block b is the b-th block of that chain.                                *)
(*                                                                         *)
(* The live rows are cut into parts, subtrees of the state tree; a part's  *)
(* content is named by the last block that wrote it.                       *)
(***************************************************************************)
EXTENDS Integers, Sequences, FiniteSets, FiniteSetsExt

CONSTANTS
    Chain,      \* Chain[b]: the part block b writes, 0 when it is empty
    Parts       \* the parts of the live rows

ASSUME ChainAssumption == Chain \in Seq(Parts \cup {0}) /\ 0 \notin Parts

Blocks == DOMAIN Chain

TxCount(b) == IF Chain[b] = 0 THEN 0 ELSE 1

\* What the signed anchors of block b commit to: the log index of its last
\* transaction, and the live rows (state_root, acc_state).
HeightAt(b) == Cardinality({c \in 1..b : Chain[c] # 0})
StateAt(b) == [p \in Parts |-> Max({0} \cup {c \in 1..b : Chain[c] = p})]

\* A store that committed blocks 1..b, one after the other, and lost nothing.
StoreAt(b) ==
    [blocks |-> [c \in 1..b |-> [first |-> HeightAt(c - 1) + 1, height |-> HeightAt(c)]],
     entries |-> 1..HeightAt(b), live |-> StateAt(b), floor |-> 0]

\* Store.head: the last entry's index, or the floor when no entry is kept.
LogHead(st) == IF st.entries # {} THEN Max(st.entries) ELSE st.floor

\* head_block_num, None read as 0; oldest_block_num
HeadBlockNum(st) == Max({0} \cup DOMAIN st.blocks)
OldestBlockNum(st) == Min(DOMAIN st.blocks)

\* bodies_of_block: every body of the block is still in the log.
BodiesKept(st, b) ==
    st.blocks[b].first..st.blocks[b].height \subseteq st.entries

\* _apply_within and _commit: the block's transactions get the next indices and
\* overwrite what they write, whatever the live rows hold.
Applied(st, b) ==
    [st EXCEPT !.entries = @ \cup {LogHead(st) + i : i \in 1..TxCount(b)},
               !.live = [p \in Parts |-> IF p = Chain[b] THEN b ELSE @[p]]]

InsertBlock(st, b, first) ==
    [st EXCEPT !.blocks = [c \in DOMAIN @ \cup {b} |->
        IF c = b THEN [first |-> first, height |-> LogHead(st)] ELSE @[c]]]

\* commit_block; a block number that is there already is left alone.
CommitBlock(st, b) ==
    IF b \in DOMAIN st.blocks THEN st ELSE InsertBlock(Applied(st, b), b, LogHead(st) + 1)

\* gc_below
GcBelow(st, pivot) ==
    [st EXCEPT !.entries = {i \in @ : i >= st.blocks[pivot].first},
               !.blocks = [c \in {d \in DOMAIN @ : d >= pivot} |-> @[c]]]

\* reset_for_checkpoint, TreeImporter.load of every chunk, bootstrap_checkpoint.
Imported(b, parts) ==
    [blocks |-> [c \in {b} |-> [first |-> HeightAt(b) + 1, height |-> HeightAt(b)]],
     entries |-> {}, live |-> parts, floor |-> HeightAt(b)]

\* _preview_matches_signed_anchors, and chain.advance from the tip: block b
\* links to the head block, and applied here it gives what it was signed for.
LinksTo(st, b) == HeadBlockNum(st) = b - 1
PreviewMatches(st, b) ==
    LogHead(Applied(st, b)) = HeightAt(b) /\ Applied(st, b).live = StateAt(b)

\* The head block, the log and the live rows tell one story.
Coherent(st) ==
    /\ st.live = StateAt(HeadBlockNum(st))
    /\ LogHead(st) = HeightAt(HeadBlockNum(st))
    /\ \A b \in DOMAIN st.blocks : st.blocks[b].height = HeightAt(b)
=============================================================================
