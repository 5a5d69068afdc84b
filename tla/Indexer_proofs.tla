--------------------------- MODULE Indexer_proofs ---------------------------
(***************************************************************************)
(* The journal of the index undoes what it did, the totals are those of    *)
(* the entities, what is saved was live, a replay makes no second          *)
(* singleton, and an index moved by blocks alone holds the ledger of its   *)
(* chain, for every block tree, every manifest and every order of calls    *)
(* and crashes.                                                            *)
(***************************************************************************)
EXTENDS Indexer, Sums_proofs, SequenceTheorems, FiniteSetTheorems, TLAPS

(* An index and the snapshots before each of its journal's entries. *)
Outputs == UNION {t.created : t \in Transactions}
Views == [entities : SUBSET Outputs, totals : {Totals(live) : live \in SUBSET Outputs},
          by : {"block", "history"}]
Entries == {Entry(v, t) : v \in Views, t \in Transactions}
BlockEntries == [hash : Blocks, parent : {Parent[b] : b \in Blocks},
                 daa : {Daa[b] : b \in Blocks}, count : Int]
Indexes == [entities : SUBSET Outputs, totals : {Totals(live) : live \in SUBSET Outputs},
            journal : Seq(Entries), blocks : Seq(BlockEntries)]

GoodView(v) == /\ Distinct(v.entities) /\ Derivable(v.entities)
               /\ v.totals = Totals(v.entities)

Undoes(ix, before) ==
    \A n \in 1..Len(ix.journal) :
        Undone(IF n = Len(ix.journal) THEN ix.entities ELSE before[n + 1].entities,
               ix.journal[n]) = before[n].entities

Sound(ix, before) ==
    /\ ix \in Indexes /\ before \in Seq(Views) /\ Len(before) = Len(ix.journal)
    /\ GoodView(ix) /\ \A n \in 1..Len(before) : GoodView(before[n])
    /\ Undoes(ix, before)

CallSound ==
    /\ "op" \in DOMAIN call /\ (call.op \in {"apply", "replay"} => "next" \in DOMAIN call)
    /\ call.op = "undo" => "left" \in DOMAIN call
    /\ call.op = "apply" => call.block \in Blocks /\ call.next \in Nat \ {0}
                            /\ call.checkpoint \in Nat
    /\ call.op = "replay" => call.manifest \in Manifests /\ call.next \in Nat \ {0}

IndexInv ==
    /\ Sound(index, past) /\ CallSound
    /\ file.state = "saved" => Sound(file.index, file.past)

-----------------------------------------------------------------------------
(* An empty index *)

(* The sums over no entities: the recursion of the fold has a solution. *)
LEMMA SumOfNone == Sum({}) = 0
<1> DEFINE body(f) == [s \in SUBSET {} |->
                          IF s = {} THEN 0
                          ELSE Amount(CHOOSE x \in s : TRUE) + f[s \ {CHOOSE x \in s : TRUE}]]
<1>1. Sum({}) = (CHOOSE f : f = body(f))[{}]
    BY DEF Sum, MapThenSumSet, MapThenFoldSet
<1>2. [s \in SUBSET {} |-> 0] = body([s \in SUBSET {} |-> 0])
    OBVIOUS
<1>3. \E f : f = body(f)
    BY <1>2
<1>4. (CHOOSE f : f = body(f)) = body(CHOOSE f : f = body(f))
    BY <1>3
<1>5. body(CHOOSE f : f = body(f))[{}] = 0
    OBVIOUS
<1>6. QED
    BY <1>1, <1>4, <1>5

LEMMA VotesOfNone == MapThenSumSet(Votes, {}) = 0
<1> DEFINE body(f) == [s \in SUBSET {} |->
                          IF s = {} THEN 0
                          ELSE Votes(CHOOSE x \in s : TRUE) + f[s \ {CHOOSE x \in s : TRUE}]]
<1>1. MapThenSumSet(Votes, {}) = (CHOOSE f : f = body(f))[{}]
    BY DEF MapThenSumSet, MapThenFoldSet
<1>2. [s \in SUBSET {} |-> 0] = body([s \in SUBSET {} |-> 0])
    OBVIOUS
<1>3. \E f : f = body(f)
    BY <1>2
<1>4. (CHOOSE f : f = body(f)) = body(CHOOSE f : f = body(f))
    BY <1>3
<1>5. body(CHOOSE f : f = body(f))[{}] = 0
    OBVIOUS
<1>6. QED
    BY <1>1, <1>4, <1>5

LEMMA EmptyDerivable == Derivable({})
<1>1. \A kind : Kind({}, kind) = {}
    BY DEF Kind
<1>2. Tokens({}) = {} /\ EquityTokens({}) = {} /\ Indebted({}) = {} /\ Activated({}) = {}
    BY <1>1 DEF Tokens, EquityTokens, Indebted, Activated
<1>3. Cardinality({}) = 0
    BY FS_EmptySet
<1>4. MaxI64 \in Nat
    BY IndexAssumption
<1>5. QED
    BY <1>1, <1>2, <1>3, <1>4, SumOfNone, VotesOfNone DEF Derivable

LEMMA EmptySound == Sound(Empty, <<>>)
<1>1. Empty \in Indexes /\ <<>> \in Seq(Views) /\ Len(<<>>) = Len(Empty.journal)
    BY DEF Empty, Indexes
<1>2. GoodView(Empty)
    BY EmptyDerivable DEF GoodView, Empty, Distinct
<1>3. QED
    BY <1>1, <1>2 DEF Sound, Undoes, Empty

-----------------------------------------------------------------------------
(* A transaction applied, and undone *)

LEMMA FieldsReplaced ==
    ASSUME NEW A, NEW B, NEW C, NEW D,
           NEW r \in [entities : A, totals : B, journal : C, blocks : D],
           NEW e, NEW s, NEW j
    PROVE  [r EXCEPT !.entities = e, !.totals = s, !.journal = j]
               = [entities |-> e, totals |-> s, journal |-> j, blocks |-> r.blocks]
<1> DEFINE a == [r EXCEPT !.entities = e]
           b == [a EXCEPT !.totals = s]
           c == [b EXCEPT !.journal = j]
<1>1. a = [entities |-> e, totals |-> r.totals, journal |-> r.journal, blocks |-> r.blocks]
    OBVIOUS
<1> HIDE DEF a
<1>2. b = [entities |-> e, totals |-> s, journal |-> r.journal, blocks |-> r.blocks]
    BY <1>1
<1> HIDE DEF b
<1>3. c = [entities |-> e, totals |-> s, journal |-> j, blocks |-> r.blocks]
    BY <1>2
<1>4. QED
    BY <1>3 DEF a, b

LEMMA AfterType ==
    ASSUME NEW live \in SUBSET Outputs, NEW t \in Transactions
    PROVE  After(live, t) \in SUBSET Outputs
BY DEF After, With, Without, Outputs

LEMMA AfterDistinct ==
    ASSUME NEW live, NEW t, Distinct(live), Distinct(t.created)
    PROVE  Distinct(After(live, t))
BY DEF After, With, Without, Distinct, Outpoints

LEMMA UndoneAfter ==
    ASSUME NEW ix, NEW t, Applicable(ix.entities, t)
    PROVE  Undone(After(ix.entities, t), Entry(ix, t)) = ix.entities
<1> DEFINE live == ix.entities
           kept == Without(live, t.consumed)
           gone == {x \in live : x.at \in t.consumed}
<1>1. Outpoints(t.created) \cap Outpoints(kept) = {}
    BY DEF Applicable
<1>2. Without(kept, Outpoints(t.created)) = kept
    BY <1>1 DEF Without, Outpoints
<1>3. Without(After(live, t), Outpoints(t.created)) = kept
    BY <1>2 DEF After, With, Without, Outpoints
<1>4. Without(kept, Outpoints(gone)) = kept
    BY DEF Without, Outpoints
<1>5. kept \cup gone = live
    BY DEF Without
<1>6. /\ Entry(ix, t).created = Outpoints(t.created)
      /\ Entry(ix, t).consumed = gone
    BY DEF Entry
<1>7. QED
    BY <1>3, <1>4, <1>5, <1>6 DEF Undone, With

(* What Entry records depends on the entities and the totals only. *)
LEMMA EntryType ==
    ASSUME NEW ix \in Indexes, NEW t \in Transactions
    PROVE  Entry(ix, t) \in Entries
<1> DEFINE v == View(ix, "block")
<1>1. v \in Views
    BY DEF View, Views, Indexes
<1>2. Entry(ix, t) = Entry(v, t)
    BY DEF Entry, View
<1>3. QED
    BY <1>1, <1>2 DEF Entries

LEMMA AppliedSound ==
    ASSUME NEW ix, NEW before, NEW t \in Transactions, NEW by \in {"block", "history"},
           Sound(ix, before), Applicable(ix.entities, t)
    PROVE  Sound(Applied(ix, t), Append(before, View(ix, by)))
<1> DEFINE new == Applied(ix, t)
           longer == Append(before, View(ix, by))
           n == Len(ix.journal)
<1>1. /\ ix \in Indexes /\ before \in Seq(Views) /\ Len(before) = n /\ n \in Nat
      /\ GoodView(ix) /\ Undoes(ix, before)
    BY DEF Sound, Indexes
<1>2. View(ix, by) \in Views /\ View(ix, by).entities = ix.entities /\ View(ix, by).totals = ix.totals
    BY <1>1 DEF View, Views, Indexes
<1>3. After(ix.entities, t) \in SUBSET Outputs
    BY <1>1, AfterType DEF Indexes
<1>4. Entry(ix, t) \in Entries
    BY <1>1, EntryType
<1>5. /\ new \in Indexes
      /\ new.entities = After(ix.entities, t)
      /\ new.totals = Totals(After(ix.entities, t))
      /\ new.journal = Append(ix.journal, Entry(ix, t))
    <2>1. new = [entities |-> After(ix.entities, t), totals |-> Totals(After(ix.entities, t)),
                 journal |-> Append(ix.journal, Entry(ix, t)), blocks |-> ix.blocks]
        <3>1. new = [ix EXCEPT !.entities = After(ix.entities, t),
                               !.totals = Totals(After(ix.entities, t)),
                               !.journal = Append(ix.journal, Entry(ix, t))]
            BY DEF Applied
        <3> HIDE DEF new
        <3>2. QED
            BY <1>1, <3>1, FieldsReplaced DEF Indexes
    <2>2. /\ Append(ix.journal, Entry(ix, t)) \in Seq(Entries)
          /\ ix.blocks \in Seq(BlockEntries)
        BY <1>1, <1>4 DEF Indexes
    <2>3. Totals(After(ix.entities, t)) \in {Totals(live) : live \in SUBSET Outputs}
        BY <1>3
    <2> HIDE DEF new
    <2>4. QED
        BY <2>1, <2>2, <2>3, <1>3 DEF Indexes
<1>6. /\ Len(new.journal) = n + 1 /\ new.journal[n + 1] = Entry(ix, t)
      /\ \A k \in 1..n : new.journal[k] = ix.journal[k]
    BY <1>1, <1>5, <1>4 DEF Indexes
<1>7. /\ longer \in Seq(Views) /\ Len(longer) = n + 1 /\ longer[n + 1] = View(ix, by)
      /\ \A k \in 1..n : longer[k] = before[k]
    BY <1>1, <1>2
<1>8. GoodView(new)
    BY <1>1, <1>5, AfterDistinct DEF GoodView, Applicable
<1>9. \A k \in 1..Len(longer) : GoodView(longer[k])
    BY <1>1, <1>2, <1>7 DEF Sound, GoodView
<1>10. Undoes(new, longer)
    <2> SUFFICES ASSUME NEW k \in 1..(n + 1)
                 PROVE  Undone(IF k = n + 1 THEN new.entities ELSE longer[k + 1].entities,
                               new.journal[k]) = longer[k].entities
        BY <1>6 DEF Undoes
    <2>1. CASE k = n + 1
        BY <2>1, <1>2, <1>5, <1>6, <1>7, UndoneAfter
    <2>2. CASE k = n /\ n > 0
        BY <2>2, <1>1, <1>2, <1>6, <1>7 DEF Undoes
    <2>3. CASE k < n
        <3>1. k \in 1..n /\ k + 1 \in 1..n /\ k # n
            BY <2>3, <1>1
        <3>2. longer[k + 1] = before[k + 1] /\ longer[k] = before[k]
            BY <3>1, <1>7
        <3>3. QED
            BY <3>1, <3>2, <1>1, <1>6 DEF Undoes
    <2>4. QED
        BY <2>1, <2>2, <2>3, <1>1
<1>11. QED
    BY <1>5, <1>6, <1>7, <1>8, <1>9, <1>10 DEF Sound

LEMMA RolledBackSound ==
    ASSUME NEW ix, NEW before, Sound(ix, before), ix.journal # <<>>
    PROVE  Sound(RolledBack(ix), Pop(before))
<1> DEFINE n == Len(ix.journal)
           new == RolledBack(ix)
           shorter == Pop(before)
<1>1. /\ ix \in Indexes /\ before \in Seq(Views) /\ Len(before) = n
      /\ ix.journal \in Seq(Entries) /\ n \in Nat /\ n > 0
      /\ Undoes(ix, before)
    BY DEF Sound, Indexes
<1>2. Undone(ix.entities, ix.journal[n]) = before[n].entities
    BY <1>1 DEF Undoes
<1>3. before[n] \in Views /\ GoodView(before[n])
    BY <1>1 DEF Sound
<1>4. /\ Pop(ix.journal) \in Seq(Entries) /\ Len(Pop(ix.journal)) = n - 1
      /\ \A k \in 1..(n - 1) : Pop(ix.journal)[k] = ix.journal[k]
    BY <1>1 DEF Pop
<1>5. /\ shorter \in Seq(Views) /\ Len(shorter) = n - 1
      /\ \A k \in 1..(n - 1) : shorter[k] = before[k]
    BY <1>1 DEF Pop
<1>6. new = [entities |-> before[n].entities, totals |-> Totals(before[n].entities),
             journal |-> Pop(ix.journal), blocks |-> ix.blocks]
    <2> DEFINE live == Undone(ix.entities, Top(ix.journal))
               totals == IF Derivable(live) THEN Totals(live)
                         ELSE [Top(ix.journal).previous EXCEPT !.reserve = ix.totals.reserve]
    <2>1. live = before[n].entities
        BY <1>2 DEF Top
    <2>2. totals = Totals(before[n].entities)
        BY <2>1, <1>3 DEF GoodView
    <2>3. new = [ix EXCEPT !.entities = live, !.totals = totals, !.journal = Pop(ix.journal)]
        BY DEF RolledBack
    <2> HIDE DEF new, live, totals
    <2>4. QED
        BY <1>1, <2>1, <2>2, <2>3, FieldsReplaced DEF Indexes
<1> HIDE DEF new, shorter
<1>7. new \in Indexes
    BY <1>1, <1>3, <1>4, <1>6 DEF Indexes, Views
<1>8. GoodView(new)
    BY <1>3, <1>6 DEF GoodView
<1>9. \A k \in 1..Len(shorter) : GoodView(shorter[k])
    BY <1>1, <1>5 DEF Sound
<1>10. Undoes(new, shorter)
    <2> SUFFICES ASSUME NEW k \in 1..(n - 1)
                 PROVE  Undone(IF k = n - 1 THEN new.entities ELSE shorter[k + 1].entities,
                               new.journal[k]) = shorter[k].entities
        BY <1>4, <1>6 DEF Undoes
    <2>1. /\ new.journal[k] = ix.journal[k] /\ shorter[k] = before[k]
          /\ new.entities = before[n].entities
        BY <1>4, <1>5, <1>6
    <2>2. Undone(before[k + 1].entities, ix.journal[k]) = before[k].entities
        BY <1>1 DEF Undoes
    <2>3. CASE k = n - 1
        BY <2>1, <2>2, <2>3, <1>1
    <2>4. CASE k # n - 1
        BY <2>1, <2>2, <2>4, <1>1, <1>5
    <2>5. QED
        BY <2>3, <2>4
<1>11. Len(shorter) = Len(new.journal)
    BY <1>4, <1>5, <1>6
<1> HIDE DEF n
<1>12. QED
    BY <1>5, <1>7, <1>8, <1>9, <1>10, <1>11 DEF Sound, shorter, new

(* The block list plays no part in it. *)
LEMMA BlocksSound ==
    ASSUME NEW ix, NEW before, NEW list \in Seq(BlockEntries), Sound(ix, before)
    PROVE  Sound([ix EXCEPT !.blocks = list], before)
<1> DEFINE new == [ix EXCEPT !.blocks = list]
<1>1. ix \in Indexes
    BY DEF Sound
<1>2. /\ new \in Indexes /\ new.entities = ix.entities /\ new.totals = ix.totals
      /\ new.journal = ix.journal
    BY <1>1 DEF Indexes
<1> HIDE DEF new
<1>3. /\ before \in Seq(Views) /\ Len(before) = Len(new.journal)
      /\ \A n \in 1..Len(before) : GoodView(before[n])
    BY <1>2 DEF Sound
<1>4. GoodView(new)
    BY <1>2 DEF Sound, GoodView
<1>5. Undoes(new, before)
    BY <1>2 DEF Sound, Undoes
<1>6. QED
    BY <1>2, <1>3, <1>4, <1>5 DEF Sound, new

-----------------------------------------------------------------------------
(* Every action keeps the invariant *)

LEMMA ContentsTyped ==
    ASSUME CallSound, call.op = "apply", call.next <= Len(Contents[call.block])
    PROVE  Contents[call.block][call.next] \in Transactions
<1>1. Contents[call.block] \in Seq(Transactions) /\ call.next \in Nat \ {0}
    BY IndexAssumption DEF CallSound
<1>2. QED
    BY <1>1

LEMMA HistoryTyped ==
    ASSUME CallSound, call.op = "replay", call.next <= Len(call.manifest.history)
    PROVE  call.manifest.history[call.next] \in Transactions
<1>1. call.manifest.history \in Seq(Transactions) /\ call.next \in Nat \ {0}
    BY IndexAssumption DEF CallSound
<1>2. QED
    BY <1>1

LEMMA ApplyTransactionSound ==
    ASSUME IndexInv, ApplyTransaction
    PROVE  IndexInv'
<1> DEFINE t == Contents[call.block][call.next]
<1>1. t \in Transactions
    BY ContentsTyped DEF IndexInv, ApplyTransaction
<1>2. Sound(index', past')
    BY <1>1, AppliedSound DEF IndexInv, ApplyTransaction
<1>3. CallSound'
    BY DEF IndexInv, CallSound, ApplyTransaction
<1>4. QED
    BY <1>2, <1>3 DEF IndexInv, ApplyTransaction

LEMMA ReplayTransactionSound ==
    ASSUME IndexInv, ReplayTransaction
    PROVE  IndexInv'
<1> DEFINE t == call.manifest.history[call.next]
<1>1. t \in Transactions
    BY HistoryTyped DEF IndexInv, ReplayTransaction
<1>2. Sound(index', past')
    BY <1>1, AppliedSound DEF IndexInv, ReplayTransaction
<1>3. CallSound'
    BY DEF IndexInv, CallSound, ReplayTransaction
<1>4. QED
    BY <1>2, <1>3 DEF IndexInv, ReplayTransaction

LEMMA ExitSound ==
    ASSUME IndexInv, Exit
    PROVE  IndexInv'
<1>1. Sound(index', past')
    BY EmptySound DEF Exit
<1>2. CallSound'
    BY DEF Exit, CallSound, Idle
<1>3. QED
    BY <1>1, <1>2 DEF IndexInv, Exit

LEMMA PopTyped ==
    ASSUME NEW S, NEW list \in Seq(S), list # <<>>
    PROVE  Pop(list) \in Seq(S)
BY DEF Pop

(* A block begun, refused, finished or taken off the block list. *)
LEMMA BlockCallsSound ==
    ASSUME IndexInv,
           \/ \E b \in Blocks : ApplyBlock(b)
           \/ RefuseTransaction
           \/ FinishBlock
           \/ RollbackBlock
    PROVE  IndexInv'
<1>1. /\ index \in Indexes /\ index.blocks \in Seq(BlockEntries) /\ Len(index.journal) \in Nat
      /\ Sound(index, past) /\ CallSound
    BY DEF IndexInv, Sound, Indexes
<1>2. CASE \E b \in Blocks : ApplyBlock(b)
    <2>1. CallSound'
        BY <1>1, <1>2 DEF ApplyBlock, CallSound
    <2>2. QED
        BY <1>2, <2>1 DEF ApplyBlock, IndexInv
<1>3. CASE RefuseTransaction
    <2>1. CallSound'
        BY <1>3 DEF RefuseTransaction, CallSound
    <2>2. QED
        BY <1>3, <2>1 DEF RefuseTransaction, IndexInv
<1>4. CASE FinishBlock
    <2> DEFINE new == [hash |-> call.block, parent |-> Parent[call.block],
                       daa |-> Daa[call.block],
                       count |-> Len(index.journal) - call.checkpoint]
    <2>1. new \in BlockEntries
        BY <1>1, <1>4 DEF FinishBlock, CallSound, BlockEntries
    <2>2. index' = [index EXCEPT !.blocks = Append(index.blocks, new)]
        BY <1>4 DEF FinishBlock
    <2> HIDE DEF new
    <2>3. Append(index.blocks, new) \in Seq(BlockEntries)
        BY <1>1, <2>1
    <2>4. Sound(index', past')
        BY <1>1, <1>4, <2>2, <2>3, BlocksSound DEF FinishBlock
    <2>5. CallSound'
        BY <1>4 DEF FinishBlock, CallSound, Idle
    <2>6. QED
        BY <1>4, <2>4, <2>5 DEF FinishBlock, IndexInv
<1>5. CASE RollbackBlock
    <2>1. index' = [index EXCEPT !.blocks = Pop(index.blocks)]
        BY <1>5 DEF RollbackBlock
    <2>2. Pop(index.blocks) \in Seq(BlockEntries)
        BY <1>1, <1>5, PopTyped DEF RollbackBlock
    <2>3. Sound(index', past')
        BY <1>1, <1>5, <2>1, <2>2, BlocksSound DEF RollbackBlock
    <2>4. CallSound'
        BY <1>5 DEF RollbackBlock, CallSound
    <2>5. QED
        BY <1>5, <2>3, <2>4 DEF RollbackBlock, IndexInv
<1>6. QED
    BY <1>2, <1>3, <1>4, <1>5

LEMMA UndoSound ==
    ASSUME IndexInv, RollbackTip \/ FinishUndo
    PROVE  IndexInv'
<1>1. CASE RollbackTip
    <2>1. Sound(index', past')
        BY <1>1, RolledBackSound DEF RollbackTip, IndexInv
    <2>2. \/ call' = Idle
          \/ /\ call'.op = "undo" /\ DOMAIN call' = DOMAIN call
             /\ "op" \in DOMAIN call /\ "left" \in DOMAIN call
        BY <1>1 DEF RollbackTip, IndexInv, CallSound
    <2>3. CallSound'
        BY <2>2 DEF CallSound, Idle
    <2>4. QED
        BY <1>1, <2>1, <2>3 DEF RollbackTip, IndexInv
<1>2. CASE FinishUndo
    <2>1. CallSound'
        BY <1>2 DEF FinishUndo, CallSound, Idle
    <2>2. QED
        BY <1>2, <2>1 DEF FinishUndo, IndexInv
<1>3. QED
    BY <1>1, <1>2

(* Entities taken from the manifest alone: no journal to undo. *)
LEMMA KeptSound ==
    ASSUME NEW kept \in SUBSET Outputs, Distinct(kept), Derivable(kept)
    PROVE  Sound([Empty EXCEPT !.entities = kept, !.totals = Totals(kept)], <<>>)
<1> DEFINE a == [Empty EXCEPT !.entities = kept]
           b == [a EXCEPT !.totals = Totals(kept)]
<1>1. a = [entities |-> kept, totals |-> Totals({}), journal |-> <<>>, blocks |-> <<>>]
    BY DEF Empty
<1> HIDE DEF a
<1>2. b = [entities |-> kept, totals |-> Totals(kept), journal |-> <<>>, blocks |-> <<>>]
    BY <1>1
<1> HIDE DEF b
<1>3. b \in Indexes
    BY <1>2 DEF Indexes
<1>4. GoodView(b)
    BY <1>2 DEF GoodView
<1>5. <<>> \in Seq(Views) /\ Len(<<>>) = Len(b.journal) /\ Len(<<>>) = 0
    BY <1>2
<1>6. Undoes(b, <<>>)
    BY <1>2 DEF Undoes
<1>7. Sound(b, <<>>)
    BY <1>3, <1>4, <1>5, <1>6 DEF Sound
<1>8. QED
    BY <1>7 DEF a, b

LEMMA RebuildSound ==
    ASSUME IndexInv, NEW m \in Manifests, NEW live, NEW saves, Rebuild(m, live, saves)
    PROVE  IndexInv'
<1> DEFINE kept == {x \in m.tracked : x.at \in live}
<1>1. kept \in SUBSET Outputs
    BY IndexAssumption DEF Outputs
<1>2. CASE m.history # <<>>
    <2>1. index' = Empty /\ past' = <<>>
        BY <1>2 DEF Rebuild
    <2>2. CallSound'
        BY <1>2 DEF Rebuild, CallSound
    <2>3. QED
        BY <2>1, <2>2, EmptySound DEF Rebuild, IndexInv
<1>3. CASE m.history = <<>>
    <2>1. CallSound'
        BY <1>3 DEF Rebuild, CallSound, Idle
    <2>2. CASE Distinct(kept) /\ Derivable(kept)
        <3>1. index' = [Empty EXCEPT !.entities = kept, !.totals = Totals(kept)] /\ past' = <<>>
            BY <1>3, <2>2 DEF Rebuild
        <3>2. Sound(index', past')
            BY <1>1, <2>2, <3>1, KeptSound
        <3>3. QED
            BY <2>1, <3>2 DEF Rebuild, IndexInv
    <2>3. CASE ~(Distinct(kept) /\ Derivable(kept))
        <3>1. index' = Empty /\ past' = <<>>
            BY <1>3, <2>3 DEF Rebuild
        <3>2. QED
            BY <2>1, <3>1, EmptySound DEF Rebuild, IndexInv
    <2>4. QED
        BY <2>2, <2>3
<1>4. QED
    BY <1>2, <1>3

LEMMA ReplayCallsSound ==
    ASSUME IndexInv,
           \/ \E m \in Manifests : IndexRpc(m) \/ IndexValidate(m)
           \/ RefuseHistory \/ RefuseMismatch \/ FinishReplay
    PROVE  IndexInv'
<1>1. CASE \E m \in Manifests : IndexRpc(m) \/ IndexValidate(m)
    BY <1>1, RebuildSound DEF IndexRpc, IndexValidate
<1>2. CASE RefuseHistory \/ RefuseMismatch
    BY <1>2, ExitSound DEF RefuseHistory, RefuseMismatch
<1>3. CASE FinishReplay
    <2>1. CallSound'
        BY <1>3 DEF FinishReplay, CallSound, Idle
    <2>2. QED
        BY <1>3, <2>1 DEF FinishReplay, IndexInv
<1>4. QED
    BY <1>1, <1>2, <1>3

LEMMA FileSound ==
    ASSUME IndexInv,
           \/ StartSaving \/ FinishSaving \/ LoadIndex \/ RemoveIndex \/ Crash
           \/ \E b \in Accepted : NodeMoves(b)
    PROVE  IndexInv'
<1>1. CASE StartSaving
    <2>1. call'.op = "write" \/ call'.op \notin {"apply", "replay"}
        BY <1>1 DEF StartSaving
    <2>2. CallSound'
        BY <1>1, <2>1 DEF StartSaving, CallSound, IndexInv
    <2>3. file'.state = "torn"
        BY <1>1 DEF StartSaving
    <2>4. QED
        BY <1>1, <2>2, <2>3 DEF StartSaving, IndexInv
<1>2. CASE FinishSaving
    <2>1. CallSound'
        BY <1>2 DEF FinishSaving, CallSound, Idle
    <2>2. file'.index = index /\ file'.past = past
        BY <1>2 DEF FinishSaving
    <2>3. QED
        BY <1>2, <2>1, <2>2 DEF FinishSaving, IndexInv
<1>3. CASE LoadIndex
    <2>1. CallSound'
        BY <1>3 DEF LoadIndex, CallSound, IndexInv
    <2>2. QED
        BY <1>3, <2>1 DEF LoadIndex, IndexInv
<1>4. CASE RemoveIndex
    <2>1. CallSound' /\ file'.state = "absent"
        BY <1>4 DEF RemoveIndex, CallSound, IndexInv
    <2>2. QED
        BY <1>4, <2>1 DEF RemoveIndex, IndexInv
<1>5. CASE Crash
    BY <1>5, ExitSound DEF Crash
<1>6. CASE \E b \in Accepted : NodeMoves(b)
    BY <1>6 DEF NodeMoves, IndexInv, CallSound
<1>7. QED
    BY <1>1, <1>2, <1>3, <1>4, <1>5, <1>6

-----------------------------------------------------------------------------
(* The theorems *)

LEMMA IndexInvInit == IndexInit => IndexInv
BY EmptySound DEF IndexInit, IndexInv, CallSound, Idle

LEMMA IndexInvStep == IndexInv /\ [IndexNext]_indexVars => IndexInv'
<1> SUFFICES ASSUME IndexInv, [IndexNext]_indexVars PROVE IndexInv'
    OBVIOUS
<1>1. CASE UNCHANGED indexVars
    BY <1>1 DEF indexVars, IndexInv, CallSound
<1>2. CASE IndexNext
    BY <1>2, BlockCallsSound, UndoSound, ReplayCallsSound, FileSound,
       ApplyTransactionSound, ReplayTransactionSound DEF IndexNext
<1>3. QED
    BY <1>1, <1>2

(* Every state's index, in memory and in the file, is sound: well-typed,   *)
(* its totals current, its journal able to undo.                           *)
THEOREM IndexInvariant == IndexSpec => []IndexInv
BY IndexInvInit, IndexInvStep, PTL DEF IndexSpec

(* The totals shown are always those of the entities shown.                *)
THEOREM TotalsAlwaysCurrent == IndexSpec => []TotalsCurrent
<1>1. IndexInv => TotalsCurrent
    BY DEF IndexInv, Sound, GoodView, TotalsCurrent
<1>2. QED
    BY <1>1, IndexInvariant, PTL

(* Rolling back any number of transactions gives back what was there.      *)
THEOREM JournalAlwaysUndoes == IndexSpec => []JournalUndoes
<1>1. IndexInv => JournalUndoes
    BY DEF IndexInv, Sound, Undoes, JournalUndoes
<1>2. QED
    BY <1>1, IndexInvariant, PTL

-----------------------------------------------------------------------------
(* What is saved was live *)

(* A call that is about to save, or saving, has compared the index with    *)
(* the node's answer it holds.                                             *)
SavesLive ==
    /\ call.op \in {"save", "write"} => Outpoints(index.entities) \subseteq call.live
    /\ SavedWasLive

LEMMA RebuildSavesLive ==
    ASSUME SavesLive, NEW m, NEW live, NEW saves, Rebuild(m, live, saves)
    PROVE  SavesLive'
<1>1. file' = file
    BY DEF Rebuild
<1>2. CASE m.history # <<>>
    <2>1. call'.op = "replay"
        BY <1>2 DEF Rebuild
    <2>2. QED
        BY <1>1, <2>1 DEF SavesLive, SavedWasLive
<1>3. CASE m.history = <<>>
    <2> DEFINE kept == {x \in m.tracked : x.at \in live}
    <2>1. CASE call' = Idle
        BY <1>1, <2>1 DEF SavesLive, SavedWasLive, Idle
    <2>2. CASE /\ call' = [op |-> "save", live |-> live]
               /\ index' = [Empty EXCEPT !.entities = kept, !.totals = Totals(kept)]
        <3>1. index'.entities = kept
            BY <2>2 DEF Empty
        <3>2. Outpoints(kept) \subseteq live
            BY DEF Outpoints
        <3>3. QED
            BY <1>1, <2>2, <3>1, <3>2 DEF SavesLive, SavedWasLive
    <2>3. QED
        BY <1>3, <2>1, <2>2 DEF Rebuild
<1>4. QED
    BY <1>2, <1>3

LEMMA SavesLiveStep ==
    ASSUME SavesLive, [IndexNext]_indexVars
    PROVE  SavesLive'
<1>1. ASSUME NEW m, IndexRpc(m) \/ IndexValidate(m)
      PROVE  SavesLive'
    BY <1>1, RebuildSavesLive DEF IndexRpc, IndexValidate
<1>2. ASSUME NEW b, ApplyBlock(b) \/ NodeMoves(b)
      PROVE  SavesLive'
    BY <1>2 DEF ApplyBlock, NodeMoves, SavesLive, SavedWasLive
<1>3. CASE ApplyTransaction \/ RefuseTransaction \/ FinishBlock \/ RollbackBlock \/ RollbackTip
               \/ FinishUndo \/ ReplayTransaction
    <2>1. call'.op \in {"idle", "apply", "undo", "replay"} /\ file' = file
        <3>1. CASE ApplyTransaction \/ ReplayTransaction
            <4>1. call' = [call EXCEPT !.next = @ + 1] /\ call.op \in {"apply", "replay"}
                BY <3>1 DEF ApplyTransaction, ReplayTransaction
            <4>2. call'.op = call.op
                BY <4>1
            <4>3. QED
                BY <3>1, <4>1, <4>2 DEF ApplyTransaction, ReplayTransaction
        <3>2. CASE RollbackTip
            <4>1. call' = [call EXCEPT !.left = @ - 1] \/ call' = Idle
                BY <3>2 DEF RollbackTip
            <4>2. call'.op \in {call.op, "idle"} /\ call.op = "undo"
                BY <3>2, <4>1 DEF RollbackTip, Idle
            <4>3. QED
                BY <3>2, <4>2 DEF RollbackTip
        <3>3. CASE RefuseTransaction \/ FinishBlock \/ RollbackBlock \/ FinishUndo
            BY <3>3 DEF RefuseTransaction, FinishBlock, RollbackBlock, FinishUndo, Idle
        <3>4. QED
            BY <1>3, <3>1, <3>2, <3>3
    <2>2. QED
        BY <2>1 DEF SavesLive, SavedWasLive
<1>4. CASE RefuseHistory \/ RefuseMismatch \/ Crash
    BY <1>4 DEF RefuseHistory, RefuseMismatch, Crash, Exit, Idle, SavesLive, SavedWasLive
<1>5. CASE FinishReplay
    <2>1. Outpoints(index.entities) \subseteq call.live
        BY <1>5 DEF FinishReplay, Matches
    <2>2. call' = [op |-> "save", live |-> call.live] \/ call' = Idle
        BY <1>5 DEF FinishReplay
    <2>3. index' = index /\ file' = file
        BY <1>5 DEF FinishReplay
    <2>4. QED
        BY <2>1, <2>2, <2>3 DEF SavesLive, SavedWasLive, Idle
<1>6. CASE StartSaving
    <2>1. call'.live = call.live /\ index' = index /\ file'.state = "torn" /\ call.op = "save"
        BY <1>6 DEF StartSaving
    <2>2. QED
        BY <2>1 DEF SavesLive, SavedWasLive
<1>7. CASE FinishSaving
    <2>1. /\ call.op = "write" /\ call' = Idle
          /\ file'.index = index /\ file'.live = call.live
        BY <1>7 DEF FinishSaving
    <2>2. QED
        BY <2>1 DEF SavesLive, SavedWasLive, Idle
<1>8. CASE LoadIndex
    BY <1>8 DEF LoadIndex, SavesLive, SavedWasLive
<1>9. CASE RemoveIndex
    BY <1>9 DEF RemoveIndex, SavesLive, SavedWasLive
<1>10. CASE UNCHANGED indexVars
    BY <1>10 DEF indexVars, SavesLive, SavedWasLive
<1>11. QED
    BY <1>1, <1>2, <1>3, <1>4, <1>5, <1>6, <1>7, <1>8, <1>9, <1>10 DEF IndexNext

(* However the node's chain moves while a manifest is replayed, whatever   *)
(* process crashes or loads the file: what is saved was live when the node *)
(* was asked.                                                              *)
THEOREM SavedStaysLive == IndexSpec => []SavedWasLive
<1>1. IndexInit => SavesLive
    BY DEF IndexInit, Idle, SavesLive, SavedWasLive
<1>2. SavesLive /\ [IndexNext]_indexVars => SavesLive'
    BY SavesLiveStep
<1>3. SavesLive => SavedWasLive
    BY DEF SavesLive
<1>4. QED
    BY <1>1, <1>2, <1>3, PTL DEF IndexSpec

-----------------------------------------------------------------------------
(* The ledger of a chain *)

IsRun(s, before, txs, m) ==
    s = [n \in 0..m |-> IF n = 0 THEN before ELSE After(s[n - 1], txs[n])]

LEMMA SuccessiveStep ==
    ASSUME NEW before, NEW txs, Len(txs) \in Nat
    PROVE  /\ Successive(before, txs)[0] = before
           /\ \A n \in 1..Len(txs) :
                  Successive(before, txs)[n] = After(Successive(before, txs)[n - 1], txs[n])
<1> DEFINE Good == {m \in 0..Len(txs) : \E s : IsRun(s, before, txs, m)}
<1>1. 0 \in Good
    <2>1. IsRun([n \in 0..0 |-> before], before, txs, 0)
        BY DEF IsRun
    <2>2. QED
        BY <2>1
<1>2. ASSUME NEW m \in 0..(Len(txs) - 1), m \in Good
      PROVE  m + 1 \in Good
    <2>1. PICK s : IsRun(s, before, txs, m)
        BY <1>2
    <2> DEFINE t == [n \in 0..(m + 1) |-> IF n = m + 1 THEN After(s[m], txs[m + 1]) ELSE s[n]]
    <2>2. \A n \in 0..(m + 1) : t[n] = IF n = 0 THEN before ELSE After(t[n - 1], txs[n])
        BY <2>1 DEF IsRun
    <2>3. IsRun(t, before, txs, m + 1)
        BY <2>2 DEF IsRun
    <2>4. QED
        BY <2>3
<1>3. \A m \in 0..Len(txs) : m \in Good
    <2> HIDE DEF Good
    <2> QED BY <1>1, <1>2, SetInduction
<1>4. PICK s : IsRun(s, before, txs, Len(txs))
    BY <1>3
<1>5. Successive(before, txs) = CHOOSE f : IsRun(f, before, txs, Len(txs))
    BY DEF Successive, IsRun
<1>6. IsRun(Successive(before, txs), before, txs, Len(txs))
    BY <1>4, <1>5
<1> DEFINE P == Successive(before, txs)
<1>7. P = [n \in 0..Len(txs) |-> IF n = 0 THEN before ELSE After(P[n - 1], txs[n])]
    BY <1>6 DEF IsRun
<1> HIDE DEF P
<1>8. P[0] = before /\ \A n \in 1..Len(txs) : P[n] = After(P[n - 1], txs[n])
    BY <1>7
<1>9. QED
    BY <1>8 DEF P

(* The ledger after a block, given the one before it. *)
Extended(before, b) == Successive(before, Contents[b])[Len(Contents[b])]

IsLedger(f, S) == f = [b \in S |-> Extended(IF b = Genesis THEN {} ELSE f[Parent[b]], b)]

UpTo(n) == {b \in Accepted : Daa[b] <= n}

LEMMA ParentsEarlier ==
    ASSUME NEW n \in Nat, NEW b \in UpTo(n), b # Genesis
    PROVE  /\ Daa[b] \in Nat /\ Parent[b] \in Accepted /\ Daa[Parent[b]] \in Nat
           /\ Daa[Parent[b]] < Daa[b] /\ n > 0 /\ Parent[b] \in UpTo(n - 1)
<1>1. b \in Blocks /\ b \in Accepted /\ Daa[b] <= n /\ Daa[b] \in Nat
    BY IndexAssumption DEF UpTo
<1>2. Parent[b] \in Accepted /\ Parent[b] \in Blocks /\ Daa[Parent[b]] < Daa[b]
    BY <1>1, IndexAssumption
<1>3. Daa[Parent[b]] \in Nat
    BY <1>2, IndexAssumption
<1>4. n > 0 /\ Daa[Parent[b]] <= n - 1
    BY <1>1, <1>2, <1>3
<1>5. QED
    BY <1>1, <1>2, <1>3, <1>4 DEF UpTo

LEMMA LedgersAgree ==
    ASSUME NEW m \in Nat, NEW n \in Nat, m <= n, NEW g, NEW h,
           IsLedger(g, UpTo(m)), IsLedger(h, UpTo(n))
    PROVE  \A b \in UpTo(m) : g[b] = h[b]
<1> DEFINE Good == {i \in 0..m : \A b \in UpTo(i) : g[b] = h[b]}
<1>1. \A i \in 0..m : \A b \in UpTo(i) :
          /\ b \in UpTo(m) /\ b \in UpTo(n)
          /\ g[b] = Extended(IF b = Genesis THEN {} ELSE g[Parent[b]], b)
          /\ h[b] = Extended(IF b = Genesis THEN {} ELSE h[Parent[b]], b)
    <2> SUFFICES ASSUME NEW i \in 0..m, NEW b \in UpTo(i)
                 PROVE  /\ b \in UpTo(m) /\ b \in UpTo(n)
                        /\ g[b] = Extended(IF b = Genesis THEN {} ELSE g[Parent[b]], b)
                        /\ h[b] = Extended(IF b = Genesis THEN {} ELSE h[Parent[b]], b)
        OBVIOUS
    <2>1. b \in Accepted /\ Daa[b] \in Nat /\ Daa[b] <= i
        BY IndexAssumption DEF UpTo
    <2>2. b \in UpTo(m) /\ b \in UpTo(n)
        BY <2>1 DEF UpTo
    <2>3. QED
        BY <2>2 DEF IsLedger
<1>2. 0 \in Good
    <2>1. \A b \in UpTo(0) : b = Genesis
        BY ParentsEarlier
    <2>2. QED
        BY <1>1, <2>1
<1>3. ASSUME NEW i \in 0..(m - 1), i \in Good
      PROVE  i + 1 \in Good
    <2> SUFFICES ASSUME NEW b \in UpTo(i + 1)
                 PROVE  g[b] = h[b]
        OBVIOUS
    <2>1. CASE b = Genesis
        BY <1>1, <2>1
    <2>2. CASE b # Genesis
        <3>1. Parent[b] \in UpTo((i + 1) - 1) /\ (i + 1) - 1 = i
            BY <2>2, ParentsEarlier
        <3>2. g[Parent[b]] = h[Parent[b]]
            BY <1>3, <3>1
        <3>3. QED
            BY <1>1, <2>2, <3>2
    <2>3. QED
        BY <2>1, <2>2
<1>4. \A i \in 0..m : i \in Good
    <2> HIDE DEF Good
    <2> QED BY <1>2, <1>3, SetInduction
<1>5. QED
    BY <1>4

LEMMA LedgerUpTo ==
    ASSUME NEW n \in Nat
    PROVE  \E f : IsLedger(f, UpTo(n))
<1> DEFINE Good == {i \in 0..n : \E f : IsLedger(f, UpTo(i))}
<1>1. 0 \in Good
    <2> DEFINE f == [b \in UpTo(0) |-> Extended({}, b)]
    <2>1. \A b \in UpTo(0) : b = Genesis
        BY ParentsEarlier
    <2>2. IsLedger(f, UpTo(0))
        BY <2>1 DEF IsLedger
    <2>3. QED
        BY <2>2
<1>2. ASSUME NEW i \in 0..(n - 1), i \in Good
      PROVE  i + 1 \in Good
    <2>1. PICK g : IsLedger(g, UpTo(i))
        BY <1>2
    <2> DEFINE G(b) == IF b = Genesis THEN {} ELSE g[Parent[b]]
               f == [b \in UpTo(i + 1) |-> Extended(G(b), b)]
    <2>2. \A b \in UpTo(i) : b \in UpTo(i + 1) /\ f[b] = g[b]
        <3>1. \A b \in UpTo(i) : b \in UpTo(i + 1)
            <4> SUFFICES ASSUME NEW b \in UpTo(i) PROVE b \in UpTo(i + 1)
                OBVIOUS
            <4>1. Daa[b] \in Nat
                BY IndexAssumption DEF UpTo
            <4>2. QED
                BY <4>1 DEF UpTo
        <3>2. \A b \in UpTo(i) : g[b] = Extended(G(b), b)
            BY <2>1 DEF IsLedger
        <3>3. QED
            BY <3>1, <3>2
    <2>3. \A b \in UpTo(i + 1) : b # Genesis => f[Parent[b]] = g[Parent[b]]
        <3>1. \A b \in UpTo(i + 1) : b # Genesis => Parent[b] \in UpTo(i)
            <4> SUFFICES ASSUME NEW b \in UpTo(i + 1), b # Genesis PROVE Parent[b] \in UpTo(i)
                OBVIOUS
            <4>1. Parent[b] \in UpTo((i + 1) - 1) /\ (i + 1) - 1 = i
                BY ParentsEarlier
            <4>2. QED
                BY <4>1
        <3>2. QED
            BY <2>2, <3>1
    <2>4. f = [b \in UpTo(i + 1) |-> Extended(IF b = Genesis THEN {} ELSE f[Parent[b]], b)]
        <3>1. \A b \in UpTo(i + 1) : (IF b = Genesis THEN {} ELSE f[Parent[b]]) = G(b)
            BY <2>3
        <3> HIDE DEF G
        <3> DEFINE H(b) == IF b = Genesis THEN {} ELSE f[Parent[b]]
        <3>2. \A b \in UpTo(i + 1) : H(b) = G(b)
            BY <3>1
        <3> HIDE DEF H
        <3>3. [b \in UpTo(i + 1) |-> Extended(H(b), b)] = [b \in UpTo(i + 1) |-> Extended(G(b), b)]
            BY <3>2
        <3>4. QED
            BY <3>3 DEF H
    <2>5. IsLedger(f, UpTo(i + 1))
        BY <2>4 DEF IsLedger
    <2>6. QED
        BY <2>5
<1>3. \A i \in 0..n : i \in Good
    <2> HIDE DEF Good
    <2> QED BY <1>1, <1>2, SetInduction
<1>4. QED
    BY <1>3

(* The recursion of Ledger has a solution, so it is one. *)
LEMMA LedgerStep ==
    ASSUME NEW b \in Accepted
    PROVE  Ledger[b] = Extended(IF b = Genesis THEN {} ELSE Ledger[Parent[b]], b)
<1> DEFINE part(n) == CHOOSE g : IsLedger(g, UpTo(n))
           f == [x \in Accepted |-> part(Daa[x])[x]]
<1>1. \A n \in Nat : IsLedger(part(n), UpTo(n))
    BY LedgerUpTo
<1> HIDE DEF part
<1>2. ASSUME NEW x \in Accepted
      PROVE  f[x] = Extended(IF x = Genesis THEN {} ELSE f[Parent[x]], x)
    <2>1. Daa[x] \in Nat /\ x \in UpTo(Daa[x])
        BY IndexAssumption DEF UpTo
    <2>2. part(Daa[x])[x] =
              Extended(IF x = Genesis THEN {} ELSE part(Daa[x])[Parent[x]], x)
        BY <1>1, <2>1 DEF IsLedger
    <2>3. CASE x = Genesis
        BY <2>2, <2>3
    <2>4. CASE x # Genesis
        <3>1. /\ Parent[x] \in Accepted /\ Daa[Parent[x]] \in Nat
              /\ Daa[Parent[x]] <= Daa[x]
            BY <2>1, <2>4, ParentsEarlier
        <3>2. Parent[x] \in UpTo(Daa[Parent[x]])
            BY <3>1 DEF UpTo
        <3>3. part(Daa[Parent[x]])[Parent[x]] = part(Daa[x])[Parent[x]]
            BY <1>1, <2>1, <3>1, <3>2, LedgersAgree
        <3>4. QED
            BY <2>2, <2>4, <3>1, <3>3
    <2>5. QED
        BY <2>3, <2>4
<1>3. IsLedger(f, Accepted)
    <2> DEFINE H(x) == IF x = Genesis THEN {} ELSE f[Parent[x]]
    <2>1. \A x \in Accepted : f[x] = Extended(H(x), x)
        BY <1>2
    <2>2. f = [x \in Accepted |-> f[x]]
        OBVIOUS
    <2> HIDE DEF f, H
    <2>3. f = [x \in Accepted |-> Extended(H(x), x)]
        BY <2>1, <2>2
    <2>4. QED
        BY <2>3 DEF IsLedger, H
<1>4. Ledger = CHOOSE g : IsLedger(g, Accepted)
    BY DEF Ledger, IsLedger, Extended
<1>5. IsLedger(Ledger, Accepted)
    BY <1>3, <1>4
<1>6. QED
    BY <1>5 DEF IsLedger

-----------------------------------------------------------------------------
(* The index of a chain *)

Counts(blocks) == [i \in 1..Len(blocks) |-> blocks[i].count]

(* The entities of an index after the first n entries of its journal. *)
Point(ix, before, n) == IF n = Len(ix.journal) THEN ix.entities ELSE before[n + 1].entities

(* Nothing but blocks, and `pending` entries besides, from Genesis on. *)
Pure(ix, before, pending) ==
    /\ ix.blocks # <<>> /\ ix.blocks[1].hash = Genesis
    /\ Counted(ix.blocks) + pending = Len(ix.journal)
    /\ Point(ix, before, 0) = {}

(* The replayed entries come first, then those the blocks count. *)
HistoryFirst(ix, before, pending) ==
    \A n \in 1..Len(ix.journal) :
        before[n].by = "history" <=> n <= Len(ix.journal) - (Counted(ix.blocks) + pending)

(* The journal holds what the blocks count; and where it holds nothing     *)
(* else, the entities after each block are the ledger of its chain.        *)
Chained(ix, before, pending) ==
    /\ pending \in Nat
    /\ \A k \in 1..Len(ix.blocks) : /\ ix.blocks[k].count \in Nat
                                    /\ ix.blocks[k].daa = Daa[ix.blocks[k].hash]
    /\ Counted(ix.blocks) + pending <= Len(ix.journal)
    /\ HistoryFirst(ix, before, pending)
    /\ Pure(ix, before, pending) =>
           \A k \in 1..Len(ix.blocks) :
               /\ ix.blocks[k].hash \in Accepted
               /\ Point(ix, before, SumTo(Counts(ix.blocks), k)) = Ledger[ix.blocks[k].hash]

(* Journal entries of a block that is not, or no longer, on the list. *)
Pending == IF call.op = "apply" THEN call.next - 1
           ELSE IF call.op = "undo" THEN call.left ELSE 0

(* A block in progress goes on from the last one, and what it has applied  *)
(* so far is what its contents do to the entities it found.                *)
BlockBegun ==
    LET txs == Contents[call.block]
        found == Point(index, past, call.checkpoint)
    IN call.op = "apply" =>
       /\ call.next \in 1..(Len(txs) + 1)
       /\ Len(index.journal) = call.checkpoint + (call.next - 1)
       /\ index.blocks # <<>> => /\ Parent[call.block] = Top(index.blocks).hash
                                 /\ Daa[call.block] > Top(index.blocks).daa
       /\ index.entities = Successive(found, txs)[call.next - 1]
       /\ \A n \in 1..(call.next - 1) : Applicable(Successive(found, txs)[n - 1], txs[n])

ChainInv ==
    /\ Chained(index, past, Pending) /\ BlockBegun
    /\ call.op = "replay" => index.blocks = <<>>
    /\ tip \in Accepted
    /\ call.op \in {"idle", "apply", "undo", "replay", "save", "write"}
    /\ file.state \in {"absent", "torn", "saved"}
    /\ file.state = "saved" => Chained(file.index, file.past, 0)

LEMMA CountedParts ==
    ASSUME NEW blocks, Len(blocks) \in Nat,
           \A k \in 1..Len(blocks) : blocks[k].count \in Nat
    PROVE  /\ Counted(blocks) = SumTo(Counts(blocks), Len(blocks))
           /\ \A k \in 0..Len(blocks) : /\ SumTo(Counts(blocks), k) \in Nat
                                        /\ SumTo(Counts(blocks), k) <= Counted(blocks)
<1>1. Counted(blocks) = SumTo(Counts(blocks), Len(blocks))
    BY DEF Counted, Counts
<1>2. \A k \in 1..Len(blocks) : Counts(blocks)[k] \in Nat
    BY DEF Counts
<1>3. QED
    BY <1>1, <1>2, SumGrows

LEMMA CountedAppend ==
    ASSUME NEW S, NEW blocks \in Seq(S), NEW b \in S,
           \A k \in 1..Len(blocks) : blocks[k].count \in Nat, b.count \in Nat
    PROVE  /\ Counted(Append(blocks, b)) = Counted(blocks) + b.count
           /\ \A k \in 0..Len(blocks) :
                  SumTo(Counts(Append(blocks, b)), k) = SumTo(Counts(blocks), k)
<1> DEFINE n == Len(blocks)
           f == Counts(blocks)
           g == Counts(Append(blocks, b))
<1>1. /\ n \in Nat /\ Len(Append(blocks, b)) = n + 1 /\ Append(blocks, b)[n + 1] = b
      /\ \A k \in 1..n : Append(blocks, b)[k] = blocks[k]
    OBVIOUS
<1>2. g[n + 1] = b.count /\ \A k \in 1..n : g[k] = f[k] /\ f[k] \in Nat
    BY <1>1 DEF Counts
<1> HIDE DEF f, g
<1>3. \A k \in 0..n : SumTo(g, k) = SumTo(f, k)
    <2> SUFFICES ASSUME NEW k \in 0..n PROVE SumTo(g, k) = SumTo(f, k)
        OBVIOUS
    <2>1. k \in Nat /\ \A i \in 1..k : i \in 1..n
        BY <1>1
    <2>2. (\A i \in 1..k : g[i] = f[i]) /\ \A i \in 1..k : f[i] \in Int
        BY <1>2, <2>1
    <2>3. QED
        BY <2>1, <2>2, SumSame
<1>4. SumTo(g, n + 1) = SumTo(g, n) + g[n + 1]
    BY <1>1, SumStep
<1>5. Counted(Append(blocks, b)) = SumTo(g, n + 1) /\ Counted(blocks) = SumTo(f, n)
    BY <1>1 DEF Counted, Counts, f, g
<1>6. QED
    BY <1>1, <1>2, <1>3, <1>4, <1>5 DEF f, g

LEMMA CountedPop ==
    ASSUME NEW S, NEW blocks \in Seq(S), blocks # <<>>,
           \A k \in 1..Len(blocks) : blocks[k].count \in Nat
    PROVE  /\ Counted(Pop(blocks)) + Top(blocks).count = Counted(blocks)
           /\ \A k \in 0..Len(Pop(blocks)) :
                  SumTo(Counts(Pop(blocks)), k) = SumTo(Counts(blocks), k)
<1> DEFINE n == Len(blocks)
<1>1. /\ n \in Nat /\ n > 0 /\ Pop(blocks) \in Seq(S) /\ Len(Pop(blocks)) = n - 1
      /\ \A k \in 1..(n - 1) : Pop(blocks)[k] = blocks[k]
      /\ Top(blocks) = blocks[n] /\ Top(blocks) \in S
    <2>1. n \in Nat /\ n > 0 /\ \A k \in 1..n : blocks[k] \in S
        OBVIOUS
    <2>2. /\ Pop(blocks) \in Seq(S)
          /\ Len(Pop(blocks)) = IF 1 <= n - 1 THEN (n - 1) - 1 + 1 ELSE 0
          /\ \A k \in 1..((n - 1) - 1 + 1) : Pop(blocks)[k] = blocks[1 + k - 1]
        <3>1. \A k \in 1..(n - 1) : blocks[k] \in S
            BY <2>1
        <3> HIDE DEF n
        <3>2. QED
            BY <2>1, <3>1, SubSeqProperties DEF Pop, n
    <2>3. Len(Pop(blocks)) = n - 1 /\ \A k \in 1..(n - 1) : Pop(blocks)[k] = blocks[k]
        <3> HIDE DEF n
        <3>1. Len(Pop(blocks)) = n - 1
            BY <2>1, <2>2
        <3>2. \A k \in 1..(n - 1) : k \in 1..((n - 1) - 1 + 1) /\ 1 + k - 1 = k
            BY <2>1
        <3>3. QED
            BY <2>2, <3>1, <3>2
    <2>4. QED
        BY <2>1, <2>2, <2>3 DEF Top
<1>2. Append(Pop(blocks), Top(blocks)) = blocks
    <2>1. /\ Append(Pop(blocks), Top(blocks)) \in Seq(S)
          /\ Len(Append(Pop(blocks), Top(blocks))) = n
          /\ \A k \in 1..n : Append(Pop(blocks), Top(blocks))[k] = blocks[k]
        BY <1>1
    <2>2. QED
        BY <1>1, <2>1, SeqEqual
<1>3. \A k \in 1..Len(Pop(blocks)) : Pop(blocks)[k].count \in Nat
    BY <1>1
<1>4. Top(blocks).count \in Nat
    BY <1>1
<1> DEFINE rest == Pop(blocks)
           last == Top(blocks)
<1>5. rest \in Seq(S) /\ last \in S
    BY <1>1
<1> HIDE DEF rest, last, n
<1>6. /\ Counted(Append(rest, last)) = Counted(rest) + last.count
      /\ \A k \in 0..Len(rest) : SumTo(Counts(Append(rest, last)), k) = SumTo(Counts(rest), k)
    BY <1>3, <1>4, <1>5, CountedAppend DEF rest, last
<1>7. QED
    BY <1>2, <1>6 DEF rest, last

(* A journal entry more, or one less, changes nothing before it. *)
LEMMA PointApplied ==
    ASSUME NEW ix, NEW before, NEW t \in Transactions, NEW by \in {"block", "history"},
           Sound(ix, before), Applicable(ix.entities, t)
    PROVE  \A n \in 0..Len(ix.journal) :
               Point(Applied(ix, t), Append(before, View(ix, by)), n) = Point(ix, before, n)
<1> DEFINE new == Applied(ix, t)
           longer == Append(before, View(ix, by))
           m == Len(ix.journal)
<1>1. /\ m \in Nat /\ before \in Seq(Views) /\ Len(before) = m /\ View(ix, by) \in Views
      /\ View(ix, by).entities = ix.entities
    BY DEF Sound, Indexes, View, Views
<1>2. Len(new.journal) = m + 1
    <2>1. new.journal = Append(ix.journal, Entry(ix, t)) /\ ix.journal \in Seq(Entries)
        BY DEF Applied, Sound, Indexes
    <2>2. Entry(ix, t) \in Entries
        BY EntryType DEF Sound
    <2>3. QED
        BY <2>1, <2>2
<1>3. longer[m + 1] = View(ix, by) /\ \A n \in 1..m : longer[n] = before[n]
    BY <1>1
<1> HIDE DEF new, longer
<1>4. ASSUME NEW n \in 0..m
      PROVE  Point(new, longer, n) = Point(ix, before, n)
    <2>1. Point(new, longer, n) = longer[n + 1].entities
        BY <1>1, <1>2 DEF Point
    <2>2. CASE n = m
        BY <1>1, <1>3, <2>1, <2>2 DEF Point
    <2>3. CASE n # m
        <3>1. n + 1 \in 1..m
            BY <1>1, <2>3
        <3>2. QED
            BY <1>3, <2>1, <2>3, <3>1 DEF Point
    <2>4. QED
        BY <2>2, <2>3
<1>5. QED
    BY <1>4 DEF new, longer

LEMMA PointRolledBack ==
    ASSUME NEW ix, NEW before, Sound(ix, before), ix.journal # <<>>
    PROVE  /\ Len(RolledBack(ix).journal) = Len(ix.journal) - 1
           /\ \A n \in 0..(Len(ix.journal) - 1) :
                  Point(RolledBack(ix), Pop(before), n) = Point(ix, before, n)
<1> DEFINE new == RolledBack(ix)
           shorter == Pop(before)
           m == Len(ix.journal)
<1>1. /\ ix \in Indexes /\ m \in Nat /\ m > 0 /\ before \in Seq(Views) /\ Len(before) = m
      /\ ix.journal \in Seq(Entries)
    BY DEF Sound, Indexes
<1>2. /\ Len(shorter) = m - 1
      /\ \A n \in 1..(m - 1) : shorter[n] = before[n]
    BY <1>1 DEF Pop
<1>3. Undone(ix.entities, ix.journal[m]) = before[m].entities
    BY <1>1 DEF Sound, Undoes
<1>4. new.entities = before[m].entities /\ new.journal = Pop(ix.journal)
    BY <1>1, <1>3 DEF RolledBack, Indexes, Top
<1>5. Len(new.journal) = m - 1
    BY <1>1, <1>4 DEF Pop
<1> HIDE DEF new, shorter
<1>6. ASSUME NEW n \in 0..(m - 1)
      PROVE  Point(new, shorter, n) = Point(ix, before, n)
    <2>1. Point(ix, before, n) = before[n + 1].entities
        BY <1>1 DEF Point
    <2>2. CASE n = m - 1
        BY <1>1, <1>4, <1>5, <2>1, <2>2 DEF Point
    <2>3. CASE n # m - 1
        <3>1. n + 1 \in 1..(m - 1)
            BY <1>1, <2>3
        <3>2. QED
            BY <1>2, <1>5, <2>1, <2>3, <3>1 DEF Point
    <2>4. QED
        BY <2>2, <2>3
<1>7. QED
    BY <1>5, <1>6 DEF new, shorter

(* The index and the block in progress while nothing but `call` changes. *)
LEMMA BeginBlock ==
    ASSUME IndexInv, ChainInv, NEW b \in Blocks, ApplyBlock(b)
    PROVE  ChainInv'
<1>1. /\ call.op = "idle" /\ call'.op = "apply" /\ call'.block = b /\ call'.next = 1
      /\ call'.checkpoint = Len(index.journal)
      /\ index' = index /\ past' = past /\ file' = file /\ tip' = tip
    BY DEF ApplyBlock
<1>2. Pending' = 0 /\ Pending = 0
    BY <1>1 DEF Pending
<1>3. /\ Contents[b] \in Seq(Transactions) /\ Len(Contents[b]) \in Nat
      /\ Len(index.journal) \in Nat
    BY IndexAssumption DEF IndexInv, Sound, Indexes
<1>4. Point(index, past, call'.checkpoint) = index.entities
    BY <1>1 DEF Point
<1>5. Successive(index.entities, Contents[b])[0] = index.entities
    BY <1>3, SuccessiveStep
<1>6. index.blocks # <<>> => Parent[b] = Top(index.blocks).hash /\ Daa[b] > Top(index.blocks).daa
    BY DEF ApplyBlock
<1>7. BlockBegun'
    BY <1>1, <1>3, <1>4, <1>5, <1>6 DEF BlockBegun
<1>8. Chained(index', past', Pending')
    BY <1>1, <1>2 DEF ChainInv
<1>9. QED
    BY <1>1, <1>7, <1>8 DEF ChainInv

LEMMA ContinueBlock ==
    ASSUME IndexInv, ChainInv, ApplyTransaction
    PROVE  ChainInv'
<1> DEFINE txs == Contents[call.block]
           t == txs[call.next]
           found == Point(index, past, call.checkpoint)
           m == Len(index.journal)
<1>1. /\ call.op = "apply" /\ call.next \in 1..Len(txs) /\ call.checkpoint \in Nat
      /\ txs \in Seq(Transactions) /\ Len(txs) \in Nat /\ t \in Transactions
      /\ Applicable(index.entities, t) /\ Sound(index, past)
    BY ContentsTyped, IndexAssumption DEF IndexInv, CallSound, ApplyTransaction
<1>2. /\ index' = Applied(index, t) /\ past' = Append(past, View(index, "block"))
      /\ file' = file /\ tip' = tip
    BY DEF ApplyTransaction
<1>3. /\ call'.op = "apply" /\ call'.block = call.block /\ call'.next = call.next + 1
      /\ call'.checkpoint = call.checkpoint
    BY DEF ApplyTransaction
<1>4. /\ index'.blocks = index.blocks /\ index'.entities = After(index.entities, t)
      /\ Len(index'.journal) = m + 1 /\ m \in Nat
    <2>1. index \in Indexes
        BY <1>1 DEF Sound
    <2>2. Entry(index, t) \in Entries
        BY <1>1, <2>1, EntryType
    <2>3. /\ index'.blocks = index.blocks /\ index'.entities = After(index.entities, t)
          /\ index'.journal = Append(index.journal, Entry(index, t))
        BY <1>2, <2>1 DEF Applied, Indexes
    <2>4. QED
        BY <2>1, <2>2, <2>3 DEF Indexes
<1>5. \A n \in 0..m : Point(index', past', n) = Point(index, past, n)
    BY <1>1, <1>2, PointApplied
<1>6. /\ m = call.checkpoint + (call.next - 1)
      /\ index.entities = Successive(found, txs)[call.next - 1]
      /\ \A n \in 1..(call.next - 1) : Applicable(Successive(found, txs)[n - 1], txs[n])
    BY <1>1 DEF ChainInv, BlockBegun
<1>7. call.checkpoint \in 0..m
    BY <1>1, <1>4, <1>6
<1>8. Point(index', past', call.checkpoint) = found
    BY <1>5, <1>7
<1>9. Successive(found, txs)[call.next] = After(index.entities, t)
    BY <1>1, <1>6, SuccessiveStep
<1>10. \A n \in 1..call.next : Applicable(Successive(found, txs)[n - 1], txs[n])
    <2>1. \A n \in 1..call.next : n = call.next \/ n \in 1..(call.next - 1)
        BY <1>1
    <2>2. Applicable(Successive(found, txs)[call.next - 1], txs[call.next])
        BY <1>1, <1>6
    <2>3. QED
        BY <1>6, <2>1, <2>2
<1>11. BlockBegun'
    <2>1. /\ call'.next \in 1..(Len(txs) + 1) /\ call'.next - 1 = call.next
          /\ m + 1 = call'.checkpoint + (call'.next - 1)
        <3>1. /\ Len(txs) \in Nat /\ call.next \in 1..Len(txs) /\ call.checkpoint \in Nat
              /\ call'.next = call.next + 1 /\ call'.checkpoint = call.checkpoint
            BY <1>1, <1>3
        <3>2. m = call.checkpoint + (call.next - 1)
            BY <1>6
        <3> DEFINE length == Len(txs)
                   place == call.next
                   checkpointed == call.checkpoint
        <3>3. /\ length \in Nat /\ place \in 1..length /\ checkpointed \in Nat
              /\ m = checkpointed + (place - 1)
            BY <3>1, <3>2
        <3> HIDE DEF m, length, place, checkpointed
        <3>4. /\ place + 1 \in 1..(length + 1) /\ (place + 1) - 1 = place
              /\ m + 1 = checkpointed + ((place + 1) - 1)
            BY <3>3
        <3>5. QED
            BY <3>1, <3>4 DEF length, place, checkpointed
    <2>2. index.blocks # <<>> => /\ Parent[call.block] = Top(index.blocks).hash
                                 /\ Daa[call.block] > Top(index.blocks).daa
        BY <1>1 DEF ChainInv, BlockBegun
    <2> HIDE DEF found, m
    <2>3. QED
        BY <1>3, <1>4, <1>8, <1>9, <1>10, <2>1, <2>2 DEF BlockBegun
<1>12. Pending' = Pending + 1 /\ Pending \in Nat
    BY <1>1, <1>3 DEF Pending
<1>13. Chained(index', past', Pending')
    <2>1. Chained(index, past, Pending)
        BY DEF ChainInv
    <2>2. Len(index.blocks) \in Nat /\ \A k \in 1..Len(index.blocks) : index.blocks[k].count \in Nat
        BY <1>1, <2>1 DEF Chained, Sound, Indexes
    <2>3. \A k \in 0..Len(index.blocks) :
              /\ SumTo(Counts(index.blocks), k) \in Nat
              /\ SumTo(Counts(index.blocks), k) <= Counted(index.blocks)
        BY <2>2, CountedParts
    <2>4. Counted(index.blocks) \in Nat
        BY <2>2, CountedParts
    <2>5. Counted(index.blocks) + Pending <= m
        BY <2>1 DEF Chained
    <2>6. Pure(index', past', Pending') => Pure(index, past, Pending)
        <3>1. 0 \in 0..m
            BY <1>4
        <3>2. Point(index', past', 0) = Point(index, past, 0)
            BY <1>5, <3>1
        <3>3. Counted(index.blocks) + Pending' = Len(index'.journal)
                  => Counted(index.blocks) + Pending = m
            <4>1. Len(index'.journal) = m + 1 /\ m \in Nat
                BY <1>4
            <4> HIDE DEF m
            <4>2. QED
                BY <1>12, <2>4, <4>1
        <3>4. index'.blocks = index.blocks
            BY <1>4
        <3>5. QED
            BY <3>2, <3>3, <3>4 DEF Pure
    <2>7. \A k \in 1..Len(index.blocks) :
              Point(index', past', SumTo(Counts(index.blocks), k))
                  = Point(index, past, SumTo(Counts(index.blocks), k))
        <3>1. \A k \in 1..Len(index.blocks) : SumTo(Counts(index.blocks), k) \in 0..m
            BY <1>4, <1>12, <2>2, <2>3, <2>4, <2>5
        <3>2. QED
            BY <1>5, <3>1
    <2>8. HistoryFirst(index', past', Pending')
        <3> DEFINE first == m - (Counted(index.blocks) + Pending)
        <3>1. \A n \in 1..m : past[n].by = "history" <=> n <= first
            BY <2>1 DEF Chained, HistoryFirst
        <3>2. /\ past \in Seq(Views) /\ Len(past) = m /\ View(index, "block") \in Views
              /\ View(index, "block").by = "block"
            BY <1>1 DEF Sound, Indexes, View, Views
        <3>3. past'[m + 1].by = "block" /\ \A n \in 1..m : past'[n] = past[n]
            BY <1>2, <1>4, <3>2
        <3>4. /\ (m + 1) - (Counted(index'.blocks) + Pending') = first
              /\ first \in Int /\ first <= m
            BY <1>4, <1>12, <2>4
        <3> HIDE DEF first
        <3>5. ASSUME NEW n \in 1..(m + 1)
              PROVE  past'[n].by = "history" <=> n <= first
            <4>1. CASE n = m + 1
                BY <1>4, <3>3, <3>4, <4>1
            <4>2. CASE n # m + 1
                BY <1>4, <3>1, <3>3, <4>2
            <4>3. QED
                BY <4>1, <4>2
        <3>6. QED
            BY <1>4, <3>4, <3>5 DEF HistoryFirst
    <2>9. QED
        BY <1>4, <1>12, <2>1, <2>4, <2>5, <2>6, <2>7, <2>8 DEF Chained
<1>14. QED
    BY <1>2, <1>3, <1>11, <1>13 DEF ChainInv

(* A block that is whole: its ledger is that of the block before it, with  *)
(* what it contains; the node accepts it, for all of it applied.           *)
LEMMA WholeBlock ==
    ASSUME NEW parent \in Accepted, NEW b \in Blocks,
           Parent[b] = parent, Daa[b] > Daa[parent],
           \A n \in 1..Len(Contents[b]) :
               Applicable(Successive(Ledger[parent], Contents[b])[n - 1], Contents[b][n])
    PROVE  b \in Accepted /\ Ledger[b] = Extended(Ledger[parent], b)
<1>1. Daa[parent] < Daa[b]
    BY IndexAssumption
<1>2. b \in Accepted
    BY <1>1, RefusedAssumption
<1>3. b # Genesis
    BY IndexAssumption
<1>4. QED
    BY <1>2, <1>3, LedgerStep

LEMMA EndBlock ==
    ASSUME IndexInv, ChainInv, FinishBlock
    PROVE  ChainInv'
<1> DEFINE txs == Contents[call.block]
           found == Point(index, past, call.checkpoint)
           m == Len(index.journal)
           old == index.blocks
           new == [hash |-> call.block, parent |-> Parent[call.block], daa |-> Daa[call.block],
                   count |-> m - call.checkpoint]
<1>1. /\ call.op = "apply" /\ call.block \in Blocks /\ call.checkpoint \in Nat
      /\ call.next \in 1..(Len(txs) + 1) /\ call.next > Len(txs)
      /\ txs \in Seq(Transactions) /\ Len(txs) \in Nat
      /\ index \in Indexes /\ m \in Nat /\ old \in Seq(BlockEntries) /\ Len(old) \in Nat
    BY IndexAssumption DEF IndexInv, CallSound, FinishBlock, ChainInv, BlockBegun, Sound, Indexes
<1>2. call.next = Len(txs) + 1
    BY <1>1
<1>3. /\ m = call.checkpoint + Len(txs)
      /\ index.entities = Extended(found, call.block)
      /\ \A n \in 1..Len(txs) : Applicable(Successive(found, txs)[n - 1], txs[n])
      /\ old # <<>> => /\ Parent[call.block] = Top(old).hash
                       /\ Daa[call.block] > Top(old).daa
    <2>1. call.next - 1 = Len(txs)
        BY <1>1, <1>2
    <2>2. BlockBegun
        BY DEF ChainInv
    <2>3. /\ m = call.checkpoint + (call.next - 1)
          /\ index.entities = Successive(found, txs)[call.next - 1]
          /\ \A n \in 1..(call.next - 1) : Applicable(Successive(found, txs)[n - 1], txs[n])
          /\ old # <<>> => /\ Parent[call.block] = Top(old).hash
                           /\ Daa[call.block] > Top(old).daa
        BY <1>1, <2>2 DEF BlockBegun
    <2>4. QED
        BY <2>1, <2>3 DEF Extended
<1>4. /\ index'.blocks = Append(old, new) /\ index'.entities = index.entities
      /\ index'.journal = index.journal /\ past' = past /\ call' = Idle
      /\ file' = file /\ tip' = tip
    BY <1>1 DEF FinishBlock, Indexes
<1>5. new \in BlockEntries /\ new.count = Len(txs) /\ new.hash = call.block
      /\ new.daa = Daa[call.block]
    BY <1>1, <1>3 DEF BlockEntries
<1> HIDE DEF new
<1>6. Chained(index, past, Len(txs))
    <2>1. Pending = Len(txs)
        BY <1>1, <1>2 DEF Pending
    <2>2. QED
        BY <2>1 DEF ChainInv
<1>7. /\ \A k \in 1..Len(old) : old[k].count \in Nat /\ old[k].daa = Daa[old[k].hash]
      /\ Counted(old) + Len(txs) <= m
    BY <1>6 DEF Chained
<1>8. /\ Counted(index'.blocks) = Counted(old) + Len(txs)
      /\ \A k \in 0..Len(old) : SumTo(Counts(index'.blocks), k) = SumTo(Counts(old), k)
    <2>1. /\ \A k \in 1..Len(old) : old[k].count \in Nat
          /\ old \in Seq(BlockEntries) /\ new \in BlockEntries /\ new.count \in Nat
        BY <1>1, <1>5, <1>7
    <2> HIDE DEF old
    <2>2. /\ Counted(Append(old, new)) = Counted(old) + new.count
          /\ \A k \in 0..Len(old) : SumTo(Counts(Append(old, new)), k) = SumTo(Counts(old), k)
        BY <2>1, CountedAppend
    <2>3. QED
        BY <1>4, <1>5, <2>2
<1>9. Counted(old) \in Nat
    <2>1. Len(old) \in Nat /\ \A k \in 1..Len(old) : old[k].count \in Nat
        BY <1>1, <1>7
    <2> HIDE DEF old
    <2>2. Counted(old) = SumTo(Counts(old), Len(old)) /\ SumTo(Counts(old), Len(old)) \in Nat
        BY <2>1, CountedParts
    <2>3. QED
        BY <2>2
<1>10. /\ Len(index'.blocks) = Len(old) + 1
       /\ index'.blocks[Len(old) + 1] = new
       /\ \A k \in 1..Len(old) : index'.blocks[k] = old[k]
    BY <1>1, <1>4, <1>5
<1>11. \A k \in 1..(Len(old) + 1) : /\ index'.blocks[k].count \in Nat
                                    /\ index'.blocks[k].daa = Daa[index'.blocks[k].hash]
    <2>1. \A k \in 1..(Len(old) + 1) : k \in 1..Len(old) \/ k = Len(old) + 1
        BY <1>1
    <2>2. QED
        BY <1>1, <1>5, <1>7, <1>10, <2>1
<1>12. \A n : Point(index', past', n) = Point(index, past, n)
    BY <1>4 DEF Point
<1>13. SumTo(Counts(index'.blocks), Len(old) + 1) = m /\ Point(index, past, m) = index.entities
       <=> Counted(index'.blocks) = m
    <2>1. Counted(index'.blocks) = SumTo(Counts(index'.blocks), Len(old) + 1)
        BY <1>10 DEF Counted, Counts
    <2>2. QED
        BY <2>1 DEF Point
<1>14. ASSUME Pure(index', past', 0)
       PROVE  /\ call.block \in Accepted /\ index.entities = Ledger[call.block]
              /\ \A k \in 1..Len(old) :
                     /\ old[k].hash \in Accepted
                     /\ Point(index, past, SumTo(Counts(old), k)) = Ledger[old[k].hash]
    <2>1. Counted(old) + Len(txs) = m /\ Point(index, past, 0) = {}
        BY <1>4, <1>8, <1>9, <1>12, <1>14, <1>1 DEF Pure
    <2>2. call.checkpoint = Counted(old)
        BY <1>1, <1>3, <1>9, <2>1
    <2>3. CASE old = <<>>
        <3>1. call.block = Genesis
            BY <1>5, <1>10, <1>14, <2>3 DEF Pure
        <3>2. Counted(old) = 0
            BY <2>3, SumZero DEF Counted
        <3>3. found = {}
            BY <2>1, <2>2, <3>2
        <3>4. Genesis \in Accepted
            BY IndexAssumption
        <3>5. Ledger[call.block] = Extended({}, call.block)
            BY <3>1, <3>4, LedgerStep
        <3>6. QED
            BY <1>3, <2>3, <3>1, <3>3, <3>4, <3>5
    <2>4. CASE old # <<>>
        <3>1. Len(old) > 0 /\ 1 \in 1..Len(old) /\ Len(old) \in 1..Len(old)
            BY <1>1, <2>4
        <3>2. Pure(index, past, Len(txs))
            BY <1>10, <1>14, <2>1, <2>4, <3>1 DEF Pure
        <3>3. \A k \in 1..Len(old) :
                  /\ old[k].hash \in Accepted
                  /\ Point(index, past, SumTo(Counts(old), k)) = Ledger[old[k].hash]
            BY <1>6, <3>2 DEF Chained
        <3>4. /\ Top(old).hash \in Accepted /\ Top(old).daa = Daa[Top(old).hash]
              /\ found = Ledger[Top(old).hash]
            BY <1>1, <1>7, <2>2, <3>1, <3>3, CountedParts DEF Top
        <3>5. call.block \in Accepted /\ Ledger[call.block] = Extended(found, call.block)
            BY <1>1, <1>3, <2>4, <3>4, WholeBlock
        <3>6. QED
            BY <1>3, <3>3, <3>5
    <2>5. QED
        BY <2>3, <2>4
<1>15. Chained(index', past', 0)
    <2>1. ASSUME Pure(index', past', 0), NEW k \in 1..(Len(old) + 1)
          PROVE  /\ index'.blocks[k].hash \in Accepted
                 /\ Point(index', past', SumTo(Counts(index'.blocks), k))
                        = Ledger[index'.blocks[k].hash]
        <3>1. CASE k = Len(old) + 1
            <4>1. Counted(index'.blocks) = m
                BY <1>4, <1>8, <1>9, <1>1, <2>1 DEF Pure
            <4>2. QED
                BY <1>5, <1>10, <1>12, <1>13, <1>14, <2>1, <3>1, <4>1
        <3>2. CASE k # Len(old) + 1
            <4>1. k \in 1..Len(old) /\ k \in 0..Len(old)
                BY <1>1, <3>2
            <4>2. QED
                BY <1>8, <1>10, <1>12, <1>14, <2>1, <4>1
        <3>3. QED
            BY <3>1, <3>2
    <2>2. Counted(index'.blocks) + 0 <= Len(index'.journal)
        BY <1>1, <1>4, <1>7, <1>8, <1>9
    <2>3. HistoryFirst(index', past', 0)
        <3>1. HistoryFirst(index, past, Len(txs))
            BY <1>6 DEF Chained
        <3>2. Counted(index'.blocks) + 0 = Counted(old) + Len(txs)
            BY <1>1, <1>8, <1>9
        <3> HIDE DEF txs
        <3>3. QED
            BY <1>4, <3>1, <3>2 DEF HistoryFirst
    <2>4. QED
        BY <1>10, <1>11, <2>1, <2>2, <2>3 DEF Chained
<1>16. Pending' = 0 /\ call'.op = "idle"
    BY <1>4 DEF Pending, Idle
<1>17. BlockBegun'
    BY <1>16 DEF BlockBegun
<1>18. QED
    BY <1>4, <1>15, <1>16, <1>17 DEF ChainInv

(* A block refused, or taken off the list: its entries are to be undone. *)
LEMMA BeginUndo ==
    ASSUME IndexInv, ChainInv, RefuseTransaction \/ RollbackBlock
    PROVE  ChainInv'
<1>1. CASE RefuseTransaction
    <2>1. /\ call.op = "apply" /\ call'.op = "undo"
          /\ call'.left = Len(index.journal) - call.checkpoint
          /\ index' = index /\ past' = past /\ file' = file /\ tip' = tip
        BY <1>1 DEF RefuseTransaction
    <2>2. /\ Len(index.journal) = call.checkpoint + (call.next - 1)
          /\ call.checkpoint \in Nat /\ call.next \in Nat
        BY <2>1 DEF ChainInv, BlockBegun, IndexInv, CallSound
    <2>3. Pending' = Pending
        BY <2>1, <2>2 DEF Pending
    <2>4. BlockBegun'
        BY <2>1 DEF BlockBegun
    <2>5. QED
        BY <2>1, <2>3, <2>4 DEF ChainInv
<1>2. CASE RollbackBlock
    <2> DEFINE old == index.blocks
    <2>1. /\ call.op = "idle" /\ call'.op = "undo" /\ call'.left = Top(old).count
          /\ old # <<>> /\ past' = past /\ file' = file /\ tip' = tip
        BY <1>2 DEF RollbackBlock
    <2>2. index \in Indexes /\ old \in Seq(BlockEntries) /\ Len(old) \in Nat
        BY DEF IndexInv, Sound, Indexes
    <2>3. /\ index'.blocks = Pop(old) /\ index'.entities = index.entities
          /\ index'.journal = index.journal
        BY <1>2, <2>2 DEF RollbackBlock, Indexes
    <2>4. Chained(index, past, 0) /\ Pending' = Top(old).count
        BY <2>1 DEF ChainInv, Pending
    <2>5. \A k \in 1..Len(old) : old[k].count \in Nat /\ old[k].daa = Daa[old[k].hash]
        BY <2>4 DEF Chained
    <2>6. /\ Len(Pop(old)) = Len(old) - 1 /\ Len(old) > 0
          /\ \A k \in 1..(Len(old) - 1) : Pop(old)[k] = old[k]
          /\ Top(old) = old[Len(old)]
        <3>1. Len(old) > 0 /\ \A k \in 1..(Len(old) - 1) : old[k] \in BlockEntries
            BY <2>1, <2>2
        <3>2. /\ Len(Pop(old)) = IF 1 <= Len(old) - 1 THEN (Len(old) - 1) - 1 + 1 ELSE 0
              /\ \A k \in 1..((Len(old) - 1) - 1 + 1) : Pop(old)[k] = old[1 + k - 1]
            <4> HIDE DEF old
            <4> QED BY <2>2, <3>1, SubSeqProperties DEF Pop
        <3> HIDE DEF old
        <3>3. Len(Pop(old)) = Len(old) - 1
            <4> DEFINE n == Len(old)
            <4>1. n \in Nat /\ n > 0 /\ Len(Pop(old)) = IF 1 <= n - 1 THEN (n - 1) - 1 + 1 ELSE 0
                BY <2>2, <3>1, <3>2
            <4> HIDE DEF n
            <4>2. Len(Pop(old)) = n - 1
                BY <4>1
            <4>3. QED
                BY <4>2 DEF n
        <3>4. \A k \in 1..(Len(old) - 1) : k \in 1..((Len(old) - 1) - 1 + 1) /\ 1 + k - 1 = k
            BY <2>2
        <3>5. QED
            BY <3>1, <3>2, <3>3, <3>4 DEF Top
    <2>7. /\ Counted(Pop(old)) + Top(old).count = Counted(old)
          /\ \A k \in 0..Len(Pop(old)) : SumTo(Counts(Pop(old)), k) = SumTo(Counts(old), k)
        <3>1. \A k \in 1..Len(old) : old[k].count \in Nat
            BY <2>5
        <3> HIDE DEF old
        <3>2. QED
            BY <2>1, <2>2, <3>1, CountedPop
    <2>8. Top(old).count \in Nat
        BY <2>2, <2>5, <2>6
    <2>9. \A n : Point(index', past', n) = Point(index, past, n)
        BY <2>1, <2>3 DEF Point
    <2>10. /\ Counted(Pop(old)) + Top(old).count <= Len(index.journal)
           /\ HistoryFirst(index', past', Top(old).count)
        <3>1. Counted(old) + 0 <= Len(index.journal) /\ HistoryFirst(index, past, 0)
            BY <2>4 DEF Chained
        <3>2. \A k \in 1..Len(old) : old[k].count \in Nat
            BY <2>5
        <3>3. Counted(old) \in Nat
            <4> HIDE DEF old
            <4>1. Counted(old) = SumTo(Counts(old), Len(old)) /\ SumTo(Counts(old), Len(old)) \in Nat
                BY <2>2, <3>2, CountedParts
            <4>2. QED
                BY <4>1
        <3>4. Counted(index'.blocks) + Top(old).count = Counted(index.blocks) + 0
            BY <2>3, <2>7, <3>3
        <3>5. HistoryFirst(index', past', Top(old).count)
            BY <2>1, <2>3, <3>1, <3>4 DEF HistoryFirst
        <3>6. Counted(Pop(old)) + Top(old).count <= Len(index.journal)
            BY <2>7, <3>1, <3>3
        <3>7. QED
            BY <3>5, <3>6
    <2>11. ASSUME Pure(index', past', Top(old).count), NEW k \in 1..Len(Pop(old))
           PROVE  /\ index'.blocks[k].hash \in Accepted
                  /\ Point(index', past', SumTo(Counts(index'.blocks), k))
                         = Ledger[index'.blocks[k].hash]
        <3>1. 1 \in 1..(Len(old) - 1) /\ k \in 1..(Len(old) - 1) /\ k \in 1..Len(old)
              /\ k \in 0..Len(Pop(old))
            BY <2>2, <2>6, <2>11
        <3>2. Counted(Pop(old)) + Top(old).count = Len(index.journal)
              /\ Pop(old)[1].hash = Genesis /\ Point(index', past', 0) = {}
            BY <2>3, <2>11 DEF Pure
        <3>3. Counted(old) + 0 = Len(index.journal)
            BY <2>7, <3>2 DEF IndexInv, Sound, Indexes
        <3>4. Pure(index, past, 0)
            BY <2>1, <2>6, <2>9, <3>1, <3>2, <3>3 DEF Pure
        <3>5. /\ old[k].hash \in Accepted
              /\ Point(index, past, SumTo(Counts(old), k)) = Ledger[old[k].hash]
            BY <2>4, <3>1, <3>4 DEF Chained
        <3>6. QED
            BY <2>3, <2>6, <2>7, <2>9, <3>1, <3>5
    <2>12. Chained(index', past', Pending')
        <3>1. \A k \in 1..Len(Pop(old)) : /\ Pop(old)[k].count \in Nat
                                          /\ Pop(old)[k].daa = Daa[Pop(old)[k].hash]
            BY <2>2, <2>5, <2>6
        <3> HIDE DEF old
        <3>2. QED
            BY <2>3, <2>4, <2>8, <2>10, <2>11, <3>1 DEF Chained
    <2>13. BlockBegun'
        BY <2>1 DEF BlockBegun
    <2>14. QED
        BY <2>1, <2>12, <2>13 DEF ChainInv
<1>3. QED
    BY <1>1, <1>2

LEMMA UndoChained ==
    ASSUME IndexInv, ChainInv, RollbackTip \/ FinishUndo
    PROVE  ChainInv'
<1>1. CASE RollbackTip
    <2> DEFINE m == Len(index.journal)
               old == index.blocks
    <2>1. /\ call.op = "undo" /\ call.left > 0 /\ index.journal # <<>>
          /\ index' = RolledBack(index) /\ past' = Pop(past) /\ file' = file /\ tip' = tip
          /\ Sound(index, past) /\ index \in Indexes /\ m \in Nat /\ Len(old) \in Nat
        BY <1>1 DEF RollbackTip, IndexInv, Sound, Indexes
    <2>2. Sound(index', past')
        BY <2>1, RolledBackSound
    <2>3. call' = [call EXCEPT !.left = call.left - 1]
        BY <1>1, <2>2 DEF RollbackTip, Sound, GoodView
    <2>4. Chained(index, past, call.left) /\ call.left \in Nat
        BY <2>1 DEF ChainInv, Pending, Chained
    <2>5. call'.op = "undo" /\ call'.left = call.left - 1
        BY <2>1, <2>3 DEF IndexInv, CallSound
    <2>6. Pending' = call.left - 1 /\ Pending' \in Nat
        <3>1. Pending' = call'.left
            BY <2>5 DEF Pending
        <3>2. QED
            BY <2>1, <2>4, <2>5, <3>1
    <2>7. index'.blocks = old
        BY <2>1 DEF RolledBack, Indexes
    <2>8. /\ Len(index'.journal) = m - 1
          /\ \A n \in 0..(m - 1) : Point(index', past', n) = Point(index, past, n)
        BY <2>1, PointRolledBack
    <2>9. /\ \A k \in 1..Len(old) : old[k].count \in Nat /\ old[k].daa = Daa[old[k].hash]
          /\ Counted(old) + call.left <= m
        BY <2>4 DEF Chained
    <2>10. /\ Counted(old) \in Nat
           /\ \A k \in 0..Len(old) : /\ SumTo(Counts(old), k) \in Nat
                                      /\ SumTo(Counts(old), k) <= Counted(old)
        <3>1. \A k \in 1..Len(old) : old[k].count \in Nat
            BY <2>9
        <3> HIDE DEF old
        <3>2. /\ Counted(old) = SumTo(Counts(old), Len(old)) /\ Len(old) \in 0..Len(old)
              /\ \A k \in 0..Len(old) : /\ SumTo(Counts(old), k) \in Nat
                                         /\ SumTo(Counts(old), k) <= Counted(old)
            BY <2>1, <3>1, CountedParts
        <3>3. QED
            BY <3>2
    <2>11. \A k \in 0..Len(old) :
               Point(index', past', SumTo(Counts(old), k))
                   = Point(index, past, SumTo(Counts(old), k))
        <3>1. Counted(old) <= m - 1
            BY <2>1, <2>4, <2>9, <2>10
        <3>2. \A k \in 0..Len(old) : SumTo(Counts(old), k) \in 0..(m - 1)
            BY <2>1, <2>10, <3>1
        <3>3. QED
            BY <2>8, <3>2
    <2>12. Counted(old) + Pending' <= m - 1
        BY <2>1, <2>4, <2>6, <2>9, <2>10
    <2>13. Pure(index', past', Pending') => Pure(index, past, call.left)
        <3>1. SUFFICES ASSUME Pure(index', past', Pending') PROVE Pure(index, past, call.left)
            OBVIOUS
        <3>2. /\ old # <<>> /\ old[1].hash = Genesis
              /\ Counted(old) + Pending' = m - 1 /\ Point(index', past', 0) = {}
            BY <2>7, <2>8, <3>1 DEF Pure
        <3>3. 0 \in 0..(m - 1)
            BY <2>1, <2>4, <2>9, <2>10
        <3>4. Counted(old) + call.left = m
            <4>1. /\ Counted(old) \in Nat /\ call.left \in Nat /\ m \in Nat
                  /\ Counted(old) + (call.left - 1) = m - 1
                BY <2>1, <2>4, <2>6, <2>10, <3>2
            <4> HIDE DEF m, old
            <4>2. QED
                BY <4>1
        <3>5. QED
            BY <2>8, <3>2, <3>3, <3>4 DEF Pure
    <2>14. HistoryFirst(index', past', Pending')
        <3> DEFINE first == m - (Counted(old) + call.left)
        <3>1. \A n \in 1..m : past[n].by = "history" <=> n <= first
            BY <2>4 DEF Chained, HistoryFirst
        <3>2. \A n \in 1..(m - 1) : past'[n] = past[n] /\ n \in 1..m
            <4>1. past \in Seq(Views) /\ Len(past) = m
                BY <2>1 DEF Sound
            <4>2. QED
                BY <2>1, <4>1 DEF Pop
        <3>3. (m - 1) - (Counted(index'.blocks) + Pending') = first
            <4>1. /\ m \in Nat /\ Counted(old) \in Nat /\ call.left \in Nat
                  /\ Counted(index'.blocks) = Counted(old) /\ Pending' = call.left - 1
                BY <2>1, <2>4, <2>6, <2>7, <2>10
            <4> HIDE DEF m, old
            <4>2. QED
                BY <4>1
        <3> HIDE DEF first, m
        <3>4. QED
            BY <2>8, <3>1, <3>2, <3>3 DEF HistoryFirst
    <2>15. Chained(index', past', Pending')
        <3>1. \A k \in 1..Len(old) : k \in 0..Len(old)
            BY <2>1
        <3>2. Pure(index', past', Pending') =>
                  \A k \in 1..Len(old) :
                      /\ old[k].hash \in Accepted
                      /\ Point(index', past', SumTo(Counts(old), k)) = Ledger[old[k].hash]
            BY <2>4, <2>11, <2>13, <3>1 DEF Chained
        <3>3. QED
            BY <2>6, <2>7, <2>8, <2>9, <2>12, <2>14, <3>2 DEF Chained
    <2>16. BlockBegun'
        BY <2>5 DEF BlockBegun
    <2>17. QED
        BY <2>1, <2>5, <2>15, <2>16 DEF ChainInv
<1>2. CASE FinishUndo
    <2>1. /\ Pending = 0 /\ call' = Idle /\ index' = index /\ past' = past
          /\ file' = file /\ tip' = tip
        BY <1>2 DEF FinishUndo, Pending
    <2>2. Pending' = 0 /\ BlockBegun' /\ call'.op = "idle"
        BY <2>1 DEF Pending, Idle, BlockBegun
    <2>3. QED
        BY <2>1, <2>2 DEF ChainInv
<1>3. QED
    BY <1>1, <1>2

LEMMA NoBlocksChained ==
    ASSUME NEW ix, NEW before, ix.blocks = <<>>, Len(ix.journal) \in Nat,
           \A n \in 1..Len(ix.journal) : before[n].by = "history"
    PROVE  Chained(ix, before, 0)
<1>1. Counted(ix.blocks) = 0
    BY SumZero DEF Counted
<1>2. HistoryFirst(ix, before, 0)
    BY <1>1 DEF HistoryFirst
<1>3. QED
    BY <1>1, <1>2 DEF Chained, Pure

(* A history replayed: there is no block. *)
LEMMA ReplayChained ==
    ASSUME IndexInv, IndexInv', ChainInv,
           \/ \E m \in Manifests : IndexRpc(m) \/ IndexValidate(m)
           \/ ReplayTransaction \/ Exit
    PROVE  ChainInv'
<1>1. Len(index'.journal) \in Nat /\ Len(past') = Len(index'.journal)
    BY DEF IndexInv, Sound, Indexes
<1>2. CASE \E m \in Manifests : IndexRpc(m) \/ IndexValidate(m)
    <2>0. PICK m \in Manifests : \E live, saves : Rebuild(m, live, saves)
        BY <1>2 DEF IndexRpc, IndexValidate
    <2>1. PICK live, saves : Rebuild(m, live, saves)
        BY <2>0
    <2>2. index'.blocks = <<>>
        <3> DEFINE kept == {x \in m.tracked : x.at \in live}
                   a == [Empty EXCEPT !.entities = kept]
                   b == [a EXCEPT !.totals = Totals(kept)]
        <3>1. a.blocks = <<>> /\ DOMAIN a = DOMAIN Empty /\ Empty.blocks = <<>>
            BY DEF Empty
        <3> HIDE DEF a
        <3>2. b.blocks = <<>>
            BY <3>1 DEF Empty
        <3>3. index' = Empty \/ index' = b
            BY <2>1 DEF Rebuild, a
        <3>4. QED
            BY <3>1, <3>2, <3>3
    <2>3. /\ call'.op \in {"replay", "save", "idle"} /\ file' = file /\ tip' = tip
          /\ past' = <<>>
        BY <2>1 DEF Rebuild, Idle
    <2>4. Pending' = 0 /\ BlockBegun'
        BY <2>3 DEF Pending, BlockBegun
    <2>5. Chained(index', past', Pending')
        <3>1. Len(index'.journal) = 0
            BY <1>1, <2>3
        <3>2. QED
            BY <2>2, <2>4, <3>1, NoBlocksChained
    <2>6. QED
        BY <2>2, <2>3, <2>4, <2>5 DEF ChainInv
<1>3. CASE ReplayTransaction
    <2>1. call.op = "replay" /\ index.blocks = <<>> /\ file' = file /\ tip' = tip
        BY <1>3 DEF ReplayTransaction, ChainInv
    <2>2. call'.op = "replay"
        BY <1>3 DEF ReplayTransaction, IndexInv, CallSound
    <2>3. index'.blocks = <<>>
        BY <1>3, <2>1 DEF ReplayTransaction, Applied, IndexInv, Sound, Indexes
    <2>4. Pending' = 0 /\ BlockBegun'
        BY <2>2 DEF Pending, BlockBegun
    <2>5. Chained(index', past', Pending')
        <3>1. \A n \in 1..Len(index.journal) : past[n].by = "history"
            <4>1. HistoryFirst(index, past, 0)
                BY <2>1 DEF ChainInv, Chained, Pending
            <4>2. Counted(index.blocks) = 0
                BY <2>1, SumZero DEF Counted
            <4>3. Len(index.journal) \in Nat
                BY DEF IndexInv, Sound, Indexes
            <4>4. QED
                BY <4>1, <4>2, <4>3 DEF HistoryFirst
        <3>2. /\ past \in Seq(Views) /\ Len(past) = Len(index.journal)
              /\ View(index, "history") \in Views /\ View(index, "history").by = "history"
            BY DEF IndexInv, Sound, Indexes, View, Views
        <3>3. past' = Append(past, View(index, "history"))
            BY <1>3 DEF ReplayTransaction
        <3>4. \A n \in 1..Len(past') : past'[n].by = "history"
            BY <3>1, <3>2, <3>3
        <3>5. QED
            BY <1>1, <2>3, <2>4, <3>4, NoBlocksChained
    <2>6. QED
        BY <2>1, <2>2, <2>3, <2>4, <2>5 DEF ChainInv
<1>4. CASE Exit
    <2>1. index'.blocks = <<>> /\ call'.op = "idle" /\ file' = file /\ tip' = tip
        BY <1>4 DEF Exit, Idle, Empty
    <2>2. Pending' = 0 /\ BlockBegun'
        BY <2>1 DEF Pending, BlockBegun
    <2>3. Chained(index', past', Pending')
        <3>1. Len(index'.journal) = 0
            BY <1>1, <1>4 DEF Exit
        <3>2. QED
            BY <2>1, <2>2, <3>1, NoBlocksChained
    <2>4. QED
        BY <2>1, <2>2, <2>3 DEF ChainInv
<1>5. QED
    BY <1>2, <1>3, <1>4

(* What is saved and loaded is an index as it stands between calls. *)
LEMMA FileChained ==
    ASSUME IndexInv, ChainInv,
           \/ FinishReplay \/ StartSaving \/ FinishSaving \/ LoadIndex \/ RemoveIndex
           \/ \E b \in Accepted : NodeMoves(b)
    PROVE  ChainInv'
<1>1. CASE FinishReplay
    <2>1. /\ call.op = "replay" /\ call'.op \in {"save", "idle"}
          /\ index' = index /\ past' = past /\ file' = file /\ tip' = tip
        BY <1>1 DEF FinishReplay, Idle
    <2>2. Pending = 0 /\ Pending' = 0 /\ BlockBegun'
        BY <2>1 DEF Pending, BlockBegun
    <2>3. QED
        BY <2>1, <2>2 DEF ChainInv
<1>2. CASE StartSaving
    <2>1. /\ call.op = "save" /\ call'.op = "write" /\ file'.state = "torn"
          /\ index' = index /\ past' = past /\ tip' = tip
        BY <1>2 DEF StartSaving, IndexInv, CallSound
    <2>2. Pending = 0 /\ Pending' = 0 /\ BlockBegun'
        BY <2>1 DEF Pending, BlockBegun
    <2>3. QED
        BY <2>1, <2>2 DEF ChainInv
<1>3. CASE FinishSaving
    <2>1. /\ call.op = "write" /\ call'.op = "idle"
          /\ file'.state = "saved" /\ file'.index = index /\ file'.past = past
          /\ index' = index /\ past' = past /\ tip' = tip
        BY <1>3 DEF FinishSaving, Idle
    <2>2. Pending = 0 /\ Pending' = 0 /\ BlockBegun'
        BY <2>1 DEF Pending, BlockBegun
    <2>3. QED
        BY <2>1, <2>2 DEF ChainInv
<1>4. CASE LoadIndex
    <2>1. /\ call.op = "idle" /\ call' = call /\ file.state = "saved" /\ file' = file
          /\ index' = file.index /\ past' = file.past /\ tip' = tip
        BY <1>4 DEF LoadIndex
    <2>2. Pending' = 0 /\ BlockBegun'
        BY <2>1 DEF Pending, BlockBegun
    <2>3. QED
        BY <2>1, <2>2 DEF ChainInv
<1>5. CASE RemoveIndex
    <2>1. /\ call' = call /\ file'.state = "absent"
          /\ index' = index /\ past' = past /\ tip' = tip
        BY <1>5 DEF RemoveIndex
    <2>2. Pending' = Pending /\ (BlockBegun <=> BlockBegun')
        BY <2>1 DEF Pending, BlockBegun
    <2>3. QED
        BY <2>1, <2>2 DEF ChainInv
<1>6. CASE \E b \in Accepted : NodeMoves(b)
    <2>1. /\ call' = call /\ file' = file /\ index' = index /\ past' = past
          /\ tip' \in Accepted
        BY <1>6 DEF NodeMoves
    <2>2. Pending' = Pending /\ (BlockBegun <=> BlockBegun')
        BY <2>1 DEF Pending, BlockBegun
    <2>3. QED
        BY <2>1, <2>2 DEF ChainInv
<1>7. QED
    BY <1>1, <1>2, <1>3, <1>4, <1>5, <1>6

LEMMA ChainInvInit == IndexInit => ChainInv
<1> SUFFICES ASSUME IndexInit PROVE ChainInv
    OBVIOUS
<1>1. /\ index.blocks = <<>> /\ Len(index.journal) = 0 /\ call.op = "idle"
      /\ file.state = "absent" /\ tip \in Accepted
    BY IndexAssumption DEF IndexInit, Empty, Idle
<1>2. Pending = 0 /\ BlockBegun
    BY <1>1 DEF Pending, BlockBegun
<1>3. QED
    BY <1>1, <1>2, NoBlocksChained DEF ChainInv

LEMMA ChainInvStep == IndexInv /\ IndexInv' /\ ChainInv /\ [IndexNext]_indexVars => ChainInv'
<1> SUFFICES ASSUME IndexInv, IndexInv', ChainInv, [IndexNext]_indexVars PROVE ChainInv'
    OBVIOUS
<1>1. CASE UNCHANGED indexVars
    BY <1>1 DEF indexVars, ChainInv, Pending, BlockBegun
<1>2. CASE IndexNext
    <2>1. RefuseHistory \/ RefuseMismatch \/ Crash => Exit
        BY DEF RefuseHistory, RefuseMismatch, Crash
    <2>2. QED
        BY <1>2, <2>1, BeginBlock, ContinueBlock, EndBlock, BeginUndo, UndoChained,
           ReplayChained, FileChained DEF IndexNext
<1>3. QED
    BY <1>1, <1>2

THEOREM ChainInvariant == IndexSpec => [](IndexInv /\ ChainInv)
BY IndexInvInit, IndexInvStep, ChainInvInit, ChainInvStep, PTL DEF IndexSpec

(* Of any tree of blocks: an index that began at Genesis and was moved by  *)
(* blocks alone, applied whole, refused half-way or rolled back, holds the *)
(* unspent outputs of a chain that a node accepts.                         *)
THEOREM IndexAlwaysChain == IndexSpec => []IndexIsChain
<1>1. IndexInv /\ ChainInv => IndexIsChain
    <2> SUFFICES ASSUME IndexInv, ChainInv, call.op = "idle", BuiltFromGenesis
                 PROVE  /\ Top(index.blocks).hash \in Accepted
                        /\ index.entities = Ledger[Top(index.blocks).hash]
        BY DEF IndexIsChain
    <2> DEFINE n == Len(index.blocks)
    <2>1. index.blocks \in Seq(BlockEntries) /\ n \in Nat /\ index.blocks # <<>>
        BY DEF IndexInv, Sound, Indexes, BuiltFromGenesis
    <2>2. n \in 1..n
        BY <2>1
    <2>3. Chained(index, past, 0)
        BY DEF ChainInv, Pending
    <2>4. Counted(index.blocks) \in Nat
        BY <2>1, <2>3, CountedParts DEF Chained
    <2>5. Pure(index, past, 0)
        <3> DEFINE m == Len(index.journal)
        <3>1. /\ m \in Nat /\ Len(past) = m /\ Counted(index.blocks) + 0 <= m
              /\ \A k \in 1..m : past[k].by = "history" <=> k <= m - (Counted(index.blocks) + 0)
            BY <2>3 DEF Chained, HistoryFirst, IndexInv, Sound, Indexes
        <3>2. \A k \in 1..m : past[k].by # "history"
            BY <3>1 DEF BuiltFromGenesis
        <3>3. Counted(index.blocks) + 0 = m
            <4> HIDE DEF m
            <4>1. SUFFICES ASSUME Counted(index.blocks) + 0 # m PROVE FALSE
                OBVIOUS
            <4>2. 1 \in 1..m /\ 1 <= m - (Counted(index.blocks) + 0)
                BY <2>4, <3>1, <4>1
            <4>3. QED
                BY <3>1, <3>2, <4>2
        <3>4. QED
            BY <3>3 DEF Pure, BuiltFromGenesis, At, Point
    <2>6. /\ index.blocks[n].hash \in Accepted
          /\ Point(index, past, SumTo(Counts(index.blocks), n)) = Ledger[index.blocks[n].hash]
        BY <2>2, <2>3, <2>5 DEF Chained
    <2>7. SumTo(Counts(index.blocks), n) = Len(index.journal)
        BY <2>4, <2>5 DEF Counted, Counts, Pure
    <2>8. Point(index, past, Len(index.journal)) = index.entities
        BY DEF Point
    <2>9. QED
        BY <2>6, <2>7, <2>8 DEF Top
<1>2. QED
    BY <1>1, ChainInvariant, PTL

(* The journal is never shorter than the blocks and a rollback in progress *)
(* need, so that rolling a block back never runs out of entries.           *)
THEOREM IndexAlwaysTyped == IndexSpec => []IndexTypeOK
<1>1. IndexInv /\ ChainInv => IndexTypeOK
    <2> SUFFICES ASSUME IndexInv, ChainInv PROVE IndexTypeOK
        OBVIOUS
    <2>1. /\ DOMAIN index = {"entities", "totals", "journal", "blocks"}
          /\ Distinct(index.entities) /\ Len(past) = Len(index.journal)
          /\ Len(index.journal) \in Nat /\ Len(index.blocks) \in Nat
        BY DEF IndexInv, Sound, Indexes, GoodView
    <2>2. Chained(index, past, Pending)
        BY DEF ChainInv
    <2>3. Counted(index.blocks) \in Nat
        BY <2>1, <2>2, CountedParts DEF Chained
    <2>4. /\ Counted(index.blocks) + Pending <= Len(index.journal) /\ Pending \in Nat
        BY <2>2 DEF Chained
    <2>5. Counted(index.blocks) + (IF call.op = "undo" THEN call.left ELSE 0)
              <= Len(index.journal)
        <3>1. CASE call.op = "undo"
            BY <2>4, <3>1 DEF Pending
        <3>2. CASE call.op # "undo"
            BY <2>1, <2>3, <2>4, <3>2
        <3>3. QED
            BY <3>1, <3>2
    <2>6. QED
        BY <2>1, <2>5 DEF IndexTypeOK, ChainInv
<1>2. QED
    BY <1>1, ChainInvariant, PTL

-----------------------------------------------------------------------------
(* What there is one of *)

(* An action that is known to create a singleton creates no more than it   *)
(* consumes.                                                               *)
LEMMA ShapesBalanced ==
    ASSUME NEW action \in Actions, NEW kind \in Singletons, kind \in DOMAIN Shape(action).created
    PROVE  /\ kind \in DOMAIN Shape(action).consumed
           /\ \/ Shape(action).created[kind] = 0
              \/ Shape(action).created[kind] = 1 /\ Shape(action).consumed[kind] = 1
<1> DEFINE Balanced(a) ==
               kind \in DOMAIN Shape(a).created =>
                   /\ kind \in DOMAIN Shape(a).consumed
                   /\ \/ Shape(a).created[kind] = 0
                      \/ Shape(a).created[kind] = 1 /\ Shape(a).consumed[kind] = 1
<1>1. /\ Balanced("RootHandover") /\ Balanced("ProposeModule") /\ Balanced("ActivateProposal")
      /\ Balanced("ExecuteModule") /\ Balanced("VetoProposal")
      /\ Balanced("CancelExpiredProposal")
    BY DEF Shape, Singletons
<1>2. /\ Balanced("LockDelegation") /\ Balanced("MatureDelegation") /\ Balanced("Redelegate")
      /\ Balanced("UnlockDelegation")
    BY DEF Shape, Singletons
<1>3. /\ Balanced("ProposeSavings") /\ Balanced("ActivateSavingsProposal")
      /\ Balanced("ExecuteSavingsSeries") /\ Balanced("InitializeSavingsRegistry")
    BY DEF Shape, Singletons
<1>4. /\ Balanced("OpenSavingsAccount") /\ Balanced("RefreshSavingsAccount")
      /\ Balanced("CloseSavingsAccount")
    BY DEF Shape, Singletons
<1> HIDE DEF Balanced
<1>5. Balanced(action)
    BY <1>1, <1>2, <1>3, <1>4 DEF Actions
<1>6. QED
    BY <1>5 DEF Balanced

LEMMA OneCounted ==
    ASSUME NEW live, IsFiniteSet(live), NEW kind, Cardinality(Kind(live, kind)) = 1
    PROVE  \E x : Kind(live, kind) = {x}
<1>1. IsFiniteSet(Kind(live, kind))
    BY FS_Subset DEF Kind
<1>2. QED
    BY <1>1, FS_Singleton

LEMMA NoneCounted ==
    ASSUME NEW live, IsFiniteSet(live), NEW kind, Cardinality(Kind(live, kind)) = 0
    PROVE  Kind(live, kind) = {}
<1>1. IsFiniteSet(Kind(live, kind))
    BY FS_Subset DEF Kind
<1>2. QED
    BY <1>1, FS_EmptySet

(* What a transaction consumes is finite, as its inputs are. *)
LEMMA ConsumedFinite ==
    ASSUME NEW live, Distinct(live), NEW t \in Transactions
    PROVE  IsFiniteSet({x \in live : x.at \in t.consumed})
<1> DEFINE spent == {x \in live : x.at \in t.consumed}
           f == [x \in spent |-> x.at]
<1>1. IsFiniteSet(t.consumed)
    BY TransactionAssumption
<1>2. f \in [spent -> t.consumed] /\ \A x, y \in spent : f[x] = f[y] => x = y
    BY DEF Distinct
<1> HIDE DEF spent, f
<1>3. f \in Injection(spent, t.consumed)
    BY <1>2 DEF Injection, IsInjective
<1>4. IsFiniteSet(spent)
    BY <1>1, <1>3, FS_Injection
<1>5. QED
    BY <1>4 DEF spent

LEMMA OneLeft ==
    ASSUME NEW live, Distinct(live), NEW t \in Transactions, WellShaped(live, t),
           NEW kind \in Singletons, AtMostOne(live, kind),
           t.action # "none", kind \in DOMAIN Shape(t.action).created
    PROVE  AtMostOne(After(live, t), kind)
<1> DEFINE spent == {x \in live : x.at \in t.consumed}
           counts == Shape(t.action)
<1>1. t.action \in Actions /\ IsFiniteSet(t.created) /\ IsFiniteSet(spent)
    BY TransactionAssumption, ConsumedFinite
<1>2. /\ kind \in DOMAIN counts.consumed
      /\ \/ counts.created[kind] = 0
         \/ counts.created[kind] = 1 /\ counts.consumed[kind] = 1
    BY <1>1, ShapesBalanced
<1>3. /\ \A k \in DOMAIN counts.consumed : Cardinality(Kind(spent, k)) = counts.consumed[k]
      /\ \A k \in DOMAIN counts.created : Cardinality(Kind(t.created, k)) = counts.created[k]
    BY DEF WellShaped
<1> HIDE DEF counts
<1>4. /\ Cardinality(Kind(spent, kind)) = counts.consumed[kind]
      /\ Cardinality(Kind(t.created, kind)) = counts.created[kind]
    BY <1>2, <1>3 DEF counts
<1>5. ASSUME NEW x \in Kind(After(live, t), kind)
      PROVE  \/ x \in Kind(t.created, kind)
             \/ x \in Kind(live, kind) /\ x \notin spent
    BY <1>5 DEF Kind, After, With, Without
<1>6. CASE counts.created[kind] = 0
    <2>1. Kind(t.created, kind) = {}
        BY <1>1, <1>4, <1>6, NoneCounted
    <2>2. QED
        BY <1>5, <2>1 DEF AtMostOne
<1>7. CASE counts.created[kind] = 1 /\ counts.consumed[kind] = 1
    <2>1. PICK old : Kind(spent, kind) = {old}
        <3> HIDE DEF spent
        <3> QED BY <1>1, <1>4, <1>7, OneCounted
    <2>2. PICK new : Kind(t.created, kind) = {new}
        BY <1>1, <1>4, <1>7, OneCounted
    <2>3. old \in Kind(live, kind) /\ old \in spent
        BY <2>1 DEF Kind
    <2>4. \A x \in Kind(live, kind) : x = old
        BY <2>3 DEF AtMostOne
    <2>5. \A x \in Kind(After(live, t), kind) : x = new
        BY <1>5, <2>2, <2>3, <2>4
    <2>6. QED
        BY <2>5 DEF AtMostOne
<1>8. QED
    BY <1>2, <1>6, <1>7

(* The inductive invariant: a replay begins with nothing. *)
ReplayInv ==
    /\ SingletonsKept
    /\ call.op = "replay" /\ call.next = 1 => index.entities = {}

LEMMA ReplayKeeps ==
    ASSUME IndexInv, ReplayInv, ReplayTransaction
    PROVE  ReplayInv'
<1> DEFINE history == call.manifest.history
           t == history[call.next]
<1>1. /\ call.op = "replay" /\ call.next \in Nat \ {0} /\ call.next <= Len(history)
      /\ call.manifest \in Manifests
      /\ WellShaped(index.entities, t) /\ index' = Applied(index, t)
      /\ call' = [call EXCEPT !.next = @ + 1] /\ "next" \in DOMAIN call
    BY DEF ReplayTransaction, IndexInv, CallSound
<1>2. history \in Seq(Transactions) /\ call.next \in 1..Len(history) /\ t \in Transactions
    BY <1>1, IndexAssumption
<1>3. index'.entities = After(index.entities, t)
    BY <1>1 DEF Applied, IndexInv, Sound, Indexes
<1>4. Distinct(index.entities)
    BY DEF IndexInv, Sound, GoodView
<1>5. call'.next = call.next + 1 /\ call'.op = "replay" /\ call'.manifest = call.manifest
    BY <1>1
<1>6. ASSUME Orderly(history), NEW kind \in Singletons
      PROVE  AtMostOne(index'.entities, kind)
    <2>1. AtMostOne(index.entities, kind)
        BY <1>1, <1>6 DEF ReplayInv, SingletonsKept
    <2>2. \/ Kind(t.created, kind) = {}
          \/ call.next = 1 /\ AtMostOne(t.created, kind)
          \/ t.action # "none" /\ kind \in DOMAIN Shape(t.action).created
        BY <1>2, <1>6 DEF Orderly
    <2> HIDE DEF t, history
    <2>3. CASE Kind(t.created, kind) = {}
        <3>1. \A x \in Kind(After(index.entities, t), kind) : x \in Kind(index.entities, kind)
            BY <2>3 DEF Kind, After, With, Without
        <3>2. QED
            BY <1>3, <2>1, <3>1 DEF AtMostOne
    <2>4. CASE call.next = 1 /\ AtMostOne(t.created, kind)
        <3>1. index.entities = {}
            BY <1>1, <2>4 DEF ReplayInv
        <3>2. \A x \in Kind(After(index.entities, t), kind) : x \in Kind(t.created, kind)
            BY <3>1 DEF Kind, After, With, Without
        <3>3. QED
            BY <1>3, <2>4, <3>2 DEF AtMostOne
    <2>5. CASE t.action # "none" /\ kind \in DOMAIN Shape(t.action).created
        BY <1>1, <1>2, <1>3, <1>4, <2>1, <2>5, OneLeft
    <2>6. QED
        BY <2>2, <2>3, <2>4, <2>5
<1>7. QED
    BY <1>1, <1>5, <1>6 DEF ReplayInv, SingletonsKept

LEMMA ReplayInvStep == IndexInv /\ ReplayInv /\ [IndexNext]_indexVars => ReplayInv'
<1> SUFFICES ASSUME IndexInv, ReplayInv, [IndexNext]_indexVars PROVE ReplayInv'
    OBVIOUS
<1>1. ASSUME call'.op # "replay"
      PROVE  ReplayInv'
    BY <1>1 DEF ReplayInv, SingletonsKept
<1>2. ASSUME call' = call, index' = index
      PROVE  ReplayInv'
    BY <1>2 DEF ReplayInv, SingletonsKept
<1>3. ASSUME NEW m, NEW live, NEW saves, Rebuild(m, live, saves)
      PROVE  ReplayInv'
    <2>1. CASE m.history # <<>>
        <3>1. index'.entities = {}
            BY <1>3, <2>1 DEF Rebuild, Empty
        <3>2. \A kind : AtMostOne(index'.entities, kind)
            BY <3>1 DEF AtMostOne, Kind
        <3>3. QED
            BY <3>1, <3>2 DEF ReplayInv, SingletonsKept
    <2>2. CASE m.history = <<>>
        <3>1. call'.op # "replay"
            BY <1>3, <2>2 DEF Rebuild, Idle
        <3>2. QED
            BY <1>1, <3>1
    <2>3. QED
        BY <2>1, <2>2
<1>4. CASE \/ \E b \in Blocks : ApplyBlock(b)
           \/ RollbackBlock \/ FinishBlock \/ RefuseTransaction \/ FinishUndo
           \/ RefuseHistory \/ RefuseMismatch \/ Crash \/ FinishReplay \/ FinishSaving
    <2>1. call'.op # "replay"
        BY <1>4 DEF ApplyBlock, RollbackBlock, FinishBlock, RefuseTransaction, FinishUndo,
                    RefuseHistory, RefuseMismatch, Crash, Exit, FinishReplay, FinishSaving, Idle
    <2>2. QED
        BY <1>1, <2>1
<1>5. CASE ApplyTransaction \/ StartSaving
    <2>1. call'.op # "replay"
        BY <1>5 DEF ApplyTransaction, StartSaving, IndexInv, CallSound
    <2>2. QED
        BY <1>1, <2>1
<1>6. CASE RollbackTip
    <2>1. call.op = "undo" /\ (call' = Idle \/ \E n : call' = [call EXCEPT !.left = n])
        BY <1>6 DEF RollbackTip
    <2>2. call'.op # "replay"
        BY <2>1 DEF Idle, IndexInv, CallSound
    <2>3. QED
        BY <1>1, <2>2
<1>7. CASE LoadIndex
    <2>1. call'.op # "replay"
        BY <1>7 DEF LoadIndex
    <2>2. QED
        BY <1>1, <2>1
<1>8. CASE RemoveIndex \/ (\E b \in Accepted : NodeMoves(b)) \/ UNCHANGED indexVars
    BY <1>2, <1>8 DEF RemoveIndex, NodeMoves, indexVars
<1>9. CASE \E m \in Manifests : IndexRpc(m) \/ IndexValidate(m)
    BY <1>3, <1>9 DEF IndexRpc, IndexValidate
<1>10. QED
    BY <1>4, <1>5, <1>6, <1>7, <1>8, <1>9, ReplayKeeps DEF IndexNext

(* Of any manifest whose singletons come from its deployment or from       *)
(* actions that say how many they create: validate_governance_action       *)
(* checks both sides of a transaction, so however the rest of the history  *)
(* is cut, doubled or forged, no part of it that is replayed gives the     *)
(* protocol two Governances, Roots, Reserves or Savings singletons.        *)
THEOREM OneOfEachReplayed == IndexSpec => []SingletonsKept
<1>1. IndexInit => ReplayInv
    BY DEF IndexInit, Idle, ReplayInv, SingletonsKept
<1>2. ReplayInv => SingletonsKept
    BY DEF ReplayInv
<1>3. QED
    BY <1>1, <1>2, ReplayInvStep, IndexInvariant, PTL DEF IndexSpec
=============================================================================
