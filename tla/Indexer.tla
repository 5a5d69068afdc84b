------------------------------ MODULE Indexer ------------------------------
(***************************************************************************)
(* The UTXO index of src/indexer.rs with its two callers: a follower that  *)
(* applies and rolls back blocks, and the `kusd index-rpc` command, which  *)
(* replays a deployment manifest, compares the result with a node's answer *)
(* and saves it.  A block or a history is applied one transaction at a     *)
(* time (`call` is the call in progress); the process may stop anywhere,   *)
(* and the node's selected chain may change anywhere.                      *)
(*                                                                         *)
(* An entity's fields are folded into a few: `amount` is the amount, debt, *)
(* allocation, saved or kusd_balance of its kind (proposal_fee_kusd of     *)
(* Governance), `rate` the weight, total_kps or current_rate_ppm, `flag`   *)
(* is_minter, activated, enabled or initialized.                           *)
(***************************************************************************)
EXTENDS Amounts, Sums, Sequences, FiniteSets, FiniteSetsExt

CONSTANTS
    Transactions,     \* [id, action, consumed, created]
    Blocks, Genesis,  \* the block DAG's tree of selected parents
    Parent, Daa,      \* of a block: its parent, its DAA score
    Contents,         \* of a block: the sequence of its transactions
    Accepted,         \* the blocks a node can select
    Manifests,        \* deployment manifests an operator may write
    MaxI64            \* the largest amount a checked addition returns

ASSUME IndexAssumption ==
    /\ Genesis \in Blocks
    /\ Accepted \subseteq Blocks /\ Genesis \in Accepted
    /\ Parent[Genesis] \notin Blocks
    /\ \A b \in Blocks : Daa[b] \in Nat
    /\ \A b \in Accepted \ {Genesis} : Parent[b] \in Accepted /\ Daa[Parent[b]] < Daa[b]
    /\ MaxI64 \in Nat
    /\ \A b \in Blocks : Contents[b] \in Seq(Transactions)
    /\ \A m \in Manifests : /\ m.history \in Seq(Transactions)
                            /\ m.tracked \subseteq UNION {t.created : t \in Transactions}

(* GovernanceAction; a transaction of a manifest may also name none. *)
Actions == {"RootHandover", "ProposeModule", "ActivateProposal", "ExecuteModule", "VetoProposal",
            "CancelExpiredProposal", "LockDelegation", "MatureDelegation", "Redelegate",
            "UnlockDelegation", "ExecuteSavingsSeries", "InitializeSavingsRegistry",
            "OpenSavingsAccount", "RefreshSavingsAccount", "CloseSavingsAccount",
            "ProposeSavings", "ActivateSavingsProposal"}

ASSUME TransactionAssumption ==
    \A t \in Transactions : /\ IsFiniteSet(t.consumed) /\ IsFiniteSet(t.created)
                            /\ t.action \in Actions \cup {"none"}

VARIABLES
    index,   \* the process's Indexer: [entities, totals, journal, blocks]
    call,    \* the call in progress
    file,    \* the saved index: absent, torn or saved
    tip,     \* the node's selected tip
    past     \* observer: the snapshots before each journal entry, oldest first

indexVars == <<index, call, file, tip, past>>

-----------------------------------------------------------------------------
(* Entities and what is derived from them *)

Kind(live, kind) == {x \in live : x.entity.kind = kind}

Amount(x) == x.entity.amount
Votes(x) == x.entity.amount * x.entity.rate
Sum(live) == MapThenSumSet(Amount, live)

Tokens(live) == {x \in Kind(live, "Token") : ~x.entity.flag}
EquityTokens(live) == {x \in Kind(live, "EquityToken") : ~x.entity.flag}
Indebted(live) == Kind(live, "Position") \cup Kind(live, "ChallengedPosition")
Activated(live) == {x \in Kind(live, "ModuleProposal") : x.entity.flag}

(* What recalculate refuses. *)
Derivable(live) ==
    /\ \A total \in {Sum(Tokens(live)), Sum(Indebted(live)), Sum(EquityTokens(live)),
                     Sum(Kind(live, "ModuleProposal")), Sum(Kind(live, "KpsDelegation")),
                     MapThenSumSet(Votes, Kind(live, "KpsDelegation")),
                     Sum(Kind(live, "SavingsAccount"))} : total <= MaxI64
    /\ \A kind \in {"Reserve", "SavingsController", "SavingsRegistry"} :
           Cardinality(Kind(live, kind)) <= 1
    /\ \A x \in Kind(live, "Reserve") : x.entity.amount >= 0 /\ x.entity.rate >= 0
    /\ \A x \in Kind(live, "KpsDelegation") : x.entity.amount > 0 /\ x.entity.rate >= 0
    /\ \A x \in Kind(live, "SavingsAccount") : x.entity.amount > 0
    /\ \A x \in Kind(live, "SavingsController") :
           /\ x.entity.amount = Sum(Kind(live, "SavingsAccount"))
           /\ x.entity.rate \in 0..PPM
    /\ \A x \in Kind(live, "SavingsRegistry") : x.entity.flag = (x.entity.amount # 0)
    /\ Cardinality(Activated(live)) <= 1

(* The aggregates of the Snapshot. *)
Totals(live) ==
    LET First(kind, none) == IF Kind(live, kind) = {} THEN none
                             ELSE (CHOOSE x \in Kind(live, kind) : TRUE).entity
        nothing == [amount |-> 0, rate |-> 0, collateral |-> 0, flag |-> FALSE]
        reserve == First("Reserve", nothing)
        controller == First("SavingsController", nothing)
    IN [circulatingSupply |-> Sum(Tokens(live)),
        positionDebt |-> Sum(Indebted(live)),
        kpsSupply |-> Sum(EquityTokens(live)),
        reserve |-> <<reserve.amount, reserve.rate, reserve.collateral>>,
        activeGovernanceProposals |-> Cardinality(Activated(live)),
        proposedModuleAllocation |-> Sum(Kind(live, "ModuleProposal")),
        delegatedKps |-> Sum(Kind(live, "KpsDelegation")),
        weightedKpsVotes |-> MapThenSumSet(Votes, Kind(live, "KpsDelegation")),
        savings |-> <<controller.flag, controller.rate, Sum(Kind(live, "SavingsAccount")),
                      Cardinality(Kind(live, "SavingsAccount"))>>,
        challenges |-> [kind \in {"ChallengedPosition", "Challenge", "Auction"} |->
                            Cardinality(Kind(live, kind))]]

(* The totals an AppliedTransaction carries: all but the Reserve's. *)
Previous(totals) == [totals EXCEPT !.reserve = <<>>]

Empty == [entities |-> {}, totals |-> Totals({}), journal |-> <<>>, blocks |-> <<>>]

-----------------------------------------------------------------------------
(* apply and rollback_tip *)

Outpoints(live) == {x.at : x \in live}
Distinct(live) == \A x, y \in live : x.at = y.at => x = y
Without(live, outpoints) == {x \in live : x.at \notin outpoints}
With(live, new) == Without(live, Outpoints(new)) \cup new

After(live, t) == With(Without(live, t.consumed), t.created)

Applicable(live, t) ==
    /\ t.consumed \subseteq Outpoints(live)
    /\ \A x \in t.created : x.at.tx = t.id
    /\ Outpoints(t.created) \cap Outpoints(Without(live, t.consumed)) = {}
    /\ Distinct(t.created)
    /\ Derivable(After(live, t))

Entry(ix, t) == [id |-> t.id,
                 consumed |-> {x \in ix.entities : x.at \in t.consumed},
                 created |-> Outpoints(t.created),
                 previous |-> Previous(ix.totals)]

Applied(ix, t) == [ix EXCEPT !.entities = After(@, t),
                             !.totals = Totals(After(ix.entities, t)),
                             !.journal = Append(@, Entry(ix, t))]

Top(s) == s[Len(s)]
Pop(s) == SubSeq(s, 1, Len(s) - 1)

UndoneKeepingCreated(live, entry) == With(live, entry.consumed)

Undone(live, entry) == With(Without(live, entry.created), entry.consumed)

RolledBackWithoutRecalculate(ix) ==
    [ix EXCEPT !.entities = Undone(@, Top(ix.journal)),
               !.totals = [Top(ix.journal).previous EXCEPT !.reserve = ix.totals.reserve],
               !.journal = Pop(@)]

(* The totals of the journal are put back, then derived anew. *)
RolledBack(ix) ==
    LET live == Undone(ix.entities, Top(ix.journal))
    IN [ix EXCEPT !.entities = live,
                  !.totals = IF Derivable(live) THEN Totals(live)
                             ELSE [Top(ix.journal).previous EXCEPT !.reserve = ix.totals.reserve],
                  !.journal = Pop(@)]

-----------------------------------------------------------------------------
(* apply_block and rollback_block *)

Idle == [op |-> "idle"]

(* What the observer keeps: the snapshot before an entry, and what made it. *)
View(ix, by) == [entities |-> ix.entities, totals |-> ix.totals, by |-> by]

ApplyBlock(b) ==
    /\ call.op = "idle"
    /\ index.blocks # <<>> => /\ Top(index.blocks).hash = Parent[b]
                              /\ Daa[b] > Top(index.blocks).daa
    /\ call' = [op |-> "apply", block |-> b, next |-> 1, checkpoint |-> Len(index.journal)]
    /\ UNCHANGED <<index, file, tip, past>>

ApplyTransaction ==
    /\ call.op = "apply" /\ call.next <= Len(Contents[call.block])
    /\ LET t == Contents[call.block][call.next]
       IN /\ Applicable(index.entities, t)
          /\ index' = Applied(index, t)
          /\ past' = Append(past, View(index, "block"))
    /\ call' = [call EXCEPT !.next = @ + 1]
    /\ UNCHANGED <<file, tip>>

RefuseTransactionOnly ==
    /\ call.op = "apply" /\ call.next <= Len(Contents[call.block])
    /\ ~Applicable(index.entities, Contents[call.block][call.next])
    /\ call' = Idle
    /\ UNCHANGED <<index, file, tip, past>>

(* A transaction that does not apply undoes the block's earlier ones. *)
RefuseTransaction ==
    /\ call.op = "apply" /\ call.next <= Len(Contents[call.block])
    /\ ~Applicable(index.entities, Contents[call.block][call.next])
    /\ call' = [op |-> "undo", left |-> Len(index.journal) - call.checkpoint]
    /\ UNCHANGED <<index, file, tip, past>>

FinishBlockCountingAll ==
    /\ call.op = "apply" /\ call.next > Len(Contents[call.block])
    /\ index' = [index EXCEPT !.blocks =
                    Append(@, [hash |-> call.block, parent |-> Parent[call.block],
                               daa |-> Daa[call.block], count |-> Len(index.journal)])]
    /\ call' = Idle
    /\ UNCHANGED <<file, tip, past>>

FinishBlock ==
    /\ call.op = "apply" /\ call.next > Len(Contents[call.block])
    /\ index' = [index EXCEPT !.blocks =
                    Append(@, [hash |-> call.block, parent |-> Parent[call.block],
                               daa |-> Daa[call.block],
                               count |-> Len(index.journal) - call.checkpoint])]
    /\ call' = Idle
    /\ UNCHANGED <<file, tip, past>>

(* Asked for any other hash than the last block's, it changes nothing. *)
RollbackBlock ==
    /\ call.op = "idle" /\ index.blocks # <<>>
    /\ call' = [op |-> "undo", left |-> Top(index.blocks).count]
    /\ index' = [index EXCEPT !.blocks = Pop(@)]
    /\ UNCHANGED <<file, tip, past>>

RollbackTip ==
    /\ call.op = "undo" /\ call.left > 0 /\ index.journal # <<>>
    /\ index' = RolledBack(index)
    /\ past' = Pop(past)
    /\ call' = IF Derivable(index'.entities) THEN [call EXCEPT !.left = @ - 1] ELSE Idle
    /\ UNCHANGED <<file, tip>>

FinishUndo ==
    /\ call.op = "undo" /\ call.left = 0
    /\ call' = Idle
    /\ UNCHANGED <<index, file, tip, past>>

-----------------------------------------------------------------------------
(* The manifest: validate_live_utxos, validate_governance_action and the   *)
(* replay of its history                                                   *)

(* What each governed action consumes and creates: how many UTXOs of each  *)
(* kind named, others being free.                                          *)
Shape(action) ==
    CASE action = "RootHandover" ->
             [consumed |-> [Root |-> 1], created |-> [Root |-> 1]]
      [] action = "ProposeModule" ->
             [consumed |-> [Governance |-> 1, Reserve |-> 0, Token |-> 1],
              created |-> [Governance |-> 1, ModuleProposal |-> 1, Reserve |-> 0, Token |-> 1]]
      [] action = "ActivateProposal" ->
             [consumed |-> [ModuleProposal |-> 1], created |-> [ModuleProposal |-> 1]]
      [] action = "ExecuteModule" ->
             [consumed |-> [Governance |-> 1, ModuleProposal |-> 1, Root |-> 1, Token |-> 1],
              created |-> [Governance |-> 1, Root |-> 1, Module |-> 1, Token |-> 3]]
      [] action = "VetoProposal" ->
             [consumed |-> [Governance |-> 1, ModuleProposal |-> 1, Reserve |-> 1, Token |-> 2],
              created |-> [Governance |-> 1, Reserve |-> 1, Token |-> 1]]
      [] action = "CancelExpiredProposal" ->
             [consumed |-> [Governance |-> 1, ModuleProposal |-> 1, Token |-> 1],
              created |-> [Governance |-> 1, ModuleProposal |-> 0, Token |-> 1]]
      [] action = "LockDelegation" ->
             [consumed |-> [EquityToken |-> 1],
              created |-> [EquityToken |-> 1, KpsDelegation |-> 1]]
      [] action \in {"MatureDelegation", "Redelegate"} ->
             [consumed |-> [KpsDelegation |-> 1, EquityToken |-> 1],
              created |-> [KpsDelegation |-> 1, EquityToken |-> 1]]
      [] action = "UnlockDelegation" ->
             [consumed |-> [KpsDelegation |-> 1, EquityToken |-> 1],
              created |-> [KpsDelegation |-> 0, EquityToken |-> 1]]
      [] action = "ProposeSavings" ->
             [consumed |-> [SavingsGovernor |-> 1],
              created |-> [SavingsGovernor |-> 1, SavingsProposal |-> 1]]
      [] action = "ActivateSavingsProposal" ->
             [consumed |-> [SavingsProposal |-> 1], created |-> [SavingsProposal |-> 1]]
      [] action = "ExecuteSavingsSeries" ->
             [consumed |-> [SavingsGovernor |-> 1, SavingsProposal |-> 1,
                            SavingsController |-> 1],
              created |-> [SavingsGovernor |-> 1, SavingsController |-> 1]]
      [] action = "InitializeSavingsRegistry" ->
             [consumed |-> [SavingsRegistry |-> 1], created |-> [SavingsRegistry |-> 1]]
      [] action = "OpenSavingsAccount" ->
             [consumed |-> [SavingsController |-> 1, Token |-> 1],
              created |-> [SavingsController |-> 1, SavingsAccount |-> 1, Token |-> 1]]
      [] action = "RefreshSavingsAccount" ->
             [consumed |-> [SavingsController |-> 1, SavingsAccount |-> 1, Reserve |-> 1,
                            SavingsRegistry |-> 1],
              created |-> [SavingsController |-> 1, SavingsAccount |-> 1, Reserve |-> 1,
                           SavingsRegistry |-> 1]]
      [] action = "CloseSavingsAccount" ->
             [consumed |-> [SavingsController |-> 1, SavingsAccount |-> 1, Token |-> 1],
              created |-> [SavingsController |-> 1, SavingsAccount |-> 0, Token |-> 1]]

(* Where the proposal fee goes, for the actions that move it. *)
FeeMoves(action, consumed, created) ==
    LET fee == Sum(Kind(consumed, "Governance"))
        held == Sum(Tokens(consumed))
        left == Sum(Tokens(created))
    IN CASE action = "ProposeModule" -> fee > 0 /\ held = fee /\ left = fee
         [] action = "ExecuteModule" ->
                /\ held = fee /\ left = fee
                /\ Cardinality(Kind(created, "Token") \ Tokens(created)) = 2
         [] action = "CancelExpiredProposal" -> held = fee /\ left = fee
         [] action = "VetoProposal" ->
                /\ fee > 0 /\ held = left
                /\ Sum(Kind(consumed, "Reserve")) + fee = Sum(Kind(created, "Reserve"))
                /\ Kind(consumed, "KpsDelegation") # {}
                /\ \A kind \in {"KpsDelegation", "EquityToken"} :
                       Cardinality(Kind(consumed, kind)) = Cardinality(Kind(created, kind))
         [] OTHER -> TRUE

WellShapedCreated(live, t) ==
    t.action # "none" =>
        \A kind \in DOMAIN Shape(t.action).created :
            Cardinality(Kind(t.created, kind)) = Shape(t.action).created[kind]

WellShaped(live, t) ==
    LET consumed == {x \in live : x.at \in t.consumed}
        Fits(side, counts) == \A kind \in DOMAIN counts :
                                  Cardinality(Kind(side, kind)) = counts[kind]
    IN t.action # "none" =>
       /\ t.consumed \subseteq Outpoints(live)
       /\ Fits(consumed, Shape(t.action).consumed)
       /\ Fits(t.created, Shape(t.action).created)
       /\ FeeMoves(t.action, consumed, t.created)

(* The unspent outputs after each of a sequence of transactions. *)
Successive(before, txs) ==
    LET states[n \in 0..Len(txs)] == IF n = 0 THEN before ELSE After(states[n - 1], txs[n])
    IN  states

(* The unspent outputs of a chain of blocks. *)
Ledger[b \in Accepted] ==
    Successive(IF b = Genesis THEN {} ELSE Ledger[Parent[b]], Contents[b])[Len(Contents[b])]

(* The index is no validator of scripts: of the blocks that go on from one *)
(* a node accepts, it can refuse only those that do not apply.             *)
ASSUME RefusedAssumption ==
    \A b \in Blocks \ Accepted :
        Parent[b] \in Accepted /\ Daa[Parent[b]] < Daa[b] =>
            \E n \in 1..Len(Contents[b]) :
                ~Applicable(Successive(Ledger[Parent[b]], Contents[b])[n - 1], Contents[b][n])

(* What the node answers for the tracked outputs. *)
Live(m, b) == Outpoints(m.tracked) \cap Outpoints(Ledger[b])

(* index-rpc: an outpoint tracked twice, an entry recorded with another    *)
(* address or covenant id than the node's, or an index file that does not  *)
(* parse, ends the command.  A readable file is not used.  index-validate  *)
(* takes the tracked outputs for live and saves nothing.                   *)
Rebuild(m, live, saves) ==
    /\ call.op = "idle"
    /\ IF m.history # <<>>
       THEN /\ index' = Empty
            /\ call' = [op |-> "replay", manifest |-> m, next |-> 1, live |-> live,
                        saves |-> saves]
       ELSE LET kept == {x \in m.tracked : x.at \in live}
            IN IF Distinct(kept) /\ Derivable(kept)
               THEN /\ index' = [Empty EXCEPT !.entities = kept, !.totals = Totals(kept)]
                    /\ call' = IF saves THEN [op |-> "save", live |-> live] ELSE Idle
               ELSE index' = Empty /\ call' = Idle
    /\ past' = <<>>
    /\ UNCHANGED <<file, tip>>

IndexRpc(m) ==
    /\ Distinct(m.tracked) /\ m.mistaken \cap Live(m, tip) = {}
    /\ file.state # "torn"
    /\ Rebuild(m, Live(m, tip), TRUE)

IndexValidate(m) == Rebuild(m, Outpoints(m.tracked), FALSE)

ReplayTransaction ==
    /\ call.op = "replay" /\ call.next <= Len(call.manifest.history)
    /\ LET t == call.manifest.history[call.next]
       IN /\ WellShaped(index.entities, t) /\ Applicable(index.entities, t)
          /\ index' = Applied(index, t)
          /\ past' = Append(past, View(index, "history"))
    /\ call' = [call EXCEPT !.next = @ + 1]
    /\ UNCHANGED <<file, tip>>

(* The process ends and its memory with it. *)
Exit ==
    /\ index' = Empty /\ past' = <<>> /\ call' = Idle
    /\ UNCHANGED <<file, tip>>

RefuseHistory ==
    /\ call.op = "replay" /\ call.next <= Len(call.manifest.history)
    /\ LET t == call.manifest.history[call.next]
       IN ~WellShaped(index.entities, t) \/ ~Applicable(index.entities, t)
    /\ Exit

MatchesUnlessMissing(m, live) ==
    Outpoints(m.tracked) \cap live \subseteq Outpoints(index.entities)

Matches(m, live) == Outpoints(index.entities) = Outpoints(m.tracked) \cap live

RefuseMismatch ==
    /\ call.op = "replay" /\ call.next > Len(call.manifest.history)
    /\ ~Matches(call.manifest, call.live)
    /\ Exit

FinishReplay ==
    /\ call.op = "replay" /\ call.next > Len(call.manifest.history)
    /\ Matches(call.manifest, call.live)
    /\ call' = IF call.saves THEN [op |-> "save", live |-> call.live] ELSE Idle
    /\ UNCHANGED <<index, file, tip, past>>

(* save truncates the file, then writes it. *)
StartSaving ==
    /\ call.op = "save"
    /\ file' = [state |-> "torn"]
    /\ call' = [call EXCEPT !.op = "write"]
    /\ UNCHANGED <<index, tip, past>>

FinishSaving ==
    /\ call.op = "write"
    /\ file' = [state |-> "saved", index |-> index, past |-> past, live |-> call.live]
    /\ call' = Idle
    /\ UNCHANGED <<index, tip, past>>

LoadIndex ==
    /\ call.op = "idle" /\ file.state = "saved" /\ index # file.index
    /\ index' = file.index /\ past' = file.past
    /\ UNCHANGED <<call, file, tip>>

Crash ==
    /\ call # Idle \/ index # Empty
    /\ Exit

(* A torn index has to be removed by hand. *)
RemoveIndex ==
    /\ call.op = "idle" /\ file.state # "absent"
    /\ file' = [state |-> "absent"]
    /\ UNCHANGED <<index, call, tip, past>>

(* The node selects another chain. *)
NodeMoves(b) ==
    /\ tip' = b /\ b # tip
    /\ UNCHANGED <<index, call, file, past>>

IndexInit ==
    /\ index = Empty /\ call = Idle /\ file = [state |-> "absent"]
    /\ tip = Genesis /\ past = <<>>

IndexNext ==
    \/ \E b \in Blocks : ApplyBlock(b)
    \/ \E b \in Accepted : NodeMoves(b)
    \/ \E m \in Manifests : IndexRpc(m) \/ IndexValidate(m)
    \/ ApplyTransaction \/ RefuseTransaction \/ FinishBlock
    \/ RollbackBlock \/ RollbackTip \/ FinishUndo
    \/ ReplayTransaction \/ RefuseHistory \/ RefuseMismatch \/ FinishReplay
    \/ StartSaving \/ FinishSaving \/ LoadIndex \/ RemoveIndex \/ Crash

IndexSpec == IndexInit /\ [][IndexNext]_indexVars

-----------------------------------------------------------------------------
(* Properties *)

(* Journal entries that the blocks say they hold. *)
Counted(blocks) == SumTo([i \in 1..Len(blocks) |-> blocks[i].count], Len(blocks))

(* Types; and the journal is never shorter than what the blocks, and a     *)
(* rollback in progress, say it holds.                                     *)
IndexTypeOK ==
    /\ DOMAIN index = {"entities", "totals", "journal", "blocks"}
    /\ Distinct(index.entities)
    /\ Len(past) = Len(index.journal)
    /\ call.op \in {"idle", "apply", "undo", "replay", "save", "write"}
    /\ Counted(index.blocks) + (IF call.op = "undo" THEN call.left ELSE 0) <= Len(index.journal)
    /\ file.state \in {"absent", "torn", "saved"}
    /\ tip \in Accepted

(* Whatever was applied and rolled back, in memory or in the file, the     *)
(* totals shown are those of the entities shown, the Reserve's included,   *)
(* and the entities are ones recalculate accepts.                          *)
TotalsCurrent ==
    /\ index.totals = Totals(index.entities) /\ Derivable(index.entities)
    /\ file.state = "saved" => /\ file.index.totals = Totals(file.index.entities)
                               /\ Derivable(file.index.entities)

(* The journal undoes: rolling back any number of its entries, newest      *)
(* first, gives back the entities that were there before them.             *)
JournalUndoes ==
    \A n \in 1..Len(index.journal) :
        LET after == IF n = Len(index.journal) THEN index.entities ELSE past[n + 1].entities
        IN Undone(after, index.journal[n]) = past[n].entities

(* The entities after the first n entries of the journal. *)
At(n) == IF n = Len(index.journal) THEN index.entities ELSE past[n + 1].entities

(* It was empty before the first entry of the journal, no entry is of a    *)
(* replayed history, and Genesis is the first block.                       *)
BuiltFromGenesis ==
    /\ index.blocks # <<>> /\ index.blocks[1].hash = Genesis
    /\ At(0) = {} /\ \A n \in 1..Len(past) : past[n].by = "block"

(* An index built from Genesis by applying and rolling back blocks, with   *)
(* whatever refused blocks in between, holds the unspent outputs of the    *)
(* chain that ends in its last block.                                      *)
IndexIsChain ==
    call.op = "idle" /\ BuiltFromGenesis =>
        /\ Top(index.blocks).hash \in Accepted
        /\ index.entities = Ledger[Top(index.blocks).hash]

(* Nothing that was spent when the node was asked is in a saved index.     *)
SavedWasLive ==
    file.state = "saved" => Outpoints(file.index.entities) \subseteq file.live

(* A history whose singletons come from its first transaction, the         *)
(* deployment, or from actions of which the index knows how many they      *)
(* create.                                                                 *)
Singletons == {"Governance", "Root", "Reserve", "SavingsGovernor", "SavingsController",
               "SavingsRegistry"}
AtMostOne(live, kind) == \A x, y \in Kind(live, kind) : x = y
Orderly(history) ==
    \A n \in 1..Len(history), kind \in Singletons :
        LET t == history[n]
        IN  \/ Kind(t.created, kind) = {}
            \/ n = 1 /\ AtMostOne(t.created, kind)
            \/ t.action # "none" /\ kind \in DOMAIN Shape(t.action).created

(* However such a history is cut or forged, with transactions missing,     *)
(* doubled or robbed of their inputs, no part of it that is replayed gives *)
(* the protocol two of what it has one of.                                 *)
SingletonsKept ==
    call.op = "replay" /\ Orderly(call.manifest.history) =>
        \A kind \in Singletons : AtMostOne(index.entities, kind)
=============================================================================
