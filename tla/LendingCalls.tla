---------------------------- MODULE LendingCalls ----------------------------
(***************************************************************************)
(* The client's side of Lending.  For each transaction a builder takes     *)
(* ProtocolParams, which a script filled in from the UTXOs it found,       *)
(* compiles the covenant it is going to spend from them, and writes down   *)
(* the successor states and the tokens that covenant shall find created,   *)
(* or it refuses the parameters.  The terms of the Module are left out,    *)
(* since nothing changes them.  DAA scores count from its creation.        *)
(***************************************************************************)
EXTENDS Lending, Calls, Sequences

(* ProtocolParams of Position p, as its UTXOs say.  remaining is free but  *)
(* for the Module's own transactions: no script of a Position depends on it. *)
ParamsOf(p) ==
    [owner |-> position[p].owner, challenger |-> challenge[p].challenger,
     debt |-> position[p].debt, assigned |-> position[p].assigned,
     collateral |-> position[p].collateral, remaining |-> MintAllocation,
     opened |-> module.opened, reserve |-> reserve]

(* Parameters for a transaction that has nothing to do with a Position.    *)
AnyParams ==
    [owner |-> 1, challenger |-> 1, debt |-> 1, assigned |-> 0,
     collateral |-> MinimumCollateral, remaining |-> MintAllocation,
     opened |-> module.opened, reserve |-> reserve]

(* validate: every builder compiles all the covenants, and none of them    *)
(* unless the parameters make an indebted Position the Module could mint.  *)
Valid(c) ==
    /\ c.debt > 0 /\ c.debt <= MaxDebtPerPosition /\ c.debt <= c.remaining
    /\ c.assigned \in 0..c.debt
    /\ c.collateral >= MinimumCollateral

(* Constructor arguments: the states of the covenants spent. *)
PositionArgs(c) == [owner |-> c.owner, debt |-> c.debt, assigned |-> c.assigned]
ChallengedPositionArgs(c) == [owner |-> c.owner, debt |-> c.debt, assigned |-> c.assigned]
AuctionArgs(c) == [owner |-> c.owner, challenger |-> c.challenger, debt |-> c.debt,
                   assigned |-> c.assigned, collateral |-> c.collateral]
ChallengeArgs(c) == [owner |-> c.owner, challenger |-> c.challenger, debt |-> c.debt,
                     assigned |-> c.assigned, collateral |-> c.collateral]
AnchorArgs(c) == ChallengeArgs(c)
ModuleArgs(c) == [remaining |-> c.remaining, opened |-> c.opened]
ReserveArgs(kusdBooked, kps, acquired) ==
    [kusd |-> kusdBooked, kps |-> kps, collateral |-> acquired]

(* State expressions: the successors announced. *)
PositionState(c) == [owner |-> c.owner, debt |-> c.debt, assigned |-> c.assigned]
NewPositionState(c) == [owner |-> c.owner, debt |-> c.debt, assigned |-> c.assigned]
ChallengeState(c, challenger) ==
    [owner |-> c.owner, challenger |-> challenger, debt |-> c.debt,
     assigned |-> c.assigned, collateral |-> c.collateral]
AuctionState(c, challenger) ==
    [owner |-> c.owner, challenger |-> challenger, debt |-> c.debt,
     assigned |-> c.assigned, collateral |-> c.collateral]
ModuleState(c) == [remaining |-> c.remaining, opened |-> c.opened]
ReserveState(c) ==
    [kusd |-> c.reserve.kusd, kps |-> c.reserve.kps, collateral |-> c.reserve.collateral]

(* The successor UTXO of a Module or a Position: the parameters of the     *)
(* former are validated as they will be, those of the latter as they are.  *)
CompileModuleState(c, remaining, opened) ==
    LET state == [c EXCEPT !.remaining = remaining, !.opened = opened]
    IN  Artifact(Valid(state), ModuleArgs(state))
CompilePositionState(c, debt, assigned) ==
    Artifact(Valid(c), PositionArgs([c EXCEPT !.debt = debt, !.assigned = assigned]))

-----------------------------------------------------------------------------
(* MintingModule *)

(* base_module_open_call, `term` being expirationDaa - currentDaa. *)
ModuleOpenCall(c, term) ==
    LET feePpm == (RiskPremiumPpm * term) \div DaaPerYear
        contribution == MulDivFloor(c.debt, ReserveContributionPpm, PPM)
        fee == MulDivFloor(c.debt, feePpm, PPM)
        usable == c.debt - contribution - fee
    IN  Call(/\ Valid(c)
             /\ term >= 0
             /\ ReserveContributionPpm + feePpm < PPM
             /\ contribution = c.assigned
             /\ usable > 0,
             ModuleArgs(c),
             [module |-> ModuleState([c EXCEPT !.remaining = @ - c.debt, !.opened = @ + 1]),
              position |-> NewPositionState(c)],
             [owner |-> usable, position |-> contribution, reserve |-> fee])

-----------------------------------------------------------------------------
(* Position *)

(* Mutant: the assigned reserve of a last repayment is floored as well. *)
PositionRepayCallFlooring(c, amount) ==
    LET burn == MulPpm(amount, ReserveContributionPpm)
        after == [c EXCEPT !.debt = @ - amount, !.assigned = @ - burn]
    IN  Call(amount \in 1..c.debt /\ Valid(c), PositionArgs(c), PositionState(after),
             [position |-> after.assigned])

PositionRepayCall(c, amount) ==
    LET burn == IF amount = c.debt THEN c.assigned ELSE MulPpm(amount, ReserveContributionPpm)
        after == [c EXCEPT !.debt = @ - amount, !.assigned = @ - burn]
    IN  Call(amount \in 1..c.debt /\ Valid(c), PositionArgs(c), PositionState(after),
             [position |-> after.assigned])

(* A repaid Position is compiled by a caller whose parameters still say    *)
(* what it once owed.                                                      *)
PositionCloseCall(c) ==
    Call(Valid(c), PositionArgs([c EXCEPT !.debt = 0, !.assigned = 0]), <<>>, <<>>)

StartChallengeCall(c, challenger) ==
    Call(Valid(c), PositionArgs(c),
         [position |-> PositionState(c), challenge |-> ChallengeState(c, challenger)], <<>>)

-----------------------------------------------------------------------------
(* ChallengeAnchor, Challenge, Auction and ChallengedPosition *)

AnchorInitCall(c, challenger) ==
    Call(Valid(c), AnchorArgs(c), ChallengeState(c, challenger), <<>>)

ChallengeActivateCall(c, challenger) ==
    Call(Valid(c), ChallengeArgs(c), AuctionState(c, challenger), <<>>)

ChallengedPositionAvertCall(c, challenger) ==
    Call(Valid(c), ChallengedPositionArgs(c),
         [position |-> PositionState(c), challenge |-> ChallengeState(c, challenger)], <<>>)

ChallengeAvertCall(c) ==
    Call(Valid(c), ChallengeArgs(c), <<>>,
         [challenger |-> (c.collateral * LiquidationPrice) \div SompiPerKas])

PositionSettleCall(c) == Call(Valid(c), ChallengedPositionArgs(c), <<>>, <<>>)

(* base_auction_settle_call: what the bidder's KUSD is divided into. *)
AuctionSettleCall(c, elapsed) ==
    LET reward == MulPpm(c.debt, RewardPpm)
        floorPayment == c.debt - c.assigned + reward
        price == (c.collateral * LiquidationPrice) \div SompiPerKas
        startPayment == IF price > floorPayment THEN price ELSE floorPayment
        discount == MulDivFloor(startPayment - floorPayment, elapsed, AuctionDuration)
    IN  Call(Valid(c) /\ elapsed \in 0..AuctionDuration, AuctionArgs(c), <<>>,
             [challenger |-> reward, owner |-> startPayment - discount - floorPayment])

(* The Reserve's next totals are the caller's. *)
AuctionBackstopCall(c, challenger, nextKusd, nextCollateral) ==
    Call(Valid(c), AuctionArgs(c),
         ReserveState([c EXCEPT !.reserve.kusd = nextKusd, !.reserve.collateral = nextCollateral]),
         [challenger |-> (c.debt * RewardPpm) \div PPM])

ReserveBackstopCall(c, challenger, nextKusd, nextCollateral) ==
    Call(Valid(c), ReserveArgs(c.reserve.kusd, c.reserve.kps, c.reserve.collateral),
         [reserve |-> ReserveState([c EXCEPT !.reserve.kusd = nextKusd,
                                             !.reserve.collateral = nextCollateral]),
          auction |-> AuctionState(c, challenger)],
         [reserve |-> nextKusd, challenger |-> (c.debt * RewardPpm) \div PPM])

-----------------------------------------------------------------------------
(* EquityReserve *)

(* base_reserve_initialize_call: the parameters hold the new totals. *)
ReserveInitializeCall(c, amount) ==
    Call(Valid(c), ReserveArgs(0, 0, 0), ReserveState(c),
         [reserve |-> amount, depositor |-> amount])

ReserveRedeemCall(c, burned) ==
    LET payout == (burned * c.reserve.kusd) \div c.reserve.kps
        payoutKas == (burned * c.reserve.collateral) \div c.reserve.kps
        after == [c EXCEPT !.reserve.kusd = @ - payout, !.reserve.kps = @ - burned,
                           !.reserve.collateral = @ - payoutKas]
    IN  Call(/\ burned \in 1..c.reserve.kps
             /\ Valid(c)
             /\ payout # 0 \/ payoutKas # 0,
             ReserveArgs(c.reserve.kusd, c.reserve.kps, c.reserve.collateral),
             ReserveState(after),
             [reserve |-> after.reserve.kusd, redeemer |-> payout])

-----------------------------------------------------------------------------
(* What the covenants hold, in the form the builders write it. *)

PositionOf(pos) == [owner |-> pos.owner, debt |-> pos.debt, assigned |-> pos.assigned]
LineageOf(pos, c) == [owner |-> pos.owner, challenger |-> c.challenger, debt |-> c.debt,
                      assigned |-> c.assigned, collateral |-> c.collateral]
ModuleOf(m) == [remaining |-> m.remaining, opened |-> m.opened]
ReserveOf(r) == [kusd |-> r.kusd, kps |-> r.kps, collateral |-> r.collateral]

Received(u) == kusd'[u] - kusd[u]
Becomes(p, before, after) == position[p].stage = before /\ position'[p].stage = after
LineageBecomes(p, before, after) ==
    challenge[p].stage = before /\ challenge'[p].stage = after

(* Several receivers of one transaction may be the same wallet. *)
Together(u, payments) ==
    SumTo([i \in 1..Len(payments) |-> IF payments[i][1] = u THEN payments[i][2] ELSE 0],
          Len(payments))

OpenBuilt(p) ==
    LET c == [ParamsOf(p) EXCEPT !.owner = position'[p].owner, !.debt = position'[p].debt,
                                 !.assigned = position'[p].assigned,
                                 !.collateral = position'[p].collateral,
                                 !.remaining = module.remaining]
        successor == CompileModuleState(c, module'.remaining, module'.opened)
    IN  Becomes(p, "unopened", "active") =>
            /\ \E lockTime \in module.since..now :
                  LET call == ModuleOpenCall(c, ExpirationDaa - lockTime)
                  IN  /\ call.built
                      /\ call.spent = ModuleOf(module)
                      /\ call.next = [module |-> ModuleOf(module'),
                                      position |-> PositionOf(position'[p])]
                      /\ call.paid = [owner |-> Received(c.owner), position |-> assignedToken'[p],
                                      reserve |-> feeToken'[p]]
            /\ module'.remaining >= c.debt =>
                  successor = Artifact(TRUE, ModuleOf(module'))

RepayBuilt(p) ==
    LET c == ParamsOf(p)
        call == PositionRepayCall(c, position[p].debt - position'[p].debt)
    IN  Becomes(p, "active", "active") /\ position'[p].debt < position[p].debt =>
            /\ call = Call(TRUE, PositionOf(position[p]), PositionOf(position'[p]),
                           [position |-> assignedToken'[p]])
            /\ CompilePositionState(c, position'[p].debt, position'[p].assigned)
                   = Artifact(TRUE, PositionOf(position'[p]))

CloseBuilt(p) ==
    LET once == [ParamsOf(p) EXCEPT !.debt = 1]
    IN  Becomes(p, "active", "closed") =>
            PositionCloseCall(once) = Call(TRUE, PositionOf(position[p]), <<>>, <<>>)

(* A Position that owes less than its assigned reserve can be challenged,  *)
(* and its Challenge activated or averted, but not with these builders.    *)
ChallengeBuilt(p) ==
    LET c == ParamsOf(p)
        challenger == challenge'[p].challenger
    IN  c.assigned <= c.debt =>
            /\ Becomes(p, "active", "challenged") =>
                  StartChallengeCall(c, challenger)
                      = Call(TRUE, PositionOf(position[p]),
                             [position |-> PositionOf(position'[p]),
                              challenge |-> LineageOf(position'[p], challenge'[p])], <<>>)
            /\ LineageBecomes(p, "anchor", "challenge") =>
                  AnchorInitCall(c, challenger)
                      = Call(TRUE, LineageOf(position[p], challenge[p]),
                             LineageOf(position'[p], challenge'[p]), <<>>)
            /\ LineageBecomes(p, "challenge", "auction") =>
                  ChallengeActivateCall(c, challenger)
                      = Call(TRUE, LineageOf(position[p], challenge[p]),
                             LineageOf(position'[p], challenge'[p]), <<>>)

(* The buyer's own balance tells nothing when it is the challenger. *)
AvertBuilt(p) ==
    LET c == ParamsOf(p)
        lineage == LineageOf(position[p], challenge[p])
        call == ChallengeAvertCall(c)
    IN  Becomes(p, "challenged", "active") /\ c.assigned <= c.debt =>
            /\ ChallengedPositionAvertCall(c, c.challenger)
                   = Call(TRUE, PositionOf(position[p]),
                          [position |-> PositionOf(position'[p]), challenge |-> lineage], <<>>)
            /\ call.built /\ call.spent = lineage
            /\ Received(c.challenger) \in {0, call.paid.challenger}

SettleBuilt(p) ==
    LET c == ParamsOf(p)
    IN  Becomes(p, "challenged", "liquidated") /\ reserve' = reserve =>
            /\ PositionSettleCall(c) = Call(TRUE, PositionOf(position[p]), <<>>, <<>>)
            /\ \E elapsed \in 0..AuctionDuration, bidder \in Users :
                  LET call == AuctionSettleCall(c, elapsed)
                      payment == FloorPayment(c.debt, c.assigned) + call.paid.owner
                  IN  /\ call.built
                      /\ call.spent = LineageOf(position[p], challenge[p])
                      /\ \A u \in Users :
                            Received(u) = Together(u, <<<<bidder, 0 - payment>>,
                                                        <<c.owner, call.paid.owner>>,
                                                        <<c.challenger, call.paid.challenger>>>>)

BackstopBuilt(p) ==
    LET c == ParamsOf(p)
        reward == Received(c.challenger)
    IN  Becomes(p, "challenged", "liquidated") /\ reserve' # reserve =>
            /\ AuctionBackstopCall(c, c.challenger, reserve'.kusd, reserve'.collateral)
                   = Call(TRUE, LineageOf(position[p], challenge[p]), ReserveOf(reserve'),
                          [challenger |-> reward])
            /\ ReserveBackstopCall(c, c.challenger, reserve'.kusd, reserve'.collateral)
                   = Call(TRUE, ReserveOf(reserve),
                          [reserve |-> ReserveOf(reserve'),
                           auction |-> LineageOf(position[p], challenge[p])],
                          [reserve |-> reserveToken', challenger |-> reward])

ReserveBuilt ==
    /\ reserve'.initialized /\ ~reserve.initialized =>
          \E u \in Users :
              ReserveInitializeCall([AnyParams EXCEPT !.reserve = reserve'], reserve'.kusd)
                  = Call(TRUE, ReserveOf(reserve), ReserveOf(reserve'),
                         [reserve |-> reserveToken', depositor |-> 0 - Received(u)])
    /\ reserve'.kps < reserve.kps =>
          \E u \in Users :
              ReserveRedeemCall(AnyParams, reserve.kps - reserve'.kps)
                  = Call(TRUE, ReserveOf(reserve), ReserveOf(reserve'),
                         [reserve |-> reserveToken', redeemer |-> Received(u)])

(* Whatever step the covenants accept, by whomever and in whatever state,  *)
(* the client can build from what it finds on the chain, and it announces  *)
(* to every covenant exactly what the covenants then create: two programs  *)
(* in two languages round, order and default alike.                        *)
LendingBuilt ==
    [][/\ \A p \in Positions :
             /\ OpenBuilt(p) /\ RepayBuilt(p) /\ CloseBuilt(p) /\ ChallengeBuilt(p)
             /\ AvertBuilt(p) /\ SettleBuilt(p) /\ BackstopBuilt(p)
       /\ ReserveBuilt]_vars
=============================================================================
