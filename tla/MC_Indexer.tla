---------------------------- MODULE MC_Indexer ----------------------------
(***************************************************************************)
(* Two branches from the genesis of a deployment: one executes a proposal, *)
(* and goes on through every governed action; the other cancels it.        *)
(* Besides, blocks that do not apply and manifests that are incomplete or  *)
(* wrong.                                                                  *)
(***************************************************************************)
EXTENDS Indexer

E(kind, amount, rate, collateral, flag) ==
    [kind |-> kind, amount |-> amount, rate |-> rate, collateral |-> collateral, flag |-> flag]
Plain(kind) == E(kind, 0, 0, 0, FALSE)
Coins(amount) == E("Token", amount, 0, 0, FALSE)
Shares(amount) == E("EquityToken", amount, 0, 0, FALSE)
Proposal(activated) == E("ModuleProposal", 5, 0, 0, activated)
Fee == E("Governance", 2, 0, 0, FALSE)

(* A transaction: outputs are numbered from 1 in the order given. *)
Tx(id, action, consumed, outputs) ==
    [id |-> id, action |-> action,
     consumed |-> {[tx |-> o[1], index |-> o[2]] : o \in consumed},
     created |-> {[at |-> [tx |-> id, index |-> i], entity |-> outputs[i]] :
                      i \in DOMAIN outputs}]

genesis == Tx("genesis", "none", {},
    <<Fee, Plain("Root"), E("Reserve", 1, 3, 4, FALSE), Coins(1), Coins(2), Shares(3),
      Plain("SavingsGovernor"), Plain("SavingsController"), Plain("SavingsRegistry"), Coins(1)>>)
handover == Tx("handover", "RootHandover", {<<"genesis", 2>>}, <<Plain("Root")>>)
propose == Tx("propose", "ProposeModule", {<<"genesis", 1>>, <<"genesis", 5>>},
              <<Fee, Proposal(FALSE), Coins(2)>>)
activate == Tx("activate", "ActivateProposal", {<<"propose", 2>>}, <<Proposal(TRUE)>>)
execute == Tx("execute", "ExecuteModule",
              {<<"propose", 1>>, <<"activate", 1>>, <<"handover", 1>>, <<"propose", 3>>},
              <<Fee, Plain("Root"), Plain("Module"), Coins(2),
                E("Token", 0, 0, 0, TRUE), E("Token", 0, 0, 0, TRUE)>>)
cancel == Tx("cancel", "CancelExpiredProposal",
             {<<"propose", 1>>, <<"propose", 2>>, <<"propose", 3>>}, <<Fee, Coins(2)>>)
challenged == Tx("challenged", "none", {},
                 <<E("ChallengedPosition", 3, 0, 2, FALSE), Plain("Challenge"), Plain("Auction")>>)
propose2 == Tx("propose2", "ProposeModule", {<<"execute", 1>>, <<"execute", 4>>},
               <<Fee, Proposal(FALSE), Coins(2)>>)
lock == Tx("lock", "LockDelegation", {<<"genesis", 6>>},
           <<Shares(3), E("KpsDelegation", 3, 0, 0, FALSE)>>)
mature == Tx("mature", "MatureDelegation", {<<"lock", 1>>, <<"lock", 2>>},
             <<Shares(3), E("KpsDelegation", 3, 1, 0, FALSE)>>)
activate2 == Tx("activate2", "ActivateProposal", {<<"propose2", 2>>}, <<Proposal(TRUE)>>)
veto == Tx("veto", "VetoProposal",
           {<<"propose2", 1>>, <<"activate2", 1>>, <<"propose2", 3>>, <<"genesis", 3>>,
            <<"genesis", 4>>, <<"mature", 1>>, <<"mature", 2>>},
           <<Fee, E("Reserve", 3, 3, 4, FALSE), Coins(3), Shares(3),
             E("KpsDelegation", 3, 1, 0, FALSE)>>)
redelegate == Tx("redelegate", "Redelegate", {<<"veto", 4>>, <<"veto", 5>>},
                 <<Shares(3), E("KpsDelegation", 3, 0, 0, FALSE)>>)
unlock == Tx("unlock", "UnlockDelegation", {<<"redelegate", 1>>, <<"redelegate", 2>>},
             <<Shares(3)>>)
registry == Tx("registry", "InitializeSavingsRegistry", {<<"genesis", 9>>},
               <<E("SavingsRegistry", 1, 0, 0, TRUE)>>)
series == Tx("series", "ProposeSavings", {<<"genesis", 7>>},
             <<Plain("SavingsGovernor"), E("SavingsProposal", 0, 1, 0, FALSE)>>)
activateSeries == Tx("activateSeries", "ActivateSavingsProposal", {<<"series", 2>>},
                     <<E("SavingsProposal", 0, 1, 0, TRUE)>>)
executeSeries == Tx("executeSeries", "ExecuteSavingsSeries",
                    {<<"series", 1>>, <<"activateSeries", 1>>, <<"genesis", 8>>},
                    <<Plain("SavingsGovernor"), E("SavingsController", 0, 1, 0, TRUE)>>)
open == Tx("open", "OpenSavingsAccount", {<<"executeSeries", 2>>, <<"genesis", 10>>},
           <<E("SavingsController", 1, 1, 0, TRUE), E("SavingsAccount", 1, 1, 0, FALSE),
             Coins(1)>>)
refresh == Tx("refresh", "RefreshSavingsAccount",
              {<<"open", 1>>, <<"open", 2>>, <<"veto", 2>>, <<"registry", 1>>},
              <<E("SavingsController", 1, 1, 0, TRUE), E("SavingsAccount", 1, 1, 0, FALSE),
                E("Reserve", 2, 3, 4, FALSE), E("SavingsRegistry", 1, 0, 0, TRUE)>>)
close == Tx("close", "CloseSavingsAccount",
            {<<"refresh", 1>>, <<"refresh", 2>>, <<"open", 3>>},
            <<E("SavingsController", 0, 1, 0, TRUE), Coins(1)>>)

MCBlocks == {"G", "A", "B", "C", "D", "Spends", "Foreign", "Old"}
MCAccepted == {"G", "A", "B", "C", "D"}
MCParent == [b \in MCBlocks |-> CASE b = "G" -> "none" [] b \in {"A", "B"} -> "G"
                                   [] b = "C" -> "A" [] b = "D" -> "C" [] OTHER -> "A"]
MCDaa == [b \in MCBlocks |-> CASE b = "G" -> 1 [] b \in {"A", "B"} -> 2 [] b = "C" -> 3
                               [] b = "D" -> 4 [] b = "Old" -> 2 [] OTHER -> 3]
MCContents == [b \in MCBlocks |->
    CASE b = "G" -> <<genesis>>
      [] b = "A" -> <<handover, propose>>
      [] b = "B" -> <<challenged, propose, cancel>>
      [] b = "C" -> <<activate, execute>>
      [] b = "D" -> <<lock, mature, propose2, activate2, veto, redelegate, unlock, registry,
                      series, activateSeries, executeSeries, open, refresh, close>>
      [] b = "Spends" -> <<activate, cancel>>   \* cancel needs what activate has consumed
      [] b = "Foreign" -> <<activate, [execute EXCEPT !.id = "other"]>>
      [] b = "Old" -> <<activate>>]

History == [b \in MCAccepted |->
    CASE b = "G" -> MCContents["G"]
      [] b = "A" -> MCContents["G"] \o MCContents["A"]
      [] b = "B" -> MCContents["G"] \o MCContents["B"]
      [] b = "C" -> MCContents["G"] \o MCContents["A"] \o MCContents["C"]
      [] b = "D" -> MCContents["G"] \o MCContents["A"] \o MCContents["C"] \o MCContents["D"]]

Written(history, b) == [history |-> history, tracked |-> Ledger[b], mistaken |-> {}]
handoverTwice == Tx("handover2", "RootHandover", {}, <<Plain("Root")>>)
again == [at |-> [tx |-> "cancel", index |-> 1], entity |-> Coins(9)]

MCManifests ==
    {Written(History[b], b) : b \in {"B", "C", "D"}} \cup
    {Written(<<>>, "A"),
     Written(History["G"], "A"),                                \* a history cut short
     Written(Append(History["A"], handoverTwice), "A"),         \* a second Root
     [Written(History["B"], "B") EXCEPT !.mistaken = {again.at}],
     [Written(<<>>, "B") EXCEPT !.tracked = @ \cup {again}]}    \* an outpoint twice

MCTransactions ==
    UNION {{MCContents[b][i] : i \in DOMAIN MCContents[b]} : b \in MCBlocks}
        \cup {handoverTwice, [cancel EXCEPT !.created = {again}]}
=============================================================================
