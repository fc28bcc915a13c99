----------------------------- MODULE MCFrontends ----------------------------
(* What people use: the wizards and the commands of the trading bot, the      *)
(* release scripts, the accounts of the wallet, and its send page.  These     *)
(* share no variable, so that a behaviour has one of them, and of the wizards *)
(* a few (part).                                                              *)
EXTENDS Operator, WalletFront, Functions, TLC

VARIABLE part

commandVars == <<enabled, owes, inbox, got, done, busy, todo, errors, lines,
                 stray, touched, sought, faults, crashes>>
releaseVars == <<packed, tree, holds, current, undo, runs, up, script>>
accountVars == <<now, sessions, knownUsers, username, owner, default, request, talk, had>>
pageVars == <<phase, point, tab, here, ask, tries, shown, ins, erred, verdict, marks,
              life, worth, late, told, overlap, reopened>>

operatorVars == <<vars, commandVars, releaseVars>>
walletVars == <<accountVars, pageVars>>

(* 1 is more than the minimum of PEPEW/BNB and than the bot's of NestEx, 2    *)
(* also more than the registry's of NestEx and than that of PEPEW/USDT on     *)
(* NonKYC, and nothing is more than that of Dex-Trade.                        *)
OwnMinima == <<"nonkyc", "BNB">> :> 0 @@ <<"nonkyc", "USDT">> :> 1
             @@ <<"nestex", "USDT">> :> 0 @@ <<"dextrade", "USDT">> :> 2
Minima == [OwnMinima EXCEPT ![<<"nestex", "USDT">>] = 1]
MinimaOfMm == "nestex" :> 1
ModeConfig == [m \in Modes |-> IF m = "BNB" THEN <<"nonkyc", "BNB">>
                                            ELSE <<"dextrade", "USDT">>]

(* Two wizards beside each other, or one with the keyboards of two exchanges.  *)
Talk(W, X) == [on |-> "wizards", wizards |-> W, exchanges |-> X]
Parts == {Talk({"DCA", "KEYS"}, {"nonkyc"}), Talk({"MM", "KEYS"}, {"nonkyc"}),
          Talk({"DCA", "MM"}, {"nestex"}), Talk({"GRID"}, {"nonkyc", "nestex"}),
          Talk({"DCA"}, {"nonkyc", "nestex"}),
          [on |-> "MM and DEVMM"], [on |-> "DCA and GRID"], [on |-> "three failures"],
          [on |-> "releases"], [on |-> "names"], [on |-> "bills"],
          [on |-> "one tab"], [on |-> "two tabs"]}
Commanding == {[on |-> "MM and DEVMM"], [on |-> "DCA and GRID"], [on |-> "three failures"]}

(* The properties are those of Cmd, Acc and Page.  Of the constants they      *)
(* depend on the items, addresses and jobs only, and say nothing of an item   *)
(* that no update addresses: so the smaller instances are checked with them.  *)
AllStrategies == "m" :> "MM" @@ "v" :> "DEVMM" @@ "d" :> "DCA" @@ "g" :> "GRID" @@ "h" :> "GRID"
AllExchanges == [i \in DOMAIN AllStrategies |-> IF i = "h" THEN "nestex" ELSE "nonkyc"]
BothExchanges == <<"nonkyc", "nestex">>

(* An MM and a DEVMM on one exchange, or a DCA and two GRIDs on two, with one *)
(* update at a time but two failures, for both tries of a cancellation.       *)
Near == INSTANCE BotCommands WITH
          Items <- {"m", "v"}, Strategy <- Restrict(Strategy, {"m", "v"}),
          ExchangeOf <- Restrict(ExchangeOf, {"m", "v"}), Menu <- <<"nonkyc">>
Apart == INSTANCE BotCommands WITH
          Items <- {"d", "g", "h"}, Strategy <- Restrict(Strategy, {"d", "g", "h"}),
          ExchangeOf <- Restrict(ExchangeOf, {"d", "g", "h"}),
          MaxUnread <- 1, MaxFaults <- 2, MaxCrashes <- 0

(* A third failure, of which the answer of an exchange names two.             *)
Thrice == INSTANCE BotCommands WITH
            Items <- {"v", "h"}, Strategy <- Restrict(Strategy, {"v", "h"}),
            ExchangeOf <- Restrict(ExchangeOf, {"v", "h"}),
            MaxUnread <- 1, MaxFaults <- 3, MaxCrashes <- 0

(* Two users and two addresses; with names, or with a payment request that is *)
(* over when the clock moves.                                                 *)
Named == INSTANCE Accounts WITH
           known <- knownUsers, Names <- {"n"}, Requests <- Bills, MaxTime <- 0

(* Two tabs, each of which may pay by itself; or one with everything that can *)
(* happen, and outputs that make up the sum only together with change.        *)
Equal == <<2, 2>>
FeeDeducted == {[amount |-> 2, fee |-> 1, less |-> TRUE]}
OneTab == INSTANCE SendPage WITH
            at <- point, Tabs <- {"l"}, Coins <- 1..3, Deposits <- <<3, 1>>,
            Forms <- {[amount |-> 1, fee |-> 1, less |-> FALSE]},
            MaxInputs <- 1, Retries <- 1, Troubles <- {"gateway", "reload", "leave", "time"}

ASSUME /\ Cmd!CommandsAssumption /\ Near!CommandsAssumption /\ Apart!CommandsAssumption
       /\ Thrice!CommandsAssumption
       /\ Release!DeployAssumption
       /\ Acc!AccountsAssumption /\ Named!AccountsAssumption
       /\ Page!PageAssumption /\ OneTab!PageAssumption

(* No wizard and no exchange from outside the part. *)
Within ==
    /\ Pending \subseteq part.wizards
    /\ \A w \in Wizards : wizard[w].exchange \in part.exchanges \cup {None}
    /\ \A x \in Offered \ part.exchanges : keys[x] = None
    /\ saving # None => saving.kind \in part.wizards

(* Of the four names two seconds have, three are taken: a rollback, a deploy of   *)
(* the same second and one of the next are among them.                           *)
ThreeReleases == \E r \in Release!Names : ~Release!Exists(r)

NoKeys == [x \in Offered |-> None]

FrontendsInit ==
    /\ part \in Parts
    /\ Init /\ (IF part.on = "wizards" THEN Within ELSE keys = NoKeys)
    /\ CASE part.on = "DCA and GRID" -> Apart!Init
         [] part.on = "three failures" -> Thrice!Init
         [] OTHER -> Near!Init
    /\ part \notin Commanding => owes = {}
    /\ Release!Init
    /\ IF part.on = "bills" THEN Acc!Init ELSE Named!Init
    /\ IF part.on = "two tabs" THEN Page!Init ELSE OneTab!Init

FrontendsNext ==
    /\ part' = part
    /\ \/ /\ part.on = "wizards"
          /\ Next /\ Within'
          /\ UNCHANGED <<commandVars, releaseVars, walletVars>>
       \/ /\ part.on = "MM and DEVMM"
          /\ Near!Next
          /\ UNCHANGED <<vars, releaseVars, walletVars>>
       \/ /\ part.on = "DCA and GRID"
          /\ Apart!Next
          /\ UNCHANGED <<vars, releaseVars, walletVars>>
       \/ /\ part.on = "three failures"
          /\ Thrice!Next
          /\ UNCHANGED <<vars, releaseVars, walletVars>>
       \/ /\ part.on = "releases"
          /\ Release!Next /\ ThreeReleases'
          /\ UNCHANGED <<vars, commandVars, walletVars>>
       \/ /\ part.on = "names"
          /\ Named!Next
          /\ UNCHANGED <<request, operatorVars, pageVars>>
       \/ /\ part.on = "bills"
          /\ Acc!Next
          /\ UNCHANGED <<operatorVars, pageVars>>
       \/ /\ part.on = "one tab"
          /\ OneTab!Next
          /\ UNCHANGED <<operatorVars, accountVars>>
       \/ /\ part.on = "two tabs"
          /\ Page!Next
          /\ UNCHANGED <<operatorVars, accountVars>>

Frontends == FrontendsInit /\ [][FrontendsNext]_<<part, operatorVars, walletVars>>
==============================================================================
