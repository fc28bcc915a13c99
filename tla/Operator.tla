------------------------------ MODULE Operator ------------------------------
(* What the operator of the trading bot uses: the wizards, the commands and   *)
(* buttons, and the release scripts.  They share no variable.  The properties *)
(* of the commands and of the scripts are stated for any of their constants.  *)
EXTENDS BotWizards

CONSTANTS
    Items, Strategy, ExchangeOf, Menu, MaxUnread, MaxFaults, MaxCrashes,  \* BotCommands
    Versions, Faulty, Units, Main, SmokeSet, EnvFiles, Seconds            \* ReleaseDeploy

VARIABLES
    enabled, owes, inbox, got, done, busy, todo, errors, lines, stray, touched,
    sought, faults, crashes,                                   \* BotCommands
    packed, tree, holds, current, undo, runs, up, script       \* ReleaseDeploy

Cmd == INSTANCE BotCommands
Release == INSTANCE ReleaseDeploy

(* A stop is heard by every strategy it addresses, or its answer names those  *)
(* that did not hear it, two for each exchange.                               *)
StopIsHeard == Cmd!StopIsHeard

(* The last button for a strategy decides, crashes and failures included.     *)
LastWordWins == Cmd!LastWordWins

(* When a script says that it is complete, the release is in service.         *)
CompleteIsTrue == Release!CompleteIsTrue

(* A rollback undoes the deploy, and finds what that replaced as it was.      *)
RollbackUndoes == Release!RollbackUndoes
==============================================================================
