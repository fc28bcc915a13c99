----------------------------- MODULE WalletFront ----------------------------
(* What the user of the wallet sees: the accounts and payment requests of the *)
(* Mini App and its bot, and the send page.  They share no variable.  Their   *)
(* properties are stated for any of their constants.                          *)

CONSTANTS
    Users, Usernames, Addresses, Bills, Ttl, MaxTime,
    Nobody, NoName, NoAddress,                                     \* Accounts
    Tabs, Jobs, Coins, Deposits, Forms, Dust, MaxInputs, Retries,
    Troubles                                                       \* SendPage

VARIABLES
    now, sessions, knownUsers, username, owner, default, request, talk, had,  \* Accounts
    phase, point, tab, here, ask, tries, shown, ins, erred, verdict, marks,
    life, worth, late, told, overlap, reopened                                \* SendPage

Acc == INSTANCE Accounts WITH
         known <- knownUsers, Names <- Usernames, Requests <- Bills
Page == INSTANCE SendPage WITH at <- point

(* A user has one default address at most, through claims and moves.          *)
OneDefault == Acc!OneDefault

(* A payment request is settled once, by its addressee, in time.              *)
ClaimsAreFinal == Acc!ClaimsAreFinal

(* A page sends one payment at a time, but for a refresh that began in an error. *)
OneSendPerTab == Page!OneSendPerTab

(* No tab selects an output that one of them knows to be spent.               *)
AvoidsSpent == Page!AvoidsSpent
==============================================================================
