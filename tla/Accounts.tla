------------------------------ MODULE Accounts ------------------------------
(***************************************************************************)
(* The accounts of wallet-api: its tables of users, addresses and payment  *)
(* requests, the routes of the Mini App that read and write them, and the  *)
(* commands of the wallet's bot, which ask the same server for an address  *)
(* and then for what is known of it.  A handler of a route is synchronous, *)
(* so it is one action, except that the process may die between two of its *)
(* statements; a command awaits two requests.                              *)
(***************************************************************************)
EXTENDS Integers, FiniteSets

CONSTANTS
  Users,      \* Telegram ids
  Names,      \* their usernames
  Addresses,  \* those that the checks of the routes accept
  Requests,   \* ids of payment requests
  Ttl,        \* PAYREQ_TTL_SEC
  MaxTime,    \* the clock ends
  Nobody, NoName, NoAddress

AccountsAssumption == Nobody \notin Users /\ NoAddress \notin Addresses

VARIABLES
  now,
  sessions,   \* users who hold a token that is still good
  known,      \* rows of the table user, and
  username,   \* their names
  owner,      \* rows of user_address: to whom an address belongs, and
  default,    \* which of them are marked as default
  request,    \* rows of payment_request
  talk,       \* what the bot is about to answer each user, and
  had         \* history: the defaults the user has had since the command

tables == <<known, username, owner, default, request>>
chat == <<talk, had>>
vars == <<now, sessions, tables, chat>>

Open == {"pending", "claimed", "expired"}
Row == [status : Open \union {"none"}, to : Users \union {Nobody}, due : Int,
        address : Addresses \union {NoAddress}]
NoRequest == [status |-> "none", to |-> Nobody, due |-> 0, address |-> NoAddress]
Silent == [what |-> "nothing", address |-> NoAddress]

Init ==
  /\ now = 0 /\ sessions = {} /\ known = {}
  /\ username = [u \in Users |-> NoName]
  /\ owner = [a \in Addresses |-> Nobody] /\ default = {}
  /\ request = [q \in Requests |-> NoRequest]
  /\ talk = [u \in Users |-> Silent] /\ had = [u \in Users |-> {}]
-----------------------------------------------------------------------------
(* The statements of db.ts *)

DefaultsOf(u) == {a \in default : owner[a] = u}

\* upsertUser: it writes the name it is given, also none.
Upsert(u, n) == known' = known \union {u} /\ username' = [username EXCEPT ![u] = n]

\* The transaction of setDefaultAddress: the user's other defaults are reset, and
\* the address becomes the user's, whoever had it; and without the reset.
MarkedToo(u, a) == default \union {a}
Marked(u, a) == (default \ DefaultsOf(u)) \union {a}
SetDefaultAddress(u, a) ==
  /\ Upsert(u, NoName)
  /\ default' = Marked(u, a) /\ owner' = [owner EXCEPT ![a] = u]
  /\ had' = [v \in Users |-> IF talk[v] # Silent THEN had[v] \union (IF v = u THEN {a} ELSE {}) ELSE had[v]]

\* An expiry is noticed when somebody looks.
Over(q) == request[q].due < now
Expire(q) == request' = [request EXCEPT ![q].status = "expired"]

\* claimPaymentRequest refuses what is not pending; and one that refuses only
\* what is expired.
Unexpired(q) == request[q].status # "expired"
Claimable(q) == request[q].status = "pending"
-----------------------------------------------------------------------------
(* The routes *)

\* /auth/telegram signs a token for whom Telegram vouches, and it runs out.
Authenticate(u) ==
  /\ u \notin sessions /\ sessions' = sessions \union {u}
  /\ UNCHANGED <<now, tables, chat>>
TokenExpires ==
  /\ \E u \in sessions : sessions' = sessions \ {u}
  /\ UNCHANGED <<now, tables, chat>>

requireAuth(u) == u \in sessions

\* /v1/profile/upsert
UpsertProfile(u) ==
  /\ requireAuth(u) /\ \E n \in Names \union {NoName} : Upsert(u, n)
  /\ UNCHANGED <<now, sessions, owner, default, request, chat>>

\* POST /v1/address/default; the process may die before the transaction.
ChangeDefault(u, a) ==
  /\ requireAuth(u)
  /\ \/ SetDefaultAddress(u, a)
     \/ Upsert(u, NoName) /\ UNCHANGED <<owner, default, had>>
  /\ UNCHANGED <<now, sessions, request, talk>>

\* POST /v1/requests
CreateRequest(u, q, v) ==
  /\ requireAuth(u) /\ request[q] = NoRequest
  /\ Upsert(u, NoName)
  /\ request' = [request EXCEPT ![q] = [status |-> "pending", to |-> v, due |-> now + Ttl,
                                        address |-> NoAddress]]
  /\ UNCHANGED <<now, sessions, owner, default, chat>>

\* POST /v1/requests/:id/claim, one transaction with the new default address.
ClaimRequest(u, q, a) ==
  /\ requireAuth(u) /\ request[q].status \in Open /\ request[q].to = u /\ Claimable(q)
  /\ IF Over(q)
     THEN Expire(q) /\ UNCHANGED <<known, username, owner, default, had>>
     ELSE /\ request' = [request EXCEPT ![q].status = "claimed", ![q].address = a]
          /\ SetDefaultAddress(u, a)
  /\ UNCHANGED <<now, sessions, talk>>

\* GET /v1/requests/:id, by anyone with a token.
ReadRequest(q) ==
  /\ sessions # {} /\ request[q].status = "pending" /\ Over(q) /\ Expire(q)
  /\ UNCHANGED <<now, sessions, known, username, owner, default, chat>>
-----------------------------------------------------------------------------
(* The bot *)

\* /start, which also tells the server the user's name.
StartCommand(u) ==
  /\ \E n \in Names \union {NoName} : Upsert(u, n)
  /\ UNCHANGED <<now, sessions, owner, default, request, chat>>

\* What the commands of one user share is in the tables, so that one of them at a
\* time stands for those that overlap.
Begins(u, what) ==
  /\ talk[u] = Silent
  /\ talk' = [talk EXCEPT ![u] = [what |-> what, address |-> NoAddress]]
  /\ had' = [had EXCEPT ![u] = DefaultsOf(u)]
  /\ UNCHANGED <<now, sessions, tables>>

\* A deposit needs the address, a balance and a history also what is known of it.
DepositCommand(u) == Begins(u, "address")
BalanceCommand(u) == Begins(u, "more")
HistoryCommand(u) == Begins(u, "more")

\* The buttons under an earlier answer ask for the same three.
BalanceButton(u) == Begins(u, "more")
DepositButton(u) == Begins(u, "address")
HistoryButton(u) == Begins(u, "more")

Answers(u) ==
  /\ talk' = [talk EXCEPT ![u] = Silent] /\ had' = [had EXCEPT ![u] = {}]
  /\ UNCHANGED <<now, sessions, tables>>

\* GET /v1/address/default for the user the bot signs for (resolveUserDetail): a
\* user without a default is told to choose one, and a deposit is answered.
AddressArrives(u) ==
  /\ talk[u] # Silent /\ talk[u].address = NoAddress
  /\ \/ (DefaultsOf(u) = {} \/ talk[u].what = "address") /\ Answers(u)
     \/ /\ talk[u].what = "more"
        /\ \E a \in DefaultsOf(u) : talk' = [talk EXCEPT ![u].address = a]
        /\ UNCHANGED <<now, sessions, tables, had>>

\* The balance or the history of that address arrives; or a request fails.
Told(u) == talk[u].address # NoAddress /\ Answers(u)
Breaks(u) == talk[u] # Silent /\ Answers(u)

Tick == now < MaxTime /\ now' = now + 1 /\ UNCHANGED <<sessions, tables, chat>>

\* wallet-api starts again: the tables remain, and so do the tokens.
Restart ==
  /\ talk' = [u \in Users |-> Silent] /\ had' = [u \in Users |-> {}]
  /\ UNCHANGED <<now, sessions, tables>>

Next ==
  \/ \E u \in Users :
       \/ Authenticate(u) \/ UpsertProfile(u) \/ StartCommand(u)
       \/ BalanceCommand(u) \/ HistoryCommand(u) \/ DepositCommand(u)
       \/ BalanceButton(u) \/ HistoryButton(u) \/ DepositButton(u)
       \/ AddressArrives(u) \/ Told(u) \/ Breaks(u)
       \/ \E a \in Addresses : ChangeDefault(u, a) \/ \E q \in Requests : ClaimRequest(u, q, a)
       \/ \E q \in Requests, v \in Users : CreateRequest(u, q, v)
  \/ \E q \in Requests : ReadRequest(q)
  \/ TokenExpires \/ Tick \/ Restart

Spec == Init /\ [][Next]_vars
-----------------------------------------------------------------------------
(* Properties *)

TypeOK ==
  /\ now \in Nat /\ sessions \subseteq Users /\ known \subseteq Users
  /\ username \in [Users -> Names \union {NoName}]
  /\ owner \in [Addresses -> Users \union {Nobody}] /\ default \subseteq Addresses
  /\ request \in [Requests -> Row]
  /\ talk \in [Users -> [what : {"nothing", "address", "more"},
                         address : Addresses \union {NoAddress}]]
  /\ had \in [Users -> SUBSET Addresses]

\* Whoever asks for a user's address gets one answer: a user has at most one
\* default, through claims, changes, and addresses that move from one user to
\* another; and every address has an owner with a row.
OneDefault ==
  /\ \A a, b \in default : owner[a] = owner[b] => a = b
  /\ \A a \in Addresses : owner[a] # Nobody => owner[a] \in known
  /\ \A a \in default : owner[a] # Nobody

\* A payment request is settled once: what is claimed or expired stays so with
\* its address; it is claimed by its addressee, in time, and with the claim its
\* address becomes the addressee's default, or neither; nothing expires early.
SettledOnce ==
  \A q \in Requests :
    /\ request[q].status \in {"claimed", "expired"} => request'[q] = request[q]
    /\ request[q].status # "claimed" /\ request'[q].status = "claimed" =>
         /\ request[q].status = "pending" /\ now <= request[q].due
         /\ request[q].to \in sessions
         /\ request'[q].address \in default' /\ owner'[request'[q].address] = request[q].to
    /\ request[q].status # "expired" /\ request'[q].status = "expired" => request[q].due < now
ClaimsAreFinal == [][SettledOnce]_vars

\* The bot speaks to a user only of an address that was the user's default at some
\* moment of the command, although addresses change hands between its requests.
SpeaksOfOwn == \A u \in Users : talk[u].address \in had[u] \union {NoAddress}
=============================================================================
