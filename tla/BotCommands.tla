----------------------------- MODULE BotCommands -----------------------------
(****************************************************************************)
(* The commands and buttons of the Telegram bot that start and stop          *)
(* strategies (services/trade-bot/src/commands), and the calls they make to  *)
(* trade-api.  grammY takes a batch of updates from Telegram, handles them   *)
(* one after the other, and confirms them with its next request: after a     *)
(* crash the whole batch is delivered, and handled, again.  A call fails     *)
(* with or without effect, and a request whose reply was lost, or whose      *)
(* sender crashed, may take effect later.                                    *)
(*                                                                           *)
(* An item is a configuration of DCA, GRID or MM, or the DEVMM of an         *)
(* exchange.  An update is its verb and the items it addresses: one for the  *)
(* buttons of a configuration (start, stop), those of a strategy for the     *)
(* commands (/start, /stop) and their Stop All (stopall), those of an        *)
(* exchange, or all, for the stop menu (exchange), and those of DEVMM        *)
(* (startall, stopall).                                                      *)
(****************************************************************************)
EXTENDS Naturals, Sequences, SequencesExt, FiniteSets

CONSTANTS
    Items,        \* the configurations, and the DEVMM of each exchange
    Strategy,     \* DCA, GRID, MM or DEVMM, of each item
    ExchangeOf,   \* the exchange of each item
    Menu,         \* the exchanges in the order in which Stop All visits them
    MaxUnread,    \* bound on the updates that are not confirmed
    MaxFaults, MaxCrashes

(* What the constants must be. *)
CommandsAssumption ==
    /\ IsFiniteSet(Items)
    /\ Strategy \in [Items -> {"DCA", "GRID", "MM", "DEVMM"}]
    /\ Menu \in Seq(Range(Menu)) /\ ExchangeOf \in [Items -> Range(Menu)]
    /\ {MaxUnread, MaxFaults, MaxCrashes} \subseteq Nat

VARIABLES
    enabled,   \* the flag of each item in the database of trade-api
    owes,      \* items whose orders nobody was asked to cancel since they ran
    inbox,     \* the updates Telegram holds because they are not confirmed
    got,       \* how many of them were delivered
    done,      \* how many of those were handled
    busy,      \* an update is being handled
    todo,      \* the calls its handler has still to make, the first under way
    errors,    \* items of which a call failed in this batch, last time
    lines,     \* the failures the handler noted for its answer, in order
    stray,     \* requests whose sender no longer waits
    touched,   \* items that a stray request or a runner changed since then
    sought,    \* the items addressed that ran when the update was begun
    faults, crashes

vars == <<enabled, owes, inbox, got, done, busy, todo, errors, lines, stray,
          touched, sought, faults, crashes>>
queue == <<inbox, got, done>>
flags == <<enabled, owes>>

Of(strategy) == {i \in Items : Strategy[i] = strategy}
At(x) == {i \in Items : ExchangeOf[i] = x}
Running(S) == {i \in S : enabled[i]}
Only(S) == CHOOSE i \in S : TRUE

(* What the user may press or type, now or in an old message. *)
Buttons == [verb : {"start", "stop"}, items : {{i} : i \in Items}]
           \cup [verb : {"/start", "/stop", "stopall"}, items : {Of(s) : s \in {"DCA", "GRID", "MM"}}]
           \cup [verb : {"startall", "stopall"}, items : {Of("DEVMM")}]
           \cup [verb : {"exchange"}, items : {At(x) : x \in Range(Menu)} \cup {Items}]
Pressable == {u \in Buttons : u.items # {} /\ (u.verb = "stopall" => u.items # Of("DCA"))}

Current == inbox[done + 1]

------------------------------------------------------------------------------
(* The calls of a handler, each for items of one exchange or of any.  A      *)
(* listing is a call whose answer decides which calls follow, and bears the  *)
(* name of the verb; a cancellation may have a second try.                   *)
Call(do, x, S, again) == [do |-> do, at |-> x, items |-> S, again |-> again]
One(do, i) == <<Call(do, ExchangeOf[i], {i}, FALSE)>>
ForEach(S, Steps(_)) == FlattenSeq([n \in 1..Cardinality(S) |-> Steps(SetToSeq(S)[n])])

(* stopGridConfigs and stopMmConfigs *)
StopConfig(i) == One("disable", i) \o One("cancel", i)

(* The route that stops a DCA cancels, and the bot asks for it once more. *)
StopDca(i) == One("disable", i) \o One("cancel", i)

StartDevmm(i) == One("enable", i)
StopDevmm(i) == One("disable", i)

(* In the stop menu the cancellations of GRID and MM are tried twice, and a  *)
(* DCA is left to its route.                                                 *)
StopFirmly(i) ==
    IF Strategy[i] = "DCA" THEN One("disable", i)
                           ELSE One("disable", i) \o <<Call("cancel", ExchangeOf[i], {i}, TRUE)>>

(* stopByExchange *)
StopAt(x, S) ==
    LET here == S \cap At(x) IN
    <<Call("list DCA", x, here \cap Of("DCA"), FALSE),
      Call("list rest", x, here \cap (Of("GRID") \cup Of("MM")), FALSE)>>
    \o ForEach(here \cap Of("DEVMM"), StopDevmm)

(* What each callback and command begins with. *)
DcaButton(u) == IF u.verb = "start" THEN One("enable", Only(u.items)) ELSE StopDca(Only(u.items))

ConfigButton(u) == IF u.verb = "start" THEN One("enable", Only(u.items))
                                       ELSE <<Call(u.verb, "any", u.items, FALSE)>>

DevmmButton(u) == IF u.verb \in {"start", "startall"} THEN ForEach(u.items, StartDevmm)
                                                      ELSE ForEach(u.items, StopDevmm)

StopMenu(u) == FlattenSeq([n \in 1..Len(Menu) |-> StopAt(Menu[n], u.items)])

Plan(u) ==
    CASE u.verb = "exchange" -> StopMenu(u)
      [] u.verb \in {"/start", "/stop"} -> <<Call(u.verb, "any", u.items, FALSE)>>
      [] u.verb \notin {"exchange", "/start", "/stop"} ->
           CASE u.items \subseteq Of("DCA") -> DcaButton(u)
             [] u.items \subseteq Of("DEVMM") -> DevmmButton(u)
             [] OTHER -> ConfigButton(u)

IsListing(s) == s.do \notin {"enable", "disable", "cancel"}

(* /dca_start starts the only configuration, /grid_start and /mm_start the   *)
(* only one that is stopped, /dca_stop, /grid_stop and /mm_stop end the only *)
(* one that runs; otherwise the bot shows a keyboard.                        *)
StartTheDca(S) == IF Cardinality(S) = 1 THEN One("enable", Only(S)) ELSE <<>>

StartTheIdle(S) ==
    LET idle == S \ Running(S) IN
    IF Cardinality(idle) = 1 THEN One("enable", Only(idle)) ELSE <<>>

StopTheRunning(S) ==
    CASE Cardinality(Running(S)) # 1 -> <<>>
      [] Cardinality(Running(S)) = 1 /\ S \subseteq Of("DCA") -> StopDca(Only(Running(S)))
      [] Cardinality(Running(S)) = 1 /\ ~(S \subseteq Of("DCA")) -> StopConfig(Only(Running(S)))

StopAllOf(S) == ForEach(Running(S), StopConfig)

(* The calls that follow a listing. *)
Follow(s) ==
    CASE s.do = "/start" /\ s.items \subseteq Of("DCA") -> StartTheDca(s.items)
      [] s.do = "/start" /\ ~(s.items \subseteq Of("DCA")) -> StartTheIdle(s.items)
      [] s.do = "/stop" -> StopTheRunning(s.items)
      [] s.do = "stop" -> StopConfig(Only(s.items))
      [] s.do = "stopall" -> StopAllOf(s.items)
      [] s.do = "list DCA" -> ForEach(Running(s.items), StopFirmly)
      [] s.do = "list rest" -> ForEach(Running(s.items) \cap Of("GRID"), StopFirmly)
                               \o ForEach(Running(s.items) \cap Of("MM"), StopFirmly)

(* A failure is noted for the answer, of the items of the call or of those   *)
(* the listing might have led to, unless a cancellation is tried again, or   *)
(* was the second of a DCA.                                                  *)
NotedAtOnce(s) == s.do # "cancel"  \* a mutant
Noted(s) == ~(s.do = "cancel" /\ (s.again \/ s.items \subseteq Of("DCA")))

(* What the answer tells of them: the stop menu's has one line for each      *)
(* exchange, with a warning and its first two failures; the others have a    *)
(* line, or a message, for each.                                             *)
FailuresAt(x) == {n \in DOMAIN lines : lines[n].at = x}
Told(n) ==
    \/ Current.verb # "exchange"
    \/ Cardinality({m \in FailuresAt(lines[n].at) : m < n}) < 2
Named == UNION {lines[n].items : n \in {m \in DOMAIN lines : Told(m)}}

(* A failed disable is not followed by the cancellation of the same item,    *)
(* which would come next.                                                    *)
AfterFailure ==
    LET s == Head(todo)
        rest == Tail(todo) IN
    CASE s.do = "cancel" /\ s.again -> <<[s EXCEPT !.again = FALSE]>> \o rest
      [] s.do = "disable" /\ rest # <<>> /\ Head(rest).do = "cancel" -> Tail(rest)
      [] OTHER -> rest

(* What a request does in trade-api.  Stopping a DCA or a DEVMM cancels. *)
Effect(s) ==
    LET i == Only(s.items) IN
    /\ enabled' = CASE s.do = "enable" -> [enabled EXCEPT ![i] = TRUE]
                    [] s.do = "disable" -> [enabled EXCEPT ![i] = FALSE]
                    [] OTHER -> enabled
    /\ owes' = CASE s.do = "enable" -> owes \cup {i}
                 [] s.do = "disable" /\ Strategy[i] \in {"DCA", "DEVMM"} -> owes \ {i}
                 [] s.do = "cancel" /\ ~enabled[i] -> owes \ {i}
                 [] OTHER -> owes

------------------------------------------------------------------------------
Init ==
    /\ enabled \in [Items -> BOOLEAN]
    /\ owes = {i \in Items : enabled[i]}
    /\ inbox = <<>> /\ got = 0 /\ done = 0
    /\ busy = FALSE /\ todo = <<>>
    /\ errors = {} /\ lines = <<>> /\ stray = {} /\ touched = {} /\ sought = {}
    /\ faults = 0 /\ crashes = 0

Press(u) ==
    /\ Len(inbox) < MaxUnread
    /\ inbox' = Append(inbox, u)
    /\ UNCHANGED <<flags, got, done, busy, todo, errors, lines, stray, touched, sought, faults, crashes>>

(* The next batch; the request for it confirms the last one. *)
Fetch ==
    /\ ~busy /\ done = got
    /\ inbox # <<>>
    /\ inbox' = SubSeq(inbox, done + 1, Len(inbox))
    /\ got' = Len(inbox')
    /\ done' = 0
    /\ errors' = {} /\ touched' = {}
    /\ UNCHANGED <<flags, busy, todo, lines, stray, sought, faults, crashes>>

Begin ==
    /\ ~busy /\ done < got
    /\ busy' = TRUE
    /\ todo' = Plan(Current)
    /\ lines' = <<>>
    /\ errors' = errors \ Current.items
    /\ touched' = touched \ Current.items
    /\ sought' = Running(Current.items)
    /\ UNCHANGED <<flags, queue, stray, faults, crashes>>

Listed ==
    /\ busy /\ todo # <<>> /\ IsListing(Head(todo))
    /\ todo' = Follow(Head(todo)) \o Tail(todo)
    /\ UNCHANGED <<flags, queue, busy, errors, lines, stray, touched, sought, faults, crashes>>

Answered ==
    /\ busy /\ todo # <<>> /\ ~IsListing(Head(todo))
    /\ Effect(Head(todo))
    /\ todo' = Tail(todo)
    /\ UNCHANGED <<queue, busy, errors, lines, stray, touched, sought, faults, crashes>>

(* Refused, unreachable, or the reply lost. *)
Failed ==
    /\ busy /\ todo # <<>> /\ faults < MaxFaults
    /\ faults' = faults + 1
    /\ todo' = AfterFailure
    /\ IF Noted(Head(todo))
       THEN /\ errors' = errors \cup Head(todo).items
            /\ lines' = Append(lines, [at |-> Head(todo).at, items |-> Head(todo).items])
       ELSE UNCHANGED <<errors, lines>>
    /\ stray' \in {stray} \cup (IF IsListing(Head(todo)) THEN {} ELSE {stray \cup {Head(todo)}})
    /\ UNCHANGED <<flags, queue, busy, touched, sought, crashes>>

(* The answer to the user, a summary for the stop menu. *)
Finish ==
    /\ busy /\ todo = <<>>
    /\ busy' = FALSE
    /\ done' = done + 1
    /\ sought' = {} /\ lines' = <<>>
    /\ UNCHANGED <<flags, inbox, got, todo, errors, stray, touched, faults, crashes>>

StrayArrives ==
    \E s \in stray :
      /\ stray' = stray \ {s}
      /\ Effect(s)
      /\ touched' = touched \cup s.items
      /\ UNCHANGED <<queue, busy, todo, errors, lines, sought, faults, crashes>>

CrashAfterAck ==  \* a mutant: an update is acknowledged when it is begun
    /\ crashes < MaxCrashes
    /\ crashes' = crashes + 1
    /\ done' = done + (IF busy THEN 1 ELSE 0)
    /\ busy' = FALSE /\ todo' = <<>> /\ sought' = {} /\ lines' = <<>>
    /\ stray' = stray \cup (IF todo = <<>> \/ IsListing(Head(todo)) THEN {} ELSE {Head(todo)})
    /\ UNCHANGED <<flags, inbox, got, errors, touched, faults>>
Crash ==
    /\ crashes < MaxCrashes
    /\ crashes' = crashes + 1
    /\ got' = 0 /\ done' = 0
    /\ busy' = FALSE /\ todo' = <<>> /\ sought' = {} /\ lines' = <<>>
    /\ stray' = stray \cup (IF todo = <<>> \/ IsListing(Head(todo)) THEN {} ELSE {Head(todo)})
    /\ UNCHANGED <<flags, inbox, errors, touched, faults>>

(* A runner stops a configuration on an authentication error, and cancels. *)
RunnerStops(i) ==
    /\ enabled[i] /\ Strategy[i] # "DEVMM"
    /\ enabled' = [enabled EXCEPT ![i] = FALSE]
    /\ owes' = owes \ {i}
    /\ touched' = touched \cup {i}
    /\ UNCHANGED <<queue, busy, todo, errors, lines, stray, sought, faults, crashes>>

Next ==
    \/ \E u \in Pressable : Press(u)
    \/ Fetch \/ Begin \/ Listed \/ Answered \/ Failed \/ Finish
    \/ StrayArrives \/ Crash
    \/ \E i \in Items : RunnerStops(i)

Spec == Init /\ [][Next]_vars

------------------------------------------------------------------------------
(* Properties. *)

(* When the answer to a stop is sent, every item it addressed is disabled,    *)
(* and the cancellation of the orders of those that ran has been accepted,    *)
(* but for the items the answer names, and those of an exchange with more     *)
(* failures than the two that the stop menu's answer names: one item's        *)
(* failure keeps no other from being stopped, and none is left out where the  *)
(* answer shows no failure, or fewer than there are.                          *)
Stopped(i) == ~enabled[i] /\ (i \in sought => i \notin owes)
Crowded(x) == Current.verb = "exchange" /\ Cardinality(FailuresAt(x)) > 2
StopReaches ==
    (busy /\ todo = <<>> /\ Current.verb \in {"stop", "stopall", "exchange"})
        => \A i \in Current.items \ touched :
              Stopped(i) \/ i \in Named \/ Crowded(ExchangeOf[i])

(* The bot asks to cancel the orders of an item only when it has stopped it:  *)
(* a runner that goes on would place them again.                              *)
CancelsOnlyStopped ==
    (todo # <<>> /\ Head(todo).do = "cancel")
        => \A i \in Head(todo).items : ~enabled[i] \/ i \in touched

(* A stop is heard by every strategy it addresses, and by that one's orders.  *)
StopIsHeard == StopReaches /\ CancelsOnlyStopped

(* When everything the user pressed has been handled, each item is as the     *)
(* last button for it says, though the bot crashed in the middle of a batch   *)
(* and handled it again: unless one of its calls failed, a runner stopped it, *)
(* or a request arrived late.                                                 *)
Addressing(i) == {n \in 1..Len(inbox) : i \in inbox[n].items}
LastWord(i) == inbox[CHOOSE n \in Addressing(i) : \A m \in Addressing(i) : m <= n].verb
LastWordWins ==
    (~busy /\ done = Len(inbox))
        => \A i \in Items \ (errors \cup touched) :
              Addressing(i) # {} =>
                /\ LastWord(i) \in {"start", "startall"} => enabled[i]
                /\ LastWord(i) \in {"stop", "stopall", "exchange"} => ~enabled[i]
===============================================================================
