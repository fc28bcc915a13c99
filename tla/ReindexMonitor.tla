--------------------------- MODULE ReindexMonitor ---------------------------
(***************************************************************************)
(* The monitor of a node that rebuilds its index                           *)
(* (src/ops/pepepowd-reindex-monitor.sh): a loop that samples the process, *)
(* its RPC port and its log, compares the sample with the state file of    *)
(* the last cycle, classifies the node and, where its flags allow it,      *)
(* stops the node, backs up and replaces files, moves the derived state    *)
(* away, and starts the node again with -reindex.                          *)
(*                                                                         *)
(* Between any two commands the node goes on, and the monitor may be       *)
(* killed.  The remedies run as the condition of an if, where bash ignores *)
(* errexit: a command that fails does not end them.                        *)
(***************************************************************************)
EXTENDS Integers, Sequences, FiniteSets

CONSTANTS
  Derived,          \* derived_state_paths: the directories of derived state
  Setups,           \* what the monitor is started with: a set of records
  MaxHeight,        \* blocks the node connects in one run, as a bound
  MaxLine,          \* lines of progress in the log, as a bound
  MaxDeaths,        \* how often the monitor is killed
  CommandsMayFail   \* cp, install, mv and the start of the node may fail

ASSUME DerivedIsFinite == IsFiniteSet(Derived)

Binaries == {"daemon", "cli"}
Pair == {"blk", "rev"}

VARIABLES
  setup,    \* flags, reference, artifact and donor, as given on the command line
  node,     \* "down", "starting" (no RPC yet) or "up"
  height,   \* blocks the node that runs has connected, 0 without one
  line,     \* progress in its log: reindexed files, loaded blocks
  log,      \* errors in the log of its present or last run
  dbLast,   \* the last error of the log, of whatever run, is about the block database
  place,    \* what stands in the place of each file
  kept,     \* files of which the original is in a backup
  derived,  \* directories of derived state in place
  file,     \* the state file
  pc,       \* where the monitor stands
  saw,      \* its sample
  todo,     \* commands of the remedy under way
  changes,  \* CHANGES_MADE: what it reports as backed up
  deaths,
  meddled   \* history: the operator started the node since this cycle looked for one

nodeVars == <<node, height, line, log, dbLast>>
disk == <<place, kept, derived>>
vars == <<setup, nodeVars, disk, file, pc, saw, todo, changes, deaths, meddled>>

Errors == {"pow", "deserialize", "database"}
NoSample == [running |-> FALSE, rpc |-> FALSE, height |-> 0, line |-> 0, pow |-> FALSE,
             mixed |-> FALSE, database |-> FALSE, binaries |-> "unknown"]
NoFile == [height |-> 0, line |-> 0, pow |-> FALSE, mixed |-> FALSE]

Init ==
  /\ setup \in Setups
  /\ node = "up" /\ height = 0 /\ line = 0 /\ log = {} /\ dbLast = FALSE
  /\ place = [f \in Binaries \union Pair |-> "original"] /\ kept = {} /\ derived = Derived
  /\ file = NoFile /\ pc = "off" /\ saw = NoSample /\ todo = <<>> /\ changes = {}
  /\ deaths = 0 /\ meddled = FALSE
-----------------------------------------------------------------------------
(* The node *)

monitor == <<setup, disk, file, pc, saw, todo, changes, deaths>>

\* The node rebuilds the derived state it does not find.
NodeReady ==
  /\ node = "starting" /\ node' = "up" /\ derived' = Derived
  /\ UNCHANGED <<height, line, log, dbLast, setup, place, kept, file, pc, saw, todo, changes,
                 deaths, meddled>>
NodeDies ==
  /\ node # "down" /\ node' = "down" /\ height' = 0
  /\ UNCHANGED <<line, log, dbLast, monitor, meddled>>

NodeWorks ==
  /\ node # "down"
  /\ \/ height < MaxHeight /\ height' = height + 1 /\ UNCHANGED line
     \/ line < MaxLine /\ line' = line + 1 /\ UNCHANGED height
  /\ UNCHANGED <<node, log, dbLast, monitor, meddled>>

NodeLogs(e) ==
  /\ node # "down"
  /\ log' = log \union {e} /\ dbLast' = (e = "database")
  /\ UNCHANGED <<node, height, line, monitor, meddled>>

\* A new run: its part of the log is empty, and -reindex begins at the genesis block.
Begin == node' = "starting" /\ log' = {} /\ height' = 0 /\ UNCHANGED <<line, dbLast>>

\* The operator starts the node, whatever the monitor is at: nothing locks it out.
OperatorStarts ==
  /\ node = "down" /\ Begin
  /\ meddled' = (pc \notin {"off", "asleep"})
  /\ UNCHANGED monitor

NodeStep ==
  NodeReady \/ NodeDies \/ NodeWorks \/ OperatorStarts \/ \E e \in Errors : NodeLogs(e)
-----------------------------------------------------------------------------
(* A cycle's sample *)

Goto(l) == pc' = l
idle == <<setup, nodeVars, disk, file, todo, deaths, meddled>>

MonitorStarts == pc = "off" /\ Goto("asleep") /\ UNCHANGED <<idle, saw, changes>>

SampleProcess ==
  /\ pc = "asleep" /\ Goto("chain")
  /\ saw' = [NoSample EXCEPT !.running = node # "down"]
  /\ UNCHANGED <<idle, changes>>

\* getblockcount and getblockchaininfo: without RPC there is no height.
SampleChain ==
  /\ pc = "chain" /\ Goto("log")
  /\ saw' = [saw EXCEPT !.rpc = node = "up", !.height = IF node = "up" THEN height ELSE 0]
  /\ UNCHANGED <<idle, changes>>

\* The hashes of the binaries against the reference: a proof needs both of them.
Official(f) ==
  IF place[f] = "original" THEN setup.official ELSE place[f] = "new" /\ setup.genuine
Integrity ==
  IF ~setup.reference THEN "unknown"
  ELSE IF \A f \in Binaries : Official(f) THEN "match" ELSE "mismatch"

\* A sample that reads the whole log, whatever run its lines are of.
ReadWholeLog ==
  saw' = [saw EXCEPT !.line = line, !.binaries = Integrity, !.database = dbLast,
                     !.pow = TRUE, !.mixed = TRUE]

\* Only the lines of the present run count; without a process the last lines
\* of whatever run.
ReadLog ==
  saw' = [saw EXCEPT !.line = line, !.binaries = Integrity,
                     !.database = dbLast /\ (saw.running => log # {}),
                     !.pow = "pow" \in log, !.mixed = {"pow", "deserialize"} \subseteq log]
SampleLog ==
  /\ pc = "log" /\ Goto("classify")
  /\ ReadLog
  /\ UNCHANGED <<idle, changes>>
-----------------------------------------------------------------------------
(* classify_state and set_recommendations *)

Progress == saw.height > file.height \/ saw.line # file.line
Class ==
  IF ~saw.running \/ ~saw.rpc THEN "crashed"
  ELSE IF Progress THEN "progressing"
  ELSE IF saw.mixed /\ file.mixed THEN "mixed"
  ELSE IF saw.pow /\ file.pow THEN "fork"
  ELSE "stalled"

Do(c, F) == {[do |-> c, on |-> f] : f \in F}
Command(c) == <<[do |-> c, on |-> "node"]>>
\* The commands over a set of files come in an order nothing depends on.
Sequenced(S) == CHOOSE q \in [1..Cardinality(S) -> S] : \A x \in S : \E i \in 1..Cardinality(S) : q[i] = x

\* Remedies gone wrong: one replaces before it backs up, one forgets to restart.
ReplaceFirst(F) ==
  Command("stop") \o Sequenced(Do("install", F)) \o Sequenced(Do("backup", F))
    \o Sequenced(Do("move", Derived)) \o Command("restart")
ReplaceAndLeave(F) ==
  Command("stop") \o Sequenced(Do("backup", F)) \o Sequenced(Do("install", F))
    \o Sequenced(Do("move", Derived))

\* maybe_apply_binary_swap, maybe_apply_targeted_blk_replace and
\* maybe_apply_derived_state_reset differ in what they replace.
Remedy(F) ==
  Command("stop") \o Sequenced(Do("backup", F)) \o Sequenced(Do("install", F))
    \o Sequenced(Do("move", Derived)) \o Command("restart")

MaySwap == "swap" \in setup.allow /\ saw.binaries = "mismatch" /\ setup.artifact
MayReplace == "replace" \in setup.allow /\ saw.binaries = "match" /\ setup.donor
MayReset == "reset" \in setup.allow

Remedied ==
  CASE Class \in {"fork", "mixed"} /\ MaySwap -> Remedy(Binaries)
    [] Class = "mixed" /\ MayReplace -> Remedy(Pair)
    [] Class = "crashed" /\ saw.database /\ MayReset -> Remedy({})
    [] OTHER -> <<>>

Classify ==
  /\ pc = "classify"
  /\ todo' = Remedied
  /\ Goto(IF todo' # <<>> THEN "remedy" ELSE IF Class = "progressing" THEN "goes on" ELSE "write")
  /\ saw' = [saw EXCEPT !.rpc = FALSE, !.database = FALSE, !.binaries = "unknown"]    \* not used again
  /\ UNCHANGED <<setup, nodeVars, disk, file, changes, deaths, meddled>>
-----------------------------------------------------------------------------
(* The commands of a remedy *)

Now(c) == pc = "remedy" /\ Head(todo).do = c
Target == Head(todo).on
NextCommand ==
  /\ todo' = Tail(todo)
  /\ Goto(IF Len(todo) = 1 THEN "goes on" ELSE "remedy")
quiet == <<setup, file, saw, deaths, meddled>>

\* A stop that does not wait for the process to exit.
StopHastily ==
  /\ Now("stop") /\ NextCommand
  /\ UNCHANGED <<nodeVars, disk, changes, quiet>>

\* stop_daemon asks the node to stop and waits for the exit of the process the
\* cycle has seen, not of one started since; if that does not exit after TERM
\* either, the script ends.
Stop ==
  /\ Now("stop")
  /\ \/ ~saw.running /\ NextCommand /\ UNCHANGED <<node, height>>
     \/ saw.running /\ NextCommand /\ node' = "down" /\ height' = 0
     \/ saw.running /\ meddled /\ NextCommand /\ UNCHANGED <<node, height>>
     \/ saw.running /\ ~meddled /\ node # "down" /\ Goto("off") /\ todo' = <<>>
        /\ UNCHANGED <<node, height>>
  /\ UNCHANGED <<line, log, dbLast, disk, changes, quiet>>

\* backup_into: what it reports does not depend on cp.
Backup ==
  /\ Now("backup") /\ NextCommand
  /\ changes' = changes \union {Target}
  /\ \/ kept' = IF place[Target] = "original" THEN kept \union {Target} ELSE kept
     \/ CommandsMayFail /\ UNCHANGED kept
  /\ UNCHANGED <<nodeVars, place, derived, quiet>>

Install ==
  /\ Now("install") /\ NextCommand
  /\ \E content \in {"new"} \union (IF CommandsMayFail THEN {place[Target], "torn"} ELSE {}) :
       place' = [place EXCEPT ![Target] = content]
  /\ UNCHANGED <<nodeVars, kept, derived, changes, quiet>>

\* A removal that stops at the first directory that is in place.
MoveFirst ==
  /\ Now("move") /\ Goto("remedy") /\ todo' = Command("restart")
  /\ derived' = derived \ {Target}
  /\ UNCHANGED <<nodeVars, place, kept, changes, quiet>>

MoveAway ==
  /\ Now("move") /\ NextCommand
  /\ \/ derived' = derived \ {Target}
     \/ CommandsMayFail /\ UNCHANGED derived
  /\ UNCHANGED <<nodeVars, place, kept, changes, quiet>>

\* A second process does not get the lock of a data directory in use.
Restart ==
  /\ Now("restart") /\ NextCommand
  /\ \/ node = "down" /\ Begin
     \/ (node # "down" \/ CommandsMayFail) /\ UNCHANGED nodeVars
  /\ UNCHANGED <<disk, changes, quiet>>

RemedyStep == Stop \/ Backup \/ Install \/ MoveAway \/ Restart

\* write_state_and_reports; the loop goes on after a remedy or with progress.
WriteState ==
  /\ pc \in {"write", "goes on"}
  /\ file' = [height |-> saw.height, line |-> saw.line, pow |-> saw.pow, mixed |-> saw.mixed]
  /\ \/ Goto("off")                                        \* --once
     \/ pc = "goes on" /\ Goto("asleep")
  /\ saw' = NoSample /\ changes' = {} /\ meddled' = FALSE       \* until the next cycle
  /\ UNCHANGED <<setup, nodeVars, disk, todo, deaths>>

\* The monitor is killed, maybe in the middle of install.
MonitorDies ==
  /\ pc # "off" /\ deaths < MaxDeaths /\ deaths' = deaths + 1
  /\ Goto("off") /\ todo' = <<>> /\ saw' = NoSample /\ changes' = {} /\ meddled' = FALSE
  /\ \/ UNCHANGED place
     \/ Now("install") /\ place' = [place EXCEPT ![Target] = "torn"]
  /\ UNCHANGED <<setup, nodeVars, kept, derived, file>>

MonitorStep == SampleProcess \/ SampleChain \/ SampleLog \/ Classify \/ RemedyStep \/ WriteState
Next == NodeStep \/ MonitorStarts \/ MonitorStep \/ MonitorDies

Spec == Init /\ [][Next]_vars

\* The script runs on unless it is killed.
FairSpec == Spec /\ WF_vars(MonitorStep)
-----------------------------------------------------------------------------
(* Properties *)

\* The monitor replaces and moves files only while no node runs on them, though
\* it looked for the process many commands before.  A node that the operator
\* started after that look is the exception: stop_daemon does not wait for it.
NoWriteUnderNode ==
  [][place' # place \/ ~(derived \subseteq derived') => node = "down" \/ meddled]_vars

\* However often the monitor is killed and whichever remedies it applies, each
\* original it replaced, or half replaced, is in a backup.
OriginalsKept ==
  \A f \in Binaries \union Pair : place[f] # "original" => f \in kept

\* The node the monitor starts never runs on derived state from before the
\* remedy, also when an earlier remedy was killed half-way, unless the operator
\* let a node rebuild it during the remedy.
StartsClean ==
  [][Now("restart") /\ node' = "starting" /\ node = "down" => derived = {} \/ meddled]_vars

\* Files are replaced only for a failure that the log of the present run of the
\* node shows, not for one that an earlier run left there; a run that the
\* operator began during the very cycle is not looked at again.
EvidenceIsFresh ==
  [][todo = <<>> /\ todo' \in {Remedy(Binaries), Remedy(Pair)} => "pow" \in log \/ meddled]_vars

\* A node that was stopped for a remedy is started again, unless the monitor ends.
StopIsUndone == pc = "remedy" ~> node # "down" \/ pc = "off"

\* What the report calls backed up is in a backup.
ReportIsTrue == \A f \in changes : f \in kept
=============================================================================
