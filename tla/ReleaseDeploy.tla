---------------------------- MODULE ReleaseDeploy ----------------------------
(****************************************************************************)
(* The release scripts of the server: scripts/pack_release.sh makes a        *)
(* tarball, scripts/deploy_release.sh unpacks it into a new directory of     *)
(* releases/, points the link `current' at it and restarts the systemd       *)
(* units, scripts/rollback.sh points the link at the directory before, and   *)
(* scripts/doctor.sh examines the host for both.  One operator runs one      *)
(* script at a time; a script may be interrupted between any two of its      *)
(* steps, and systemd starts a unit that died again (Restart=always), from   *)
(* where the link points at that moment.                                     *)
(*                                                                           *)
(* A directory is named after the second in which it was made, with a suffix *)
(* when that name is taken: second s gives the names 2s and 2s + 1, in the   *)
(* order in which the rollback sorts them.                                   *)
(****************************************************************************)
EXTENDS Naturals, FiniteSets, FiniteSetsExt

CONSTANTS
    Versions,   \* what may be packed
    Faulty,     \* versions whose services never answer
    Units,      \* the installed units that run `current'
    Main,       \* the unit whose port the smoke test asks
    SmokeSet,   \* that port is configured
    EnvFiles,   \* where there are complete .env files: etc, shared
    Seconds     \* bound on the clock

(* What the constants must be. *)
DeployAssumption ==
    /\ Faulty \subseteq Versions
    /\ Main \in Units
    /\ SmokeSet \in BOOLEAN
    /\ EnvFiles \subseteq {"etc", "shared"}
    /\ Seconds \in Nat \ {0}

VARIABLES
    packed,    \* versions of which there is a tarball
    tree,      \* none, partial or whole, for every name of a directory
    holds,     \* the version a directory was made of
    current,   \* where the link points, 0 when there is none
    undo,      \* what the last deploy replaced, when that was the newest directory
    runs,      \* the directory each unit was started from, 0 while it is down
    up,        \* units that listen on their port
    script     \* the script under way

vars == <<packed, tree, holds, current, undo, runs, up, script>>
disk == <<packed, tree, holds>>
host == <<runs, up>>

Names == 2..(2 * Seconds + 1)
NoVersion == "none"
Exists(r) == tree[r] # "none"
Idle == [kind |-> "none", at |-> "idle", to |-> 0, todo |-> {}, warned |-> {}, allow |-> FALSE]

------------------------------------------------------------------------------
(* scripts/doctor.sh: the issues it may find, by bucket.  Of a directory     *)
(* copied in part it may miss a build output, or nothing; the deploy makes   *)
(* it read shared/.env, the rollback /etc first.                             *)
ConfigIssues == {(IF script.kind = "deploy" THEN {"shared"} ELSE {"etc", "shared"}) \cap EnvFiles = {}}
BuildIssues == {current = 0 \/ tree[current] = "partial", FALSE}
DeployIssues == {current = 0}

PortInUse == up # {}
(* The unit must be active; a port that somebody listens on is a conflict;   *)
(* and the node, Redis or Telegram may not be reachable.                     *)
RuntimeIssues == {runs[Main] = 0 \/ PortInUse, TRUE}

(* Its exit code: the first bucket with an issue decides. *)
DoctorExits ==
    {IF c THEN 40 ELSE IF b THEN 10 ELSE IF d THEN 20 ELSE IF n THEN 30 ELSE 0 :
        c \in ConfigIssues, b \in BuildIssues, d \in DeployIssues, n \in RuntimeIssues}

(* Whether a script goes on after its doctor.  Without a current release, or *)
(* where the doctor is not among the files copied, it is skipped.            *)
GoesOn ==
    IF current = 0 THEN {TRUE}
    ELSE {e = 0 \/ script.allow : e \in DoctorExits}
         \cup (IF tree[current] = "partial" THEN {TRUE} ELSE {})

------------------------------------------------------------------------------
Init ==
    /\ packed = {}
    /\ tree = [r \in Names |-> "none"]
    /\ holds = [r \in Names |-> NoVersion]
    /\ current = 0 /\ undo = 0
    /\ runs = [u \in Units |-> 0] /\ up = {}
    /\ script = Idle

(* A tarball of a build that compiles; it stays in the repository when the   *)
(* smoke test of the packing fails.                                          *)
Pack(v) ==
    /\ v \notin packed
    /\ packed' = packed \cup {v}
    /\ UNCHANGED <<tree, holds, current, undo, host, script>>

(* A deploy begins once tar can read the tarball and its checksum, if there  *)
(* is one, is right.                                                         *)
Deploy(allow) ==
    /\ script = Idle /\ packed # {}
    /\ script' = [Idle EXCEPT !.kind = "deploy", !.at = "preflight", !.allow = allow]
    /\ UNCHANGED <<disk, current, undo, host>>

Preflight ==
    /\ script.at = "preflight"
    /\ \E goesOn \in GoesOn :
         script' = IF goesOn THEN [script EXCEPT !.at = "mkdir"] ELSE Idle
    /\ UNCHANGED <<disk, current, undo, host>>

NameOf(s) == IF Exists(2 * s) THEN 2 * s + 1 ELSE 2 * s

(* The clock does not go back, and no three deploys come here in a second. *)
MakeDirectory ==
    /\ script.at = "mkdir"
    /\ \E s \in 1..Seconds, v \in packed :
         /\ \A r \in Names : Exists(r) => r <= 2 * s
         /\ tree' = [tree EXCEPT ![NameOf(s)] = "partial"]
         /\ holds' = [holds EXCEPT ![NameOf(s)] = v]
         /\ script' = [script EXCEPT !.at = "copy", !.to = NameOf(s)]
    /\ UNCHANGED <<packed, current, undo, host>>

CopyTree ==
    /\ script.at = "copy"
    /\ tree' = [tree EXCEPT ![script.to] = "whole"]
    /\ script' = [script EXCEPT !.at = "link"]
    /\ UNCHANGED <<packed, holds, current, undo, host>>

(* The units of the release; those of a directory copied in part may be missing. *)
UnitsIn(r) == IF tree[r] = "partial" THEN SUBSET Units ELSE {Units}

NewestBut(r) == Max({0} \cup {q \in Names \ {r} : Exists(q)})

SwitchTo(r) ==
    /\ current' = r
    /\ undo' = IF script.kind = "deploy" /\ current = NewestBut(r) THEN current ELSE 0
    /\ \E found \in UnitsIn(r) :
         script' = [script EXCEPT !.at = "restart", !.todo = found, !.warned = Units \ found]
    /\ UNCHANGED <<disk, host>>

Link == script.at = "link" /\ script.kind = "deploy" /\ SwitchTo(script.to)

(* The directories whose names come before that of the current one. *)
Earlier == {r \in Names : Exists(r) /\ r < current}
NewestOther == Max({r \in Names : Exists(r) /\ r # current})  \* a mutant
Previous == Max(Earlier)

Rollback(allow) ==
    /\ script = Idle /\ current # 0 /\ Earlier # {}
    /\ script' = [Idle EXCEPT !.kind = "rollback", !.at = "back", !.allow = allow]
    /\ UNCHANGED <<disk, current, undo, host>>

LinkBack == script.at = "back" /\ SwitchTo(Previous)

------------------------------------------------------------------------------
(* `systemctl restart': what listened stops, and the unit starts from where  *)
(* the link points.                                                          *)
StartedFromOld(u) == runs' = [runs EXCEPT ![u] = IF @ = 0 THEN current ELSE @] /\ up' = up  \* a mutant
Started(u) == runs' = [runs EXCEPT ![u] = current] /\ up' = up \ {u}

RestartOf(u) == Started(u) /\ script' = [script EXCEPT !.todo = @ \ {u}]

(* grep -q ends at the first match and the pipe may break under awk; with    *)
(* pipefail the unit then counts as one that is not installed.               *)
TakenForAbsent(u) ==
    /\ script' = [script EXCEPT !.todo = @ \ {u}, !.warned = @ \cup {u}]
    /\ UNCHANGED host

RestartUnit ==
    /\ script.at = "restart"
    /\ \E u \in script.todo : RestartOf(u) \/ TakenForAbsent(u)
    /\ UNCHANGED <<disk, current, undo>>

(* A restart that fails ends the script (set -e): the link stays. *)
RestartFails ==
    /\ script.at = "restart" /\ script.todo # {}
    /\ script' = Idle
    /\ UNCHANGED <<disk, current, undo, host>>

RestartsDone ==
    /\ script.at = "restart" /\ script.todo = {}
    /\ script' = [script EXCEPT !.at = "postflight"]
    /\ UNCHANGED <<disk, current, undo, host>>

Postflight ==
    /\ script.at = "postflight"
    /\ \E goesOn \in GoesOn :
         script' = IF goesOn THEN [script EXCEPT !.at = "smoke"] ELSE Idle
    /\ UNCHANGED <<disk, current, undo, host>>

(* One request, without a retry; skipped where no port is configured. *)
Answers == SmokeSet => Main \in up

SmokeTest ==
    /\ script.at = "smoke"
    /\ script' = IF Answers THEN [script EXCEPT !.at = "complete"] ELSE Idle
    /\ UNCHANGED <<disk, current, undo, host>>

Exit ==
    /\ script.at = "complete"
    /\ script' = Idle
    /\ UNCHANGED <<disk, current, undo, host>>

(* The operator's terminal is lost, or the disk is full. *)
Interrupt ==
    /\ script.at \notin {"idle", "complete"}
    /\ script' = Idle
    /\ UNCHANGED <<disk, current, undo, host>>

------------------------------------------------------------------------------
(* The services: a process listens some time after it was started, and dies. *)
UnitListens(u) ==
    /\ runs[u] # 0 /\ u \notin up
    /\ holds[runs[u]] \notin Faulty
    /\ up' = up \cup {u}
    /\ UNCHANGED <<disk, current, undo, runs, script>>

UnitDies(u) ==
    /\ runs[u] # 0
    /\ runs' = [runs EXCEPT ![u] = 0] /\ up' = up \ {u}
    /\ UNCHANGED <<disk, current, undo, script>>

SystemdStarts(u) ==
    /\ runs[u] = 0 /\ current # 0
    /\ Started(u)
    /\ UNCHANGED <<disk, current, undo, script>>

Next ==
    \/ \E v \in Versions : Pack(v)
    \/ \E allow \in BOOLEAN : Deploy(allow) \/ Rollback(allow)
    \/ Preflight \/ MakeDirectory \/ CopyTree \/ Link \/ LinkBack
    \/ RestartUnit \/ RestartFails \/ RestartsDone
    \/ Postflight \/ SmokeTest \/ Exit \/ Interrupt
    \/ \E u \in Units : UnitListens(u) \/ UnitDies(u) \/ SystemdStarts(u)

Spec == Init /\ [][Next]_vars

------------------------------------------------------------------------------
(* Properties. *)

(* When a deploy or a rollback says that it is complete, every unit runs the  *)
(* release the link points at, or is down, but for those the script warned    *)
(* of: also when units died and were started again in between.                *)
CompleteRunsCurrent ==
    script.at = "complete"
        => \A u \in Units \ script.warned : runs[u] \in {0, current}

(* When the smoke test is configured, a script completes only with a release  *)
(* that can answer: an old process, or one that is not up yet, is no answer.  *)
CompleteAnswers ==
    (script.at = "complete" /\ SmokeSet /\ Main \notin script.warned)
        => holds[current] \notin Faulty

(* When a script says that it is complete, the release is in service.         *)
CompleteIsTrue == CompleteRunsCurrent /\ CompleteAnswers

(* A release once whole is never written again, also when two deploys fall    *)
(* into one second; a deploy never points the link at a directory copied in   *)
(* part, wherever earlier ones were interrupted; and a rollback returns to    *)
(* what the deploy replaced, when that was the newest directory.              *)
WholeIsKept ==
    \A r \in Names : tree[r] = "whole" => tree'[r] = "whole" /\ holds'[r] = holds[r]
LinksWhole ==
    script.kind = "deploy" /\ current' # current => tree[current'] = "whole"
GoesBack ==
    script.kind = "rollback" /\ current' # current /\ undo # 0 => current' = undo

(* A rollback undoes the deploy: it finds what that replaced, as it was.      *)
UndoesDeploy == WholeIsKept /\ LinksWhole /\ GoesBack
RollbackUndoes == [][UndoesDeploy]_vars
===============================================================================
