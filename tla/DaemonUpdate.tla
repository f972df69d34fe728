---------------------------- MODULE DaemonUpdate ----------------------------
(***************************************************************************)
(* The daemon replaces its own bundle (daemon/update/): the automatic       *)
(* updater (autoUpdater.ts), `agent-threads update --apply' in a shell      *)
(* (cmd/update.ts), the staging both share (apply.ts) and the guard that     *)
(* counts the starts of a new bundle and puts the old one back (guard.ts).   *)
(*                                                                          *)
(* A version is a number; the bundle on disk is the version it holds.  What  *)
(* is saved as `agent-threads.cjs.prev-<v>' is prev[v], the version those    *)
(* bytes really are.  A release in `bad' passes the --version check but      *)
(* never gets to listen: it dies, or hangs, each time it is started.         *)
(* Downloads and checksums are inside Stage; a lock whose owner died is free  *)
(* (state.ts takes it over), so holding it is having a job in progress.      *)
(***************************************************************************)
EXTENDS Integers, FiniteSets

CONSTANTS Newest,      \* versions are 1..Newest, in order of publication
          Held,        \* releases of another protocol or major: never applied by themselves
          PrevRetained, \* PREV_RETAINED
          MaxFailedBoots, \* MAX_FAILED_BOOTS
          MaxMishaps   \* bound: crashes of a good process, failed applies and failed renames

ASSUME BoundsAssumption ==
    /\ Newest \in Nat \ {0} /\ Held \subseteq 2..Newest
    /\ PrevRetained \in Nat \ {0} /\ MaxFailedBoots \in Nat \ {0} /\ MaxMishaps \in Nat

VARIABLES
    bad,       \* the releases that never become healthy
    latest,    \* the newest published release
    bundle,    \* the bundle on disk
    prev,      \* prev[v]: what is saved under the name prev-v (0: nothing)
    marker,    \* update.json pendingUpgrade: [from, to, boots] (to = 0: none)
    paused,    \* update.json rolledBack.from (0: none)
    held,      \* update.json held.version (0: none)
    request,   \* update-request.json: [to, now] (to = 0: none)
    proc,      \* the daemon: "down", "starting", "up", or "restoring" the old bundle
    run,       \* the version it runs
    watch,     \* marker.to of the health deadline it armed (0: none)
    pending,   \* AutoUpdater.pending: [to, now] (to = 0: none)
    quiet,     \* the idle gate: no thread busy, nothing happened for quietMs
    job,       \* what each updater is doing: [at, own, to]
    mishaps,
    fresh,     \* history: the bundle was installed by an apply and is not confirmed yet
    confirmed, \* history: releases that were declared healthy
    failed,    \* history: releases the guard took away
    odd        \* history: what has gone wrong around the update files (see Oddities)

vars == <<bad, latest, bundle, prev, marker, paused, held, request, proc, run, watch, pending,
          quiet, job, mishaps, fresh, confirmed, failed, odd>>
files == <<bundle, prev, marker, paused, held, request>>
process == <<proc, run, watch, pending>>
history == <<fresh, confirmed, failed, odd>>

Versions == 1..Newest
Actors == {"daemon", "cli"}
None == [to |-> 0, now |-> FALSE]
NoMarker == [from |-> 0, to |-> 0, boots |-> 0]
NoJob == [at |-> "idle", own |-> 0, to |-> 0]

-----------------------------------------------------------------------------
(* Staging, the same steps for the daemon and the shell.                    *)

(* withUpdateLock: the staging lock is free, or its owner is gone. *)
LockFree == \A a \in Actors : job[a].at \notin {"staging", "kept", "marked"}

Job(a, at, own, to) == job' = [job EXCEPT ![a] = [at |-> at, own |-> own, to |-> to]]
JobEnds(a) == job' = [job EXCEPT ![a] = NoJob]

(* pruneOldBundles: the newest PrevRetained saved bundles stay, and own's. *)
Pruned(saved, own) ==
    [v \in Versions |-> IF v = own \/ Cardinality({w \in Versions : w > v /\ saved[w] # 0}) < PrevRetained
                        THEN saved[v] ELSE 0]

(* The bundle on disk is saved under the version of whoever saves it. *)
Kept(own) == prev' = Pruned([prev EXCEPT ![own] = bundle], own)

(* The order an apply must not take: the new bundle in place before its marker. *)
StageSwaps(a) ==
    /\ job[a].at = "staging" /\ job[a].to \notin Held
    /\ Kept(job[a].own)
    /\ bundle' = job[a].to /\ fresh' = TRUE
    /\ Job(a, "kept", job[a].own, job[a].to)
    /\ UNCHANGED <<bad, latest, marker, paused, held, request, process, quiet, mishaps,
                   confirmed, failed, odd>>

(* The download passed its checksum and the --version check: keep the bundle there is. *)
Stage(a) ==
    /\ job[a].at = "staging" /\ job[a].to \notin Held
    /\ Kept(job[a].own)
    /\ Job(a, "kept", job[a].own, job[a].to)
    /\ odd' = odd \cup (IF bundle # job[a].own THEN {"overlap"} ELSE {})
    /\ UNCHANGED <<bad, latest, bundle, marker, paused, held, request, process, quiet, mishaps,
                   fresh, confirmed, failed>>

(* The marker is on disk before the bundle it is about. *)
Mark(a) ==
    /\ job[a].at = "kept"
    /\ marker' = [from |-> job[a].own, to |-> job[a].to, boots |-> 0]
    /\ held' = 0
    /\ Job(a, "marked", job[a].own, job[a].to)
    /\ odd' = odd \cup (IF fresh THEN {"superseded"} ELSE {})
                   \cup (IF bundle # job[a].own THEN {"overlap"} ELSE {})
    /\ UNCHANGED <<bad, latest, bundle, prev, paused, request, process, quiet, mishaps,
                   fresh, confirmed, failed>>

(* The new bundle is renamed into place.  The daemon will restart onto it when  *)
(* idle; the shell asks for that through the request file.                      *)
Swap(a) ==
    /\ job[a].at = "marked"
    /\ bundle' = job[a].to /\ fresh' = TRUE
    /\ IF a = "daemon"
       THEN pending' = [to |-> job[a].to, now |-> FALSE] /\ UNCHANGED request
       ELSE (\E now \in BOOLEAN : request' = [to |-> job[a].to, now |-> now]) /\ UNCHANGED pending
    /\ JobEnds(a)
    /\ UNCHANGED <<bad, latest, prev, marker, paused, held, proc, run, watch, quiet, mishaps,
                   confirmed, failed, odd>>

(* The rename fails: the marker is withdrawn. *)
SwapFails(a) ==
    /\ job[a].at = "marked" /\ mishaps < MaxMishaps
    /\ marker' = NoMarker
    /\ JobEnds(a)
    /\ mishaps' = mishaps + 1
    /\ UNCHANGED <<bad, latest, bundle, prev, paused, held, request, process, quiet, history>>

(* A release of another protocol is recognised by its --version answer.  The daemon *)
(* remembers to leave it alone; the shell only reports it.                           *)
HeldBack(a) ==
    /\ job[a].at = "staging" /\ job[a].to \in Held
    /\ held' = IF a = "daemon" THEN job[a].to ELSE held
    /\ JobEnds(a)
    /\ UNCHANGED <<bad, latest, bundle, prev, marker, paused, request, process, quiet, mishaps, history>>

(* A download, checksum or copy fails: nothing was changed. *)
StageFails(a) ==
    /\ job[a].at = "staging" /\ mishaps < MaxMishaps
    /\ JobEnds(a)
    /\ mishaps' = mishaps + 1
    /\ UNCHANGED <<bad, latest, files, process, quiet, history>>

-----------------------------------------------------------------------------
(* `agent-threads update --apply': the shell runs the bundle on disk. *)

Invoke ==
    /\ job["cli"].at = "idle" /\ bundle < latest
    /\ Job("cli", "asked", bundle, 0)
    /\ UNCHANGED <<bad, latest, files, process, quiet, mishaps, history>>

Apply ==
    /\ job["cli"].at = "asked"
    /\ IF LockFree /\ latest > job["cli"].own
       THEN Job("cli", "staging", job["cli"].own, latest)
       ELSE JobEnds("cli")
    /\ UNCHANGED <<bad, latest, files, process, quiet, mishaps, history>>

(* The shell is interrupted; what it did to the files stays. *)
Interrupted ==
    /\ job["cli"].at \in {"kept", "marked"} /\ mishaps < MaxMishaps
    /\ JobEnds("cli")
    /\ mishaps' = mishaps + 1
    /\ UNCHANGED <<bad, latest, files, process, quiet, history>>

-----------------------------------------------------------------------------
(* The automatic updater, one step per part of its tick. *)

Ticking == proc = "up" /\ job["daemon"].at = "idle"

ConsumeRequest ==
    /\ Ticking /\ request.to # 0
    /\ request' = None
    /\ pending' = IF request.to > run THEN request ELSE pending
    /\ UNCHANGED <<bad, latest, bundle, prev, marker, paused, held, proc, run, watch, quiet, job,
                   mishaps, history>>

(* A check that does not look at the record of the rollback. *)
CheckAnyRelease ==
    /\ Ticking /\ pending.to = 0 /\ latest > run
    /\ held # latest /\ LockFree
    /\ Job("daemon", "staging", run, latest)
    /\ UNCHANGED <<bad, latest, files, process, quiet, mishaps, history>>

(* check(): a newer release is staged unless it was rolled back or held; the record  *)
(* of a rollback ends when another release is the latest.  When the lock is taken    *)
(* the check is tried again later.                                                   *)
Check ==
    /\ Ticking /\ pending.to = 0 /\ latest > run /\ latest # paused
    /\ paused' = 0
    /\ IF held # latest /\ LockFree
       THEN Job("daemon", "staging", run, latest)
       ELSE UNCHANGED job
    /\ UNCHANGED <<bad, latest, bundle, prev, marker, held, request, process, quiet, mishaps, history>>

Down == proc' = "down" /\ watch' = 0 /\ pending' = None /\ UNCHANGED run

(* maybeRestart: the daemon exits, to be started again from the bundle on disk. *)
Restart ==
    /\ Ticking /\ pending.to # 0 /\ (~pending.now => quiet)
    /\ Down
    /\ UNCHANGED <<bad, latest, files, quiet, job, mishaps, history>>

-----------------------------------------------------------------------------
(* The boot guard. *)

Starts(v, armed) == proc' = "starting" /\ run' = v /\ watch' = armed /\ pending' = None
UnderGuard == marker.to # 0 /\ marker.to = bundle

(* No marker, or one about another version: it stays while the version it replaces *)
(* is the one that starts, and is dropped as stale otherwise.                       *)
BootUnguarded ==
    /\ proc = "down" /\ ~UnderGuard
    /\ Starts(bundle, 0)
    /\ marker' = IF marker.from = bundle THEN marker ELSE NoMarker
    /\ UNCHANGED <<bad, latest, bundle, prev, paused, held, request, quiet, job, mishaps, history>>

(* Starts of a new bundle that are not counted. *)
BootNotCounted ==
    /\ proc = "down" /\ UnderGuard /\ marker.boots < MaxFailedBoots
    /\ Starts(bundle, bundle)
    /\ UNCHANGED <<bad, latest, files, quiet, job, mishaps, history>>

(* A start of the new bundle is counted, and has to become healthy in time. *)
BootCounted ==
    /\ proc = "down" /\ UnderGuard /\ marker.boots < MaxFailedBoots
    /\ Starts(bundle, bundle)
    /\ marker' = [marker EXCEPT !.boots = @ + 1]
    /\ UNCHANGED <<bad, latest, bundle, prev, paused, held, request, quiet, job, mishaps, history>>

(* The new bundle was not healthy in MaxFailedBoots starts. *)
MustRestore == proc = "down" /\ UnderGuard /\ marker.boots >= MaxFailedBoots

(* The saved bundle is renamed back; the record of it is written next. *)
BootRestores ==
    /\ MustRestore /\ prev[marker.from] # 0
    /\ bundle' = prev[marker.from]
    /\ prev' = [prev EXCEPT ![marker.from] = 0]
    /\ proc' = "restoring" /\ run' = bundle /\ watch' = 0 /\ pending' = None
    /\ fresh' = FALSE
    /\ failed' = failed \cup {bundle}
    /\ UNCHANGED <<bad, latest, marker, paused, held, request, quiet, job, mishaps, confirmed, odd>>

(* The marker is cleared, the rollback recorded, and the daemon asks to be restarted. *)
Restored ==
    /\ proc = "restoring"
    /\ paused' = run
    /\ marker' = NoMarker
    /\ Down
    /\ odd' = odd \cup (IF marker.to # 0 /\ marker.boots < MaxFailedBoots THEN {"crossed"} ELSE {})
    /\ UNCHANGED <<bad, latest, bundle, prev, held, request, quiet, job, mishaps,
                   fresh, confirmed, failed>>

(* There is nothing to put back, or the rename fails: the new bundle stays. *)
BootGivesUp ==
    /\ MustRestore
    /\ prev[marker.from] = 0 \/ mishaps < MaxMishaps
    /\ mishaps' = IF prev[marker.from] = 0 THEN mishaps ELSE mishaps + 1
    /\ Starts(bundle, 0)
    /\ paused' = marker.to
    /\ marker' = NoMarker
    /\ fresh' = FALSE
    /\ odd' = odd \cup {"gave_up"}
    /\ UNCHANGED <<bad, latest, bundle, prev, held, request, quiet, job, confirmed, failed>>

(* startDaemon returned. *)
Listening ==
    /\ proc = "starting" /\ run \notin bad
    /\ proc' = "up"
    /\ UNCHANGED <<bad, latest, files, run, watch, pending, quiet, job, mishaps, history>>

(* The deadline of a release that leaves its marker where it is. *)
HealthyKeepsMarker ==
    /\ proc = "up" /\ watch # 0
    /\ watch' = 0
    /\ confirmed' = confirmed \cup {run}
    /\ UNCHANGED <<bad, latest, files, proc, run, pending, quiet, job, mishaps, fresh, failed, odd>>

(* watchHealth at its deadline, listening: the marker is cleared if it is still its own. *)
Healthy ==
    /\ proc = "up" /\ watch # 0
    /\ marker' = IF marker.to = watch THEN NoMarker ELSE marker
    /\ watch' = 0
    /\ confirmed' = confirmed \cup {run}
    /\ fresh' = (fresh /\ bundle # run)
    /\ UNCHANGED <<bad, latest, bundle, prev, paused, held, request, proc, run, pending, quiet, job,
                   mishaps, failed, odd>>

(* At its deadline and not listening yet: it exits. *)
Wedged ==
    /\ proc = "starting" /\ watch # 0 /\ run \in bad
    /\ Down
    /\ UNCHANGED <<bad, latest, files, quiet, job, mishaps, history>>

(* The process dies.  A bad release does so whenever it starts. *)
Dies ==
    /\ proc # "down"
    /\ IF proc = "starting" /\ run \in bad
       THEN UNCHANGED mishaps
       ELSE mishaps < MaxMishaps /\ mishaps' = mishaps + 1
    /\ Down
    /\ JobEnds("daemon")
    /\ odd' = odd \cup (IF proc = "restoring" THEN {"cut_short"} ELSE {})
    /\ UNCHANGED <<bad, latest, files, quiet, fresh, confirmed, failed>>

-----------------------------------------------------------------------------
Publish ==
    /\ latest < Newest
    /\ latest' = latest + 1
    /\ UNCHANGED <<bad, bundle, prev, marker, paused, held, request, process, quiet, job, mishaps, history>>

(* Turns begin and end; the idle gate sees it at its next look. *)
Quieter ==
    /\ quiet' = ~quiet
    /\ UNCHANGED <<bad, latest, files, process, job, mishaps, history>>

Init ==
    /\ bad \in SUBSET ((2..Newest) \ Held)
    /\ latest = 1 /\ bundle = 1
    /\ prev = [v \in Versions |-> 0]
    /\ marker = NoMarker /\ paused = 0 /\ held = 0 /\ request = None
    /\ proc = "down" /\ run = 1 /\ watch = 0 /\ pending = None
    /\ quiet = TRUE
    /\ job = [a \in Actors |-> NoJob]
    /\ mishaps = 0
    /\ fresh = FALSE /\ confirmed = {1} /\ failed = {} /\ odd = {}

Staging(a) == Stage(a) \/ Mark(a) \/ Swap(a) \/ SwapFails(a) \/ HeldBack(a) \/ StageFails(a)
Shell == Invoke \/ Apply \/ Interrupted
Updater == ConsumeRequest \/ Check \/ Restart
Boot == BootUnguarded \/ BootCounted \/ BootRestores \/ Restored \/ BootGivesUp
Running == Listening \/ Healthy \/ Wedged \/ Dies

Next ==
    \/ \E a \in Actors : Staging(a)
    \/ Shell
    \/ Updater
    \/ Boot
    \/ Running
    \/ Publish
    \/ Quieter

(* The supervisor starts a daemon that exited (Restart=on-failure or always), the guard  *)
(* finishes what it began, the deadline of a start that hangs expires, and a daemon that  *)
(* can listen does.                                                                       *)
Fairness ==
    /\ WF_vars(Boot)
    /\ WF_vars(Listening)
    /\ WF_vars(Wedged)

Spec == Init /\ [][Next]_vars /\ Fairness

-----------------------------------------------------------------------------
(* Properties.  Oddities: what has happened around the files so far.         *)
(*   overlap     somebody applied over a bundle that was not the one it runs  *)
(*   superseded  somebody applied over a bundle that was not confirmed        *)
(*   gave_up     there was nothing to put back, or putting it back failed     *)
(*   cut_short   the guard died between putting a bundle back and saying so   *)
(*   crossed     somebody applied between those two, and the record of the     *)
(*               rollback took the new marker away                            *)
Oddities == {"overlap", "superseded", "gave_up", "cut_short", "crossed"}

(* Every variable holds a value of its kind. *)
TypeOK ==
    /\ bad \subseteq Versions /\ latest \in Versions /\ bundle \in Versions
    /\ prev \in [Versions -> 0..Newest]
    /\ marker \in [from : 0..Newest, to : 0..Newest, boots : 0..MaxFailedBoots]
    /\ paused \in 0..Newest /\ held \in 0..Newest
    /\ request \in [to : 0..Newest, now : BOOLEAN]
    /\ proc \in {"down", "starting", "up", "restoring"}
    /\ run \in Versions /\ watch \in 0..Newest
    /\ pending \in [to : 0..Newest, now : BOOLEAN]
    /\ quiet \in BOOLEAN
    /\ job \in [Actors -> [at : {"idle", "asked", "staging", "kept", "marked"}, own : 0..Newest, to : 0..Newest]]
    /\ mishaps \in 0..MaxMishaps
    /\ fresh \in BOOLEAN /\ confirmed \subseteq Versions /\ failed \subseteq Versions
    /\ odd \subseteq Oddities

(* guard.ts: a bundle an apply installed is under the guard until it is confirmed: *)
(* whatever dies in between, the next start of it is counted.  (An apply over a     *)
(* bundle that is not confirmed yet takes that bundle's marker away.)               *)
Guarded == fresh /\ odd \cap {"overlap", "superseded", "crossed"} = {} => marker.to = bundle

(* guard.ts:68-74: a release that was declared healthy is not taken away by the guard,  *)
(* unless it was applied again over itself.                                             *)
ConfirmedIsKept ==
    [][\A v \in failed' \ failed : v \notin confirmed \/ "overlap" \in odd]_vars

(* docs/remote-daemon.md: after a rollback auto-update is paused for that release.  The  *)
(* daemon does not install it again by itself, unless it died before it could say so.     *)
PausedAfterRollback ==
    [][bundle' # bundle /\ job["daemon"].at = "marked" /\ proc = "up"
         => bundle' \notin failed \/ "cut_short" \in odd]_vars

(* docs/remote-daemon.md: a release that does not start is left: its bundle is replaced  *)
(* by the one that ran before, however it fails, unless an apply got in the way or the    *)
(* saved bundle cannot be put back.                                                      *)
LeavesBadRelease ==
    \A v \in Versions :
        fresh /\ bundle = v /\ v \in bad /\ proc = "down"
            ~> bundle # v \/ odd \cap {"overlap", "superseded", "gave_up", "crossed"} # {}

(* guard.ts:11: what the guard puts back is the version the marker names, the one that   *)
(* was running before the upgrade.                                                       *)
PreviousComesBack ==
    [][\A v \in failed' \ failed : bundle' = marker.from]_vars
=============================================================================
