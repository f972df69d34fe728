------------------------ MODULE DaemonUpdate_proofs ------------------------
(***************************************************************************)
(* Theorems about the daemon's update, for any number of releases, failed   *)
(* starts and mishaps, with their proofs: the types, the marker that guards *)
(* a new bundle, what the guard may take away, and what is not installed    *)
(* again after it.                                                          *)
(***************************************************************************)
EXTENDS DaemonUpdate, TLAPS

-----------------------------------------------------------------------------
(* Type correctness.                                                       *)

\* What an updater's job is, wherever it is.
JobType == [at : {"idle", "asked", "staging", "kept", "marked"}, own : 0..Newest, to : 0..Newest]

\* The constants, and the values that stand for nothing, are of the types the variables have.
LEMMA Bounds ==
    /\ Newest \in Nat /\ 0 \in 0..Newest /\ Versions \subseteq 0..Newest
    /\ MaxFailedBoots \in Nat /\ MaxFailedBoots > 0 /\ MaxMishaps \in Nat
    /\ None \in [to : 0..Newest, now : BOOLEAN]
    /\ NoMarker \in [from : 0..Newest, to : 0..Newest, boots : 0..MaxFailedBoots]
    /\ NoJob \in JobType
BY BoundsAssumption DEF Versions, None, NoMarker, NoJob, JobType

\* An updater that takes its next step, or is done, leaves the other alone.
LEMMA JobStep ==
    ASSUME TypeOK, NEW a \in Actors,
           NEW at \in {"idle", "asked", "staging", "kept", "marked"},
           NEW own \in 0..Newest, NEW to \in 0..Newest
    PROVE  /\ Job(a, at, own, to) => /\ job' \in [Actors -> JobType]
                                     /\ job'[a] = [at |-> at, own |-> own, to |-> to]
                                     /\ \A b \in Actors \ {a} : job'[b] = job[b]
           /\ JobEnds(a) => /\ job' \in [Actors -> JobType]
                            /\ job'[a] = NoJob
                            /\ \A b \in Actors \ {a} : job'[b] = job[b]
BY Bounds DEF Job, JobEnds, TypeOK, JobType

\* A step into anything but the marked state marks nobody.
LEMMA NobodyMarked ==
    ASSUME TypeOK, NEW a \in Actors, NEW at \in {"idle", "asked", "staging", "kept"},
           NEW own \in 0..Newest, NEW to \in 0..Newest,
           Job(a, at, own, to) \/ JobEnds(a) \/ UNCHANGED job
    PROVE  \A b \in Actors : job'[b].at = "marked" => job'[b] = job[b]
<1>1. CASE Job(a, at, own, to)
  <2>1. job'[a] = [at |-> at, own |-> own, to |-> to] /\ \A b \in Actors \ {a} : job'[b] = job[b]
    BY <1>1, JobStep
  <2> QED BY <2>1
<1>2. CASE JobEnds(a)
  <2>1. job'[a] = NoJob /\ \A b \in Actors \ {a} : job'[b] = job[b]
    <3>1. 0 \in 0..Newest /\ "idle" \in {"idle", "asked", "staging", "kept", "marked"}
      BY Bounds
    <3> QED BY <1>2, <3>1, JobStep
  <2> QED BY <2>1 DEF NoJob
<1>3. CASE UNCHANGED job
  BY <1>3
<1> QED BY <1>1, <1>2, <1>3

\* Saving a bundle and pruning the older ones keeps the type of what is saved.
LEMMA KeptType ==
    ASSUME TypeOK, NEW own, Kept(own)
    PROVE  prev' \in [Versions -> 0..Newest]
BY Bounds DEF Kept, Pruned, TypeOK

\* The first installation has the types.
LEMMA InitTypeOK == Init => TypeOK
<1> SUFFICES ASSUME Init PROVE TypeOK
  OBVIOUS
<1>1. 1 \in Versions /\ 1 \in 0..Newest
  BY BoundsAssumption DEF Versions
<1>2. bad \subseteq Versions
  BY BoundsAssumption DEF Init, Versions
<1>3. job \in [Actors -> JobType] /\ prev \in [Versions -> 0..Newest]
  BY Bounds DEF Init
<1>4. mishaps \in 0..MaxMishaps
  BY Bounds DEF Init
<1>5. odd = {} /\ failed = {} /\ confirmed \subseteq Versions
  BY <1>1 DEF Init
<1> QED BY <1>1, <1>2, <1>3, <1>4, <1>5, Bounds DEF Init, TypeOK, JobType

-----------------------------------------------------------------------------
(* The staging lock.                                                       *)

\* Where an updater holds the lock (apply.ts: withLock).
InLock == {"staging", "kept", "marked"}

\* It has one owner, who installs a newer release than its own; the health deadline
\* is about the version that runs.
LockInv ==
    /\ \A a, b \in Actors : job[a].at \in InLock /\ job[b].at \in InLock => a = b
    /\ \A a \in Actors : job[a].at \in InLock => 0 < job[a].own /\ job[a].own < job[a].to
    /\ job["cli"].at = "asked" => 0 < job["cli"].own
    /\ marker.to # 0 => marker.from # marker.to /\ 0 < marker.from
    /\ watch # 0 => watch = run

\* At first nobody is in the lock.
LEMMA InitLock == Init => LockInv
BY DEF Init, LockInv, NoJob, NoMarker, InLock, Actors

\* Staging, keeping, marking and swapping, whoever does it.
LEMMA StagingType ==
    ASSUME TypeOK, LockInv, NEW a \in Actors, Staging(a)
    PROVE  TypeOK'
<1> USE DEF files, process, history
<1>1. /\ job[a] \in JobType
      /\ job[a].own \in 0..Newest /\ job[a].to \in 0..Newest
  BY DEF TypeOK, JobType
<1>2. CASE Stage(a)
  <2>1. prev' \in [Versions -> 0..Newest]
    BY <1>2, KeptType DEF Stage
  <2>2. job' \in [Actors -> JobType]
    BY <1>1, <1>2, JobStep DEF Stage
  <2>3. odd' \subseteq Oddities
    BY <1>2 DEF Stage, Oddities, TypeOK
  <2> QED BY <1>2, <2>1, <2>2, <2>3 DEF Stage, TypeOK, JobType
<1>3. CASE Mark(a)
  <2>1. marker' \in [from : 0..Newest, to : 0..Newest, boots : 0..MaxFailedBoots]
    BY <1>1, <1>3, Bounds DEF Mark
  <2>2. job' \in [Actors -> JobType]
    BY <1>1, <1>3, JobStep DEF Mark
  <2>3. odd' \subseteq Oddities /\ held' \in 0..Newest
    BY <1>3, Bounds DEF Mark, Oddities, TypeOK
  <2> QED BY <1>3, <2>1, <2>2, <2>3 DEF Mark, TypeOK, JobType
<1>4. CASE Swap(a)
  <2>0. job[a].to \in Versions
    BY <1>1, <1>4, BoundsAssumption DEF Swap, LockInv, InLock, Versions
  <2>1. job' \in [Actors -> JobType]
    BY <1>1, <1>4, JobStep DEF Swap
  <2>2. /\ request' \in [to : 0..Newest, now : BOOLEAN]
        /\ pending' \in [to : 0..Newest, now : BOOLEAN]
    <3>1. CASE a = "daemon"
      <4>1. pending' = [to |-> job[a].to, now |-> FALSE] /\ UNCHANGED request
        BY <1>4, <3>1 DEF Swap
      <4>2. [to |-> job[a].to, now |-> FALSE] \in [to : 0..Newest, now : BOOLEAN]
        BY <1>1
      <4> QED BY <4>1, <4>2 DEF TypeOK
    <3>2. CASE a # "daemon"
      <4>1. PICK now \in BOOLEAN : request' = [to |-> job[a].to, now |-> now] /\ UNCHANGED pending
        BY <1>4, <3>2 DEF Swap
      <4> QED BY <1>1, <4>1 DEF TypeOK
    <3> QED BY <3>1, <3>2
  <2> QED BY <1>4, <2>0, <2>1, <2>2 DEF Swap, TypeOK, JobType
<1>5. CASE SwapFails(a)
  <2>1. job' \in [Actors -> JobType]
    BY <1>1, <1>5, JobStep DEF SwapFails
  <2> QED BY <1>5, <2>1, Bounds DEF SwapFails, TypeOK, JobType
<1>6. CASE HeldBack(a)
  <2>1. job' \in [Actors -> JobType]
    BY <1>1, <1>6, JobStep DEF HeldBack
  <2>2. held' \in 0..Newest
    BY <1>1, <1>6 DEF HeldBack, TypeOK
  <2> QED BY <1>6, <2>1, <2>2 DEF HeldBack, TypeOK, JobType
<1>7. CASE StageFails(a)
  <2>1. job' \in [Actors -> JobType]
    BY <1>1, <1>7, JobStep DEF StageFails
  <2> QED BY <1>7, <2>1, Bounds DEF StageFails, TypeOK, JobType
<1> QED BY <1>2, <1>3, <1>4, <1>5, <1>6, <1>7 DEF Staging

\* A shell that asks, waits for its answer, and may be interrupted.
LEMMA ShellType ==
    ASSUME TypeOK, Shell
    PROVE  TypeOK'
<1> USE DEF files, process, history
<1>1. "cli" \in Actors /\ job["cli"].own \in 0..Newest /\ latest \in 0..Newest /\ bundle \in 0..Newest
  BY Bounds DEF Actors, TypeOK
<1>2. job' \in [Actors -> JobType]
  BY <1>1, JobStep, Bounds DEF Shell, Invoke, Apply, Interrupted
<1>3. CASE Invoke \/ Apply
  BY <1>2, <1>3 DEF Invoke, Apply, TypeOK, JobType
<1>4. CASE Interrupted
  <2>1. mishaps' \in 0..MaxMishaps
    BY <1>4, Bounds DEF Interrupted, TypeOK
  <2> QED BY <1>2, <1>4, <2>1 DEF Interrupted, TypeOK, JobType
<1> QED BY <1>3, <1>4 DEF Shell

\* The daemon's own updater (AutoUpdater) keeps the types.
LEMMA UpdaterType ==
    ASSUME TypeOK, Updater
    PROVE  TypeOK'
<1> USE DEF files, process, history
<1>1. "daemon" \in Actors /\ run \in 0..Newest /\ latest \in 0..Newest
  BY Bounds DEF Actors, TypeOK
<1>2. CASE ConsumeRequest
  BY <1>2, Bounds DEF ConsumeRequest, TypeOK
<1>3. CASE Check
  <2>1. job' \in [Actors -> JobType]
    <3>1. CASE UNCHANGED job
      BY <3>1 DEF TypeOK, JobType
    <3>2. CASE Job("daemon", "staging", run, latest)
      BY <1>1, <3>2, JobStep
    <3> QED BY <1>3, <3>1, <3>2 DEF Check
  <2> QED BY <1>3, <2>1, Bounds DEF Check, TypeOK, JobType
<1>4. CASE Restart
  BY <1>4, Bounds DEF Restart, Down, TypeOK
<1> QED BY <1>2, <1>3, <1>4 DEF Updater

\* A start of the daemon, guarded or not, keeps the types.
LEMMA BootType ==
    ASSUME TypeOK, LockInv, Boot
    PROVE  TypeOK'
<1> USE DEF files, process, history
<1>1. bundle \in 0..Newest /\ run \in 0..Newest /\ marker.from \in 0..Newest
      /\ marker.to \in 0..Newest /\ marker.boots \in 0..MaxFailedBoots
  BY Bounds DEF TypeOK
<1>2. CASE BootUnguarded
  BY <1>2, Bounds DEF BootUnguarded, Starts, TypeOK
<1>3. CASE BootCounted
  <2>1. marker' \in [from : 0..Newest, to : 0..Newest, boots : 0..MaxFailedBoots]
    BY <1>1, <1>3, Bounds DEF BootCounted, TypeOK
  <2> QED BY <1>1, <1>3, <2>1, Bounds DEF BootCounted, Starts, TypeOK
<1>4. CASE BootRestores
  <2>1. marker.from \in Versions /\ prev[marker.from] \in Versions
        /\ prev' \in [Versions -> 0..Newest]
    <3>1. marker.from \in Versions
      BY <1>1, <1>4, BoundsAssumption
      DEF BootRestores, MustRestore, UnderGuard, LockInv, Versions
    <3> QED BY <1>4, <3>1, Bounds DEF BootRestores, TypeOK, Versions
  <2> QED BY <1>4, <2>1, Bounds DEF BootRestores, TypeOK
<1>5. CASE Restored
  BY <1>1, <1>5, Bounds DEF Restored, Down, TypeOK, Oddities
<1>6. CASE BootGivesUp
  <2>1. mishaps' \in 0..MaxMishaps
    BY <1>6, Bounds DEF BootGivesUp, TypeOK
  <2> QED BY <1>1, <1>6, <2>1, Bounds DEF BootGivesUp, Starts, TypeOK, Oddities
<1> QED BY <1>2, <1>3, <1>4, <1>5, <1>6 DEF Boot

\* What a running daemon does keeps the types.
LEMMA RunningType ==
    ASSUME TypeOK, Running
    PROVE  TypeOK'
<1> USE DEF files, process, history
<1>1. CASE Listening
  BY <1>1 DEF Listening, TypeOK
<1>2. CASE Healthy
  BY <1>2, Bounds DEF Healthy, TypeOK
<1>3. CASE Wedged
  BY <1>3, Bounds DEF Wedged, Down, TypeOK
<1>4. CASE Dies
  <2>1. job' \in [Actors -> JobType]
    BY <1>4, JobStep, Bounds DEF Dies, Actors
  <2>2. mishaps' \in 0..MaxMishaps
    BY <1>4, Bounds DEF Dies, TypeOK
  <2>3. odd' \subseteq Oddities
    BY <1>4 DEF Dies, TypeOK, Oddities
  <2> QED BY <1>4, <2>1, <2>2, <2>3, Bounds DEF Dies, Down, TypeOK, JobType
<1> QED BY <1>1, <1>2, <1>3, <1>4 DEF Running

\* Every step keeps the types.
LEMMA NextTypeOK == TypeOK /\ LockInv /\ [Next]_vars => TypeOK'
<1> SUFFICES ASSUME TypeOK, LockInv, [Next]_vars PROVE TypeOK'
  OBVIOUS
<1>1. CASE \E a \in Actors : Staging(a)
  BY <1>1, StagingType
<1>2. CASE Shell \/ Updater \/ Boot \/ Running
  BY <1>2, ShellType, UpdaterType, BootType, RunningType
<1>3. CASE Publish
  BY <1>3, BoundsAssumption DEF Publish, files, process, history, TypeOK, Versions
<1>4. CASE Quieter
  BY <1>4 DEF Quieter, files, process, history, TypeOK
<1>5. CASE UNCHANGED vars
  BY <1>5 DEF vars, files, process, history, TypeOK
<1> QED BY <1>1, <1>2, <1>3, <1>4, <1>5 DEF Next

\* The updaters: who enters the staging lock found it free, with a newer release to install.
LEMMA StagingLock ==
    ASSUME TypeOK, LockInv, NEW a \in Actors, Staging(a)
    PROVE  LockInv'
<1> USE DEF files, process, history
<1>1. job[a].own \in 0..Newest /\ job[a].to \in 0..Newest
  BY DEF TypeOK, JobType
<1>2. UNCHANGED <<run, watch>>
  BY DEF Staging, Stage, Mark, Swap, SwapFails, HeldBack, StageFails
<1>3. \A b \in Actors \ {a} : job'[b] = job[b]
  BY <1>1, JobStep DEF Staging, Stage, Mark, Swap, SwapFails, HeldBack, StageFails
<1>4. \/ job'[a] = NoJob
      \/ /\ job[a].at \in InLock /\ job'[a].at \in {"kept", "marked"}
         /\ job'[a].own = job[a].own /\ job'[a].to = job[a].to
  <2>1. CASE Stage(a)
    <3>1. job[a].at = "staging" /\ Job(a, "kept", job[a].own, job[a].to)
      BY <2>1 DEF Stage
    <3>2. job'[a] = [at |-> "kept", own |-> job[a].own, to |-> job[a].to]
      BY <1>1, <3>1, JobStep
    <3> QED BY <3>1, <3>2 DEF InLock
  <2>2. CASE Mark(a)
    <3>1. job[a].at = "kept" /\ Job(a, "marked", job[a].own, job[a].to)
      BY <2>2 DEF Mark
    <3>2. job'[a] = [at |-> "marked", own |-> job[a].own, to |-> job[a].to]
      BY <1>1, <3>1, JobStep
    <3> QED BY <3>1, <3>2 DEF InLock
  <2>3. CASE Swap(a) \/ SwapFails(a) \/ HeldBack(a) \/ StageFails(a)
    BY <1>1, <2>3, JobStep DEF Swap, SwapFails, HeldBack, StageFails
  <2> QED BY <2>1, <2>2, <2>3 DEF Staging
<1>5. \/ marker' \in {marker, NoMarker}
      \/ job[a].at \in InLock /\ marker' = [from |-> job[a].own, to |-> job[a].to, boots |-> 0]
  BY DEF Staging, Stage, Mark, Swap, SwapFails, HeldBack, StageFails, InLock
<1>6. marker'.to # 0 => marker'.from # marker'.to /\ 0 < marker'.from
  BY <1>1, <1>5 DEF LockInv, NoMarker
<1>7. /\ \A b, c \in Actors : job'[b].at \in InLock /\ job'[c].at \in InLock => b = c
      /\ \A b \in Actors : job'[b].at \in InLock => 0 < job'[b].own /\ job'[b].own < job'[b].to
      /\ job'["cli"].at = "asked" => 0 < job'["cli"].own
  BY <1>3, <1>4 DEF LockInv, NoJob, InLock, Actors
<1> QED BY <1>2, <1>6, <1>7 DEF LockInv

\* An updater that enters while nobody is in the lock is alone in it.
LEMMA EnterLock ==
    ASSUME TypeOK, LockInv, LockFree, NEW a \in Actors, NEW own \in Versions, latest > own,
           Job(a, "staging", own, latest), UNCHANGED <<marker, run, watch>>
    PROVE  LockInv'
<1>1. own \in 0..Newest /\ latest \in 0..Newest /\ 0 < own
  BY Bounds DEF TypeOK, Versions
<1>2. job'[a] = [at |-> "staging", own |-> own, to |-> latest]
      /\ \A b \in Actors \ {a} : job'[b] = job[b]
  BY <1>1, JobStep
<1> QED BY <1>1, <1>2 DEF LockInv, LockFree, InLock, Actors

\* Every step leaves at most one updater in the lock.
LEMMA NextLock == TypeOK /\ LockInv /\ [Next]_vars => LockInv'
<1> SUFFICES ASSUME TypeOK, LockInv, [Next]_vars PROVE LockInv'
  OBVIOUS
<1> USE DEF files, process, history
<1>1. CASE \E a \in Actors : Staging(a)
  BY <1>1, StagingLock
<1>2. CASE Invoke
  <2>1. bundle \in 0..Newest /\ 0 < bundle
    BY Bounds DEF TypeOK, Versions
  <2>2. job'["cli"] = [at |-> "asked", own |-> bundle, to |-> 0]
        /\ \A b \in Actors \ {"cli"} : job'[b] = job[b]
    BY <1>2, <2>1, JobStep, Bounds DEF Invoke, Actors
  <2> QED BY <1>2, <2>1, <2>2 DEF Invoke, LockInv, InLock, Actors
<1>3. CASE Apply \/ Interrupted
  <2>1. CASE JobEnds("cli") /\ UNCHANGED <<marker, run, watch>>
    <3>1. job'["cli"] = NoJob /\ \A b \in Actors \ {"cli"} : job'[b] = job[b]
      BY <2>1, JobStep, Bounds DEF Actors
    <3> QED BY <2>1, <3>1 DEF LockInv, InLock, NoJob, Actors
  <2>2. CASE Apply /\ LockFree /\ latest > job["cli"].own
    <3>1. job["cli"].own \in Versions
      BY <2>2, Bounds DEF Apply, LockInv, TypeOK, Actors, Versions
    <3> QED BY <2>2, <3>1, EnterLock DEF Apply, Actors
  <2> QED BY <1>3, <2>1, <2>2 DEF Apply, Interrupted
<1>4. CASE ConsumeRequest
  BY <1>4 DEF ConsumeRequest, LockInv
<1>5. CASE Check
  <2>1. CASE UNCHANGED job
    BY <1>5, <2>1 DEF Check, LockInv
  <2>2. CASE LockFree /\ Job("daemon", "staging", run, latest)
    BY <1>5, <2>2, EnterLock DEF Check, TypeOK, Actors
  <2> QED BY <1>5, <2>1, <2>2 DEF Check
<1>6. CASE Restart \/ Wedged
  BY <1>6 DEF Restart, Wedged, Down, LockInv
<1>7. CASE Dies
  <2>1. job'["daemon"] = NoJob /\ \A b \in Actors \ {"daemon"} : job'[b] = job[b]
    BY <1>7, JobStep, Bounds DEF Dies, Actors
  <2> QED BY <1>7, <2>1 DEF Dies, Down, LockInv, InLock, NoJob, Actors
<1>8. CASE Boot
  <2>1. UNCHANGED job /\ watch' \in {0, run'}
    BY <1>8 DEF Boot, BootUnguarded, BootCounted, BootRestores, Restored, BootGivesUp, Starts, Down
  <2>2. \/ marker' \in {marker, NoMarker}
        \/ marker'.from = marker.from /\ marker'.to = marker.to
    BY <1>8 DEF Boot, BootUnguarded, BootCounted, BootRestores, Restored, BootGivesUp, TypeOK
  <2> QED BY <2>1, <2>2 DEF LockInv, NoMarker
<1>9. CASE Listening
  BY <1>9 DEF Listening, LockInv
<1>10. CASE Healthy
  BY <1>10 DEF Healthy, LockInv, NoMarker
<1>11. CASE Publish \/ Quieter \/ UNCHANGED vars
  BY <1>11 DEF Publish, Quieter, vars, LockInv
<1> QED
  BY <1>1, <1>2, <1>3, <1>4, <1>5, <1>6, <1>7, <1>8, <1>9, <1>10, <1>11
  DEF Next, Shell, Updater, Running

\* The update files and the processes keep their types, whatever is applied, restarted,
\* rolled back or interrupted: in particular a start never counts beyond MaxFailedBoots.
THEOREM TypeCorrect == Spec => []TypeOK
BY InitTypeOK, NextTypeOK, InitLock, NextLock, PTL DEF Spec

-----------------------------------------------------------------------------
(* The guard of a new bundle.                                              *)

\* No apply has come between another one and the bundle it is about.
Clean == odd \cap {"overlap", "superseded", "crossed"} = {}

\* The marker is about the bundle an apply installed, or about the one it is to install
\* next; what is saved under a version's name is that version.
MarkerInv ==
    /\ fresh <=> marker.to = bundle
    /\ \A a \in Actors : job[a].at = "marked" =>
          /\ marker.from = job[a].own /\ marker.to = job[a].to /\ marker.boots = 0
          /\ bundle = job[a].own /\ ~fresh
    /\ watch # 0 => fresh /\ bundle = run
    /\ \A v \in Versions : prev[v] \in {0, v}
    /\ proc = "restoring" /\ fresh => marker.boots < MaxFailedBoots

\* The marker stands by the bundle, unless one of the named oddities has happened.
GuardInv == Clean => MarkerInv

\* No bundle is under the guard at first.
LEMMA InitGuard == Init => GuardInv
BY BoundsAssumption DEF Init, GuardInv, MarkerInv, NoJob, NoMarker, Actors

\* Steps that leave files, jobs and the process's deadline alone.
LEMMA GuardUntouched ==
    ASSUME GuardInv, UNCHANGED <<bundle, prev, marker, watch, run, fresh, odd>>,
           \A a \in Actors : job'[a].at = "marked" => job'[a] = job[a],
           proc' = "restoring" => proc = "restoring"
    PROVE  GuardInv'
BY DEF GuardInv, Clean, MarkerInv

\* An installation keeps the guard: the marker is set before the bundle is replaced.
LEMMA StagingGuard ==
    ASSUME TypeOK, LockInv, GuardInv, NEW a \in Actors, Staging(a)
    PROVE  GuardInv'
<1> USE DEF files, process, history
<1>1. /\ job[a].own \in 0..Newest /\ job[a].to \in 0..Newest
      /\ bundle \in Versions /\ watch \in 0..Newest
  BY DEF TypeOK, JobType
<1>2. \A b \in Actors \ {a} : job'[b] = job[b]
  BY <1>1, JobStep DEF Staging, Stage, Mark, Swap, SwapFails, HeldBack, StageFails
<1>3. \A b \in Actors \ {a} : job[a].at \in InLock => job[b].at # "marked"
  BY DEF LockInv, InLock
<1>4. CASE Stage(a)
  <2>1. job'[a] = [at |-> "kept", own |-> job[a].own, to |-> job[a].to]
    BY <1>1, <1>4, JobStep DEF Stage
  <2>2. SUFFICES ASSUME Clean' PROVE MarkerInv'
    BY DEF GuardInv
  <2>3. Clean /\ bundle = job[a].own
    BY <1>4, <2>2 DEF Clean, Stage
  <2>4. MarkerInv
    BY <2>3 DEF GuardInv
  <2>5. \A v \in Versions : prev'[v] \in {0, v}
    BY <1>1, <1>4, <2>3, <2>4 DEF Stage, Kept, Pruned, MarkerInv, TypeOK
  <2> QED BY <1>2, <1>4, <2>1, <2>4, <2>5 DEF Stage, MarkerInv
<1>5. CASE Mark(a)
  <2>1. job'[a] = [at |-> "marked", own |-> job[a].own, to |-> job[a].to]
    BY <1>1, <1>5, JobStep DEF Mark
  <2>2. SUFFICES ASSUME Clean' PROVE MarkerInv'
    BY DEF GuardInv
  <2>3. Clean /\ bundle = job[a].own /\ ~fresh
    BY <1>5, <2>2 DEF Clean, Mark
  <2>4. MarkerInv
    BY <2>3 DEF GuardInv
  <2>5. marker'.from = job[a].own /\ marker'.to = job[a].to /\ marker'.boots = 0
    BY <1>5 DEF Mark
  <2>6. job[a].own # job[a].to
    BY <1>1, <1>5 DEF Mark, LockInv, InLock
  <2>7. \A b \in Actors : job'[b].at = "marked" => b = a
    BY <1>2, <1>3, <1>5 DEF Mark, InLock
  <2> QED BY <1>5, <2>1, <2>3, <2>4, <2>5, <2>6, <2>7 DEF Mark, MarkerInv
<1>6. CASE Swap(a)
  <2>1. job'[a] = NoJob
    BY <1>1, <1>6, JobStep DEF Swap
  <2>2. \A b \in Actors : job'[b].at # "marked"
    BY <1>2, <1>3, <1>6, <2>1 DEF Swap, InLock, NoJob
  <2>3. SUFFICES ASSUME Clean PROVE MarkerInv'
    BY <1>6 DEF GuardInv, Clean, Swap
  <2>4. MarkerInv /\ marker.to = job[a].to /\ marker.boots = 0 /\ ~fresh
    BY <1>6, <2>3 DEF GuardInv, MarkerInv, Swap
  <2>5. watch = 0
    BY <2>4 DEF MarkerInv
  <2> QED BY <1>6, <2>2, <2>4, <2>5, Bounds DEF Swap, MarkerInv
<1>7. CASE SwapFails(a)
  <2>1. job'[a] = NoJob
    BY <1>1, <1>7, JobStep DEF SwapFails
  <2>2. \A b \in Actors : job'[b].at # "marked"
    BY <1>2, <1>3, <1>7, <2>1 DEF SwapFails, InLock, NoJob
  <2>3. SUFFICES ASSUME Clean PROVE MarkerInv'
    BY <1>7 DEF GuardInv, Clean, SwapFails
  <2>4. MarkerInv /\ ~fresh
    BY <1>7, <2>3 DEF GuardInv, MarkerInv, SwapFails
  <2> QED BY <1>1, <1>7, <2>2, <2>4, BoundsAssumption DEF SwapFails, MarkerInv, NoMarker, Versions
<1>8. CASE HeldBack(a) \/ StageFails(a)
  <2>1. job'[a] = NoJob
    BY <1>1, <1>8, JobStep DEF HeldBack, StageFails
  <2> QED BY <1>2, <1>8, <2>1, GuardUntouched DEF HeldBack, StageFails, NoJob
<1> QED BY <1>4, <1>5, <1>6, <1>7, <1>8 DEF Staging

\* A start keeps it: the count goes up, or the bundle goes back with the marker.
LEMMA BootGuard ==
    ASSUME TypeOK, LockInv, GuardInv, Boot
    PROVE  GuardInv'
<1> USE DEF files, process, history
<1>1. /\ bundle \in Versions /\ bundle # 0 /\ job' = job /\ run' \in Versions
      /\ marker.boots \in Nat /\ marker.from \in 0..Newest
  BY BoundsAssumption, SMTT(30)
  DEF TypeOK, Versions, Boot, BootUnguarded, BootCounted, BootRestores, Restored, BootGivesUp,
      Starts, Down
<1>2. SUFFICES ASSUME Clean' PROVE MarkerInv'
  BY DEF GuardInv
<1>3. Clean
  BY <1>2 DEF Clean, Boot, BootUnguarded, BootCounted, BootRestores, Restored, BootGivesUp
<1>4. MarkerInv
  BY <1>3 DEF GuardInv
<1>5. UnderGuard => \A a \in Actors : job[a].at # "marked"
  BY <1>4 DEF UnderGuard, MarkerInv
<1>6. UnderGuard <=> fresh
  BY <1>1, <1>4 DEF UnderGuard, MarkerInv
<1>7. CASE BootUnguarded
  <2>1. ~fresh /\ UNCHANGED <<bundle, prev, fresh>> /\ watch' = 0 /\ proc' = "starting"
    BY <1>6, <1>7 DEF BootUnguarded, Starts
  <2>2. marker' = marker \/ (marker' = NoMarker /\ marker.from # bundle)
    BY <1>7 DEF BootUnguarded
  <2> QED BY <1>1, <1>4, <2>1, <2>2 DEF MarkerInv, NoMarker
<1>8. CASE BootCounted
  <2>1. /\ fresh /\ UNCHANGED <<bundle, prev, fresh>> /\ watch' = bundle /\ run' = bundle
        /\ proc' = "starting" /\ marker'.to = marker.to
    BY <1>6, <1>8 DEF BootCounted, Starts, TypeOK
  <2> QED BY <1>1, <1>4, <1>5, <1>6, <2>1 DEF MarkerInv
<1>9. CASE BootRestores
  <2>1. /\ fresh' = FALSE /\ bundle' = prev[marker.from] /\ watch' = 0 /\ marker' = marker
        /\ UnderGuard /\ prev' = [prev EXCEPT ![marker.from] = 0] /\ prev[marker.from] # 0
    BY <1>9 DEF BootRestores, MustRestore
  <2>2. marker.from \in Versions /\ marker.from # marker.to
    BY <1>1, <2>1, BoundsAssumption DEF LockInv, UnderGuard, Versions
  <2>3. bundle' = marker.from /\ \A v \in Versions : prev'[v] \in {0, v}
    BY <1>4, <2>1, <2>2 DEF MarkerInv, TypeOK
  <2> QED BY <1>1, <1>5, <2>1, <2>2, <2>3 DEF MarkerInv
<1>10. CASE Restored
  <2>1. /\ UNCHANGED <<bundle, prev, fresh>> /\ marker' = NoMarker /\ watch' = 0 /\ proc' = "down"
        /\ proc = "restoring"
    BY <1>10 DEF Restored, Down
  <2>2. marker.to = 0 \/ marker.boots >= MaxFailedBoots
    BY <1>1, <1>2, <1>10, Bounds DEF Restored, Clean
  <2>3. ~fresh
    BY <1>1, <1>4, <2>1, <2>2, Bounds DEF MarkerInv
  <2>4. \A a \in Actors : job[a].at # "marked"
    <3>1. TAKE a \in Actors
    <3>2. job[a].at \in InLock => job[a].to # 0
      BY DEF LockInv, TypeOK, JobType
    <3> QED BY <1>4, <2>2, <3>2, Bounds DEF MarkerInv, InLock
  <2> QED BY <1>1, <1>4, <2>1, <2>3, <2>4 DEF MarkerInv, NoMarker
<1>11. CASE BootGivesUp
  <2>1. /\ fresh' = FALSE /\ UNCHANGED <<bundle, prev>> /\ watch' = 0 /\ marker' = NoMarker
        /\ UnderGuard
    BY <1>11 DEF BootGivesUp, MustRestore, Starts
  <2> QED BY <1>1, <1>4, <1>5, <2>1 DEF MarkerInv, NoMarker
<1> QED BY <1>7, <1>8, <1>9, <1>10, <1>11 DEF Boot

\* A running daemon takes the marker away only for a bundle it has declared healthy.
LEMMA RunningGuard ==
    ASSUME TypeOK, LockInv, GuardInv, Running
    PROVE  GuardInv'
<1> USE DEF files, process, history
<1>1. bundle \in Versions /\ bundle # 0
  BY BoundsAssumption DEF TypeOK, Versions
<1>2. CASE Listening
  BY <1>2, GuardUntouched DEF Listening
<1>3. CASE Healthy
  <2>1. SUFFICES ASSUME Clean PROVE MarkerInv'
    BY <1>3 DEF GuardInv, Clean, Healthy
  <2>2. MarkerInv /\ fresh /\ bundle = run /\ watch = run /\ marker.to = bundle
    BY <1>3, <2>1 DEF GuardInv, MarkerInv, LockInv, Healthy
  <2>3. /\ marker' = NoMarker /\ fresh' = FALSE /\ watch' = 0
        /\ UNCHANGED <<bundle, prev, job, proc, run>>
    BY <1>3, <2>2 DEF Healthy
  <2>4. \A a \in Actors : job[a].at # "marked"
    BY <2>2 DEF MarkerInv
  <2> QED BY <1>1, <2>2, <2>3, <2>4 DEF MarkerInv, NoMarker
<1>4. CASE Wedged \/ Dies
  <2>1. /\ UNCHANGED <<bundle, prev, marker, fresh>> /\ watch' = 0 /\ proc' = "down"
        /\ Clean' => Clean
    BY <1>4 DEF Wedged, Dies, Down, Clean
  <2>2. \A a \in Actors : job'[a].at = "marked" => job'[a] = job[a]
    <3>1. CASE Wedged
      BY <3>1 DEF Wedged
    <3>2. CASE Dies
      BY <3>2, JobStep, Bounds DEF Dies, NoJob, Actors
    <3> QED BY <1>4, <3>1, <3>2
  <2> QED BY <2>1, <2>2 DEF GuardInv, MarkerInv
<1> QED BY <1>2, <1>3, <1>4 DEF Running

\* Every step keeps the guard.
LEMMA NextGuard == TypeOK /\ LockInv /\ GuardInv /\ [Next]_vars => GuardInv'
<1> SUFFICES ASSUME TypeOK, LockInv, GuardInv, [Next]_vars PROVE GuardInv'
  OBVIOUS
<1> USE DEF files, process, history
<1>1. CASE \E a \in Actors : Staging(a)
  BY <1>1, StagingGuard
<1>2. CASE Shell
  <2>1. \A a \in Actors : job'[a].at = "marked" => job'[a] = job[a]
    <3>1. /\ "cli" \in Actors /\ bundle \in 0..Newest /\ latest \in 0..Newest
          /\ job["cli"].own \in 0..Newest
      BY Bounds DEF TypeOK, Actors
    <3>2. CASE Invoke
      <4>1. Job("cli", "asked", bundle, 0)
        BY <3>2 DEF Invoke
      <4> QED BY <3>1, <4>1, NobodyMarked, Bounds
    <3>3. CASE Apply
      <4>1. Job("cli", "staging", job["cli"].own, latest) \/ JobEnds("cli")
        BY <3>3 DEF Apply
      <4> QED BY <3>1, <4>1, NobodyMarked
    <3>4. CASE Interrupted
      <4>1. JobEnds("cli")
        BY <3>4 DEF Interrupted
      <4> QED BY <3>1, <4>1, NobodyMarked
    <3> QED BY <1>2, <3>2, <3>3, <3>4 DEF Shell
  <2> QED BY <1>2, <2>1, GuardUntouched DEF Shell, Invoke, Apply, Interrupted
<1>3. CASE ConsumeRequest
  BY <1>3, GuardUntouched DEF ConsumeRequest
<1>4. CASE Check
  <2>1. \A a \in Actors : job'[a].at = "marked" => job'[a] = job[a]
    <3>1. "daemon" \in Actors /\ run \in 0..Newest /\ latest \in 0..Newest
      BY Bounds DEF TypeOK, Actors
    <3>2. Job("daemon", "staging", run, latest) \/ UNCHANGED job
      BY <1>4 DEF Check
    <3> QED BY <3>1, <3>2, NobodyMarked
  <2> QED BY <1>4, <2>1, GuardUntouched DEF Check
<1>5. CASE Restart
  BY <1>5 DEF Restart, Down, GuardInv, Clean, MarkerInv
<1>6. CASE Boot \/ Running
  BY <1>6, BootGuard, RunningGuard
<1>7. CASE Publish \/ Quieter \/ UNCHANGED vars
  BY <1>7, GuardUntouched DEF Publish, Quieter, vars
<1> QED BY <1>1, <1>2, <1>3, <1>4, <1>5, <1>6, <1>7 DEF Next, Updater

\* Whatever dies at whatever point, the next start of a bundle that an apply installed
\* and nothing has confirmed is counted by the guard of daemon/update/guard.ts.
THEOREM NewBundleGuarded == Spec => []Guarded
<1>1. TypeOK /\ GuardInv => Guarded
  BY DEF GuardInv, Clean, MarkerInv, Guarded
<1> QED
  BY <1>1, InitTypeOK, NextTypeOK, InitLock, NextLock, InitGuard, NextGuard, PTL DEF Spec

-----------------------------------------------------------------------------
(* What the guard takes away.                                              *)

\* Nothing newer than the bundle was confirmed, nor anything newer than the version the
\* marker would put back; an apply that has set its marker is about to replace the
\* bundle it runs; and what runs is not newer than the bundle.
KeptInv ==
    "overlap" \notin odd =>
        /\ \A v \in confirmed : v <= bundle /\ (marker.to # 0 => v <= marker.from)
        /\ marker.to # 0 => marker.from < marker.to
        /\ \A a \in Actors : job[a].at = "marked" => bundle = job[a].own /\ marker.to \in {0, job[a].to}
        /\ \A v \in Versions : prev[v] \in {0, v}
        /\ proc \in {"starting", "up"} =>
              run <= bundle /\ (marker.to # 0 => run = marker.to \/ run <= marker.from)

\* The first bundle is confirmed and is the one that runs.
LEMMA InitKept == Init => KeptInv
BY BoundsAssumption DEF Init, KeptInv, NoJob, NoMarker, Actors

\* Steps that leave files alone, start no process and mark nothing.
LEMMA KeptUntouched ==
    ASSUME KeptInv, UNCHANGED <<bundle, prev, marker, run, confirmed>>, odd \subseteq odd',
           \A a \in Actors : job'[a].at = "marked" => job'[a] = job[a],
           proc' \in {"starting", "up"} => proc \in {"starting", "up"}
    PROVE  KeptInv'
<1> SUFFICES ASSUME "overlap" \notin odd' PROVE KeptInv'
  BY DEF KeptInv
<1>1. "overlap" \notin odd
  OBVIOUS
<1> QED BY <1>1 DEF KeptInv

\* What numbers they are.
LEMMA Numeric ==
    ASSUME TypeOK
    PROVE  /\ bundle \in Nat /\ bundle > 0 /\ run \in Nat /\ run > 0 /\ latest \in Nat /\ latest > 0
           /\ marker.from \in Nat /\ marker.to \in Nat /\ marker.boots \in Nat /\ watch \in Nat /\ paused \in Nat
           /\ \A a \in Actors : job[a].own \in Nat /\ job[a].to \in Nat
           /\ confirmed \subseteq Nat /\ failed \subseteq Nat /\ \A v \in failed : v > 0
           /\ bundle \in Versions /\ run \in Versions /\ latest \in Versions
           /\ \A a \in Actors : job[a].own \in 0..Newest /\ job[a].to \in 0..Newest
BY BoundsAssumption DEF TypeOK, Versions

\* An installation replaces a bundle only by a newer one, under a marker that names both.
LEMMA StagingKept ==
    ASSUME TypeOK, LockInv, KeptInv, NEW a \in Actors, Staging(a)
    PROVE  KeptInv'
<1> USE DEF files, process, history
<1>1. /\ job[a].own \in 0..Newest /\ job[a].to \in 0..Newest
      /\ job[a].own \in Nat /\ job[a].to \in Nat /\ bundle \in Nat /\ run \in Nat
      /\ marker.from \in Nat /\ marker.to \in Nat /\ confirmed \subseteq Nat
  BY Numeric
<1>2. \A b \in Actors \ {a} : job'[b] = job[b]
  BY <1>1, JobStep DEF Staging, Stage, Mark, Swap, SwapFails, HeldBack, StageFails
<1>3. \A b \in Actors \ {a} : job[a].at \in InLock => job[b].at # "marked"
  BY DEF LockInv, InLock
<1>4. CASE Stage(a)
  <2>1. job'[a] = [at |-> "kept", own |-> job[a].own, to |-> job[a].to]
    BY <1>1, <1>4, JobStep DEF Stage
  <2>2. SUFFICES ASSUME "overlap" \notin odd' PROVE KeptInv'
    BY DEF KeptInv
  <2>3. "overlap" \notin odd /\ bundle = job[a].own
    BY <1>4, <2>2 DEF Stage
  <2>4. \A v \in Versions : prev'[v] \in {0, v}
    BY <1>1, <1>4, <2>3 DEF Stage, Kept, Pruned, KeptInv, TypeOK
  <2>5. UNCHANGED <<bundle, marker, proc, run, confirmed>>
    BY <1>4 DEF Stage
  <2>6. \A b \in Actors : job'[b].at = "marked" => job'[b] = job[b]
    BY <1>2, <2>1
  <2> QED BY <2>3, <2>4, <2>5, <2>6 DEF KeptInv
<1>5. CASE Mark(a)
  <2>1. job'[a] = [at |-> "marked", own |-> job[a].own, to |-> job[a].to]
    BY <1>1, <1>5, JobStep DEF Mark
  <2>2. SUFFICES ASSUME "overlap" \notin odd' PROVE KeptInv'
    BY DEF KeptInv
  <2>3. "overlap" \notin odd /\ bundle = job[a].own
    BY <1>5, <2>2 DEF Mark
  <2>4. /\ marker'.from = job[a].own /\ marker'.to = job[a].to
        /\ UNCHANGED <<bundle, prev, proc, run, confirmed>>
    BY <1>5 DEF Mark
  <2>5. job[a].own < job[a].to
    BY <1>5 DEF Mark, LockInv, InLock
  <2>6. \A b \in Actors : job'[b].at = "marked" => b = a
    BY <1>2, <1>3, <1>5 DEF Mark, InLock
  <2> QED BY <2>1, <2>3, <2>4, <2>5, <2>6 DEF KeptInv
<1>6. CASE Swap(a)
  <2>1. job'[a] = NoJob
    BY <1>1, <1>6, JobStep DEF Swap
  <2>2. \A b \in Actors : job'[b].at # "marked"
    BY <1>2, <1>3, <1>6, <2>1 DEF Swap, InLock, NoJob
  <2>3. SUFFICES ASSUME "overlap" \notin odd PROVE KeptInv'
    BY <1>6 DEF KeptInv, Swap
  <2>4. bundle = job[a].own /\ job[a].own < job[a].to
    BY <1>6, <2>3 DEF KeptInv, Swap, LockInv, InLock
  <2>5. bundle' = job[a].to /\ UNCHANGED <<marker, prev, proc, run, confirmed>>
    BY <1>6 DEF Swap
  <2>6. bundle <= bundle' /\ bundle' \in Nat
    BY <1>1, <2>4, <2>5
  <2>7. \A v \in confirmed : v <= bundle'
    <3>1. \A v \in confirmed : v \in Nat /\ v <= bundle
      BY <1>1, <2>3 DEF KeptInv
    <3> QED BY <1>1, <2>6, <3>1
  <2>8. proc \in {"starting", "up"} => run <= bundle'
    <3>1. proc \in {"starting", "up"} => run <= bundle
      BY <2>3 DEF KeptInv
    <3> QED BY <1>1, <2>6, <3>1
  <2> QED BY <2>2, <2>3, <2>5, <2>7, <2>8 DEF KeptInv
<1>7. CASE SwapFails(a)
  <2>1. job'[a] = NoJob
    BY <1>1, <1>7, JobStep DEF SwapFails
  <2>2. \A b \in Actors : job'[b].at # "marked"
    BY <1>2, <1>3, <1>7, <2>1 DEF SwapFails, InLock, NoJob
  <2>3. marker'.to = 0 /\ UNCHANGED <<bundle, prev, proc, run, confirmed, odd>>
    BY <1>7 DEF SwapFails, NoMarker
  <2> QED BY <2>2, <2>3 DEF KeptInv
<1>8. CASE HeldBack(a) \/ StageFails(a)
  <2>1. job'[a] = NoJob
    BY <1>1, <1>8, JobStep DEF HeldBack, StageFails
  <2> QED BY <1>2, <1>8, <2>1, KeptUntouched DEF HeldBack, StageFails, NoJob
<1> QED BY <1>4, <1>5, <1>6, <1>7, <1>8 DEF Staging

\* A start runs the bundle, or puts back the older one the marker names.
LEMMA BootKept ==
    ASSUME TypeOK, LockInv, KeptInv, Boot
    PROVE  KeptInv'
<1> USE DEF files, process, history
<1>1. /\ bundle \in Nat /\ bundle > 0 /\ marker.from \in Nat /\ marker.to \in Nat /\ confirmed \subseteq Nat
      /\ \A a \in Actors : job[a].own \in Nat /\ job[a].to \in Nat
  BY Numeric
<1>2. SUFFICES ASSUME "overlap" \notin odd' PROVE KeptInv'
  BY DEF KeptInv
<1>3. "overlap" \notin odd /\ job' = job /\ confirmed' = confirmed
  BY <1>2 DEF Boot, BootUnguarded, BootCounted, BootRestores, Restored, BootGivesUp
<1>4. CASE BootUnguarded
  <2>1. run' = bundle /\ UNCHANGED <<bundle, prev>>
    BY <1>4 DEF BootUnguarded, Starts
  <2>2. (marker' = marker /\ marker.from = bundle) \/ marker'.to = 0
    BY <1>4 DEF BootUnguarded, NoMarker
  <2> QED BY <1>1, <1>3, <2>1, <2>2 DEF KeptInv
<1>5. CASE BootCounted
  <2>1. run' = bundle /\ marker.to = bundle /\ UNCHANGED <<bundle, prev>>
    BY <1>5 DEF BootCounted, Starts, UnderGuard
  <2>2. marker'.to = marker.to /\ marker'.from = marker.from
    BY <1>5 DEF BootCounted, TypeOK
  <2> QED BY <1>1, <1>3, <2>1, <2>2 DEF KeptInv
<1>6. CASE BootRestores
  <2>1. /\ bundle' = prev[marker.from] /\ prev[marker.from] # 0 /\ marker' = marker
        /\ marker.to = bundle /\ marker.to # 0 /\ proc' = "restoring"
        /\ prev' = [prev EXCEPT ![marker.from] = 0]
    BY <1>6 DEF BootRestores, MustRestore, UnderGuard
  <2>2. marker.from \in Versions
    BY <1>1, <2>1, BoundsAssumption DEF LockInv, Versions, TypeOK
  <2>3. bundle' = marker.from /\ \A v \in Versions : prev'[v] \in {0, v}
    BY <1>3, <2>1, <2>2 DEF KeptInv, TypeOK
  <2>4. \A a \in Actors : job[a].at # "marked"
    <3> SUFFICES ASSUME NEW a \in Actors, job[a].at = "marked" PROVE FALSE
      OBVIOUS
    <3>1. job[a].own < job[a].to /\ bundle = job[a].own /\ marker.to = job[a].to
      BY <1>3, <2>1 DEF LockInv, InLock, KeptInv
    <3> QED BY <1>1, <2>1, <3>1
  <2> QED BY <1>3, <2>1, <2>3, <2>4 DEF KeptInv
<1>7. CASE Restored \/ BootGivesUp
  <2>1. marker'.to = 0 /\ UNCHANGED <<bundle, prev>> /\ (proc' = "down" \/ run' = bundle)
    BY <1>7 DEF Restored, BootGivesUp, Starts, Down, NoMarker
  <2>2. proc' = "down" => proc' \notin {"starting", "up"}
    OBVIOUS
  <2> QED BY <1>1, <1>3, <2>1, <2>2 DEF KeptInv
<1> QED BY <1>4, <1>5, <1>6, <1>7 DEF Boot

\* A daemon declares healthy only what it runs.
LEMMA RunningKept ==
    ASSUME TypeOK, LockInv, KeptInv, Running
    PROVE  KeptInv'
<1> USE DEF files, process, history
<1>1. /\ bundle \in Nat /\ run \in Nat /\ marker.from \in Nat /\ marker.to \in Nat /\ confirmed \subseteq Nat
  BY Numeric
<1>2. CASE Listening
  BY <1>2, KeptUntouched DEF Listening
<1>3. CASE Healthy
  <2>1. SUFFICES ASSUME "overlap" \notin odd PROVE KeptInv'
    BY <1>3 DEF KeptInv, Healthy
  <2>2. /\ marker'.to = 0 \/ (marker' = marker /\ marker.to # run)
        /\ confirmed' = confirmed \cup {run} /\ proc = "up"
        /\ UNCHANGED <<bundle, prev, job, proc, run, odd>>
    BY <1>3 DEF Healthy, LockInv, NoMarker
  <2> QED BY <1>1, <2>1, <2>2 DEF KeptInv
<1>4. CASE Wedged \/ Dies
  <2>1. /\ UNCHANGED <<bundle, prev, marker, run, confirmed>> /\ proc' = "down" /\ odd \subseteq odd'
    BY <1>4 DEF Wedged, Dies, Down
  <2>2. \A a \in Actors : job'[a].at = "marked" => job'[a] = job[a]
    <3>1. CASE Wedged
      BY <3>1 DEF Wedged
    <3>2. CASE Dies
      BY <3>2, JobStep, Bounds DEF Dies, NoJob, Actors
    <3> QED BY <1>4, <3>1, <3>2
  <2> QED BY <2>1, <2>2, KeptUntouched
<1> QED BY <1>2, <1>3, <1>4 DEF Running

\* Neither the shell nor the daemon's tick marks anything.
LEMMA OthersMarkNothing ==
    ASSUME TypeOK, Shell \/ Updater
    PROVE  /\ \A a \in Actors : job'[a].at = "marked" => job'[a] = job[a]
           /\ UNCHANGED <<latest, bundle, prev, marker, run, confirmed, failed, odd>>
           /\ proc' = proc \/ proc' = "down"
<1> USE DEF files, process, history
<1>1. /\ "cli" \in Actors /\ "daemon" \in Actors /\ bundle \in 0..Newest /\ latest \in 0..Newest
      /\ run \in 0..Newest /\ job["cli"].own \in 0..Newest /\ 0 \in 0..Newest
  BY Bounds DEF TypeOK, Actors
<1>2. CASE Invoke
  <2>1. Job("cli", "asked", bundle, 0)
    BY <1>2 DEF Invoke
  <2> QED BY <1>1, <1>2, <2>1, NobodyMarked DEF Invoke
<1>3. CASE Apply
  <2>1. Job("cli", "staging", job["cli"].own, latest) \/ JobEnds("cli")
    BY <1>3 DEF Apply
  <2> QED BY <1>1, <1>3, <2>1, NobodyMarked DEF Apply
<1>4. CASE Interrupted
  <2>1. JobEnds("cli")
    BY <1>4 DEF Interrupted
  <2> QED BY <1>1, <1>4, <2>1, NobodyMarked DEF Interrupted
<1>5. CASE ConsumeRequest
  BY <1>5 DEF ConsumeRequest
<1>6. CASE Check
  <2>1. Job("daemon", "staging", run, latest) \/ UNCHANGED job
    BY <1>6 DEF Check
  <2> QED BY <1>1, <1>6, <2>1, NobodyMarked DEF Check
<1>7. CASE Restart
  BY <1>7 DEF Restart, Down
<1> QED BY <1>2, <1>3, <1>4, <1>5, <1>6, <1>7 DEF Shell, Updater

\* Every step keeps what was confirmed at or below the bundle.
LEMMA NextKept == TypeOK /\ LockInv /\ KeptInv /\ [Next]_vars => KeptInv'
<1> SUFFICES ASSUME TypeOK, LockInv, KeptInv, [Next]_vars PROVE KeptInv'
  OBVIOUS
<1> USE DEF files, process, history
<1>1. CASE \E a \in Actors : Staging(a)
  BY <1>1, StagingKept
<1>2. CASE Shell \/ Updater
  <2>1. /\ \A a \in Actors : job'[a].at = "marked" => job'[a] = job[a]
        /\ UNCHANGED <<bundle, prev, marker, run, confirmed>> /\ odd \subseteq odd'
        /\ proc' \in {"starting", "up"} => proc \in {"starting", "up"}
    BY <1>2, OthersMarkNothing
  <2> QED BY <2>1, KeptUntouched
<1>3. CASE Boot \/ Running
  BY <1>3, BootKept, RunningKept
<1>4. CASE Publish \/ Quieter \/ UNCHANGED vars
  BY <1>4, KeptUntouched DEF Publish, Quieter, vars
<1> QED BY <1>1, <1>2, <1>3, <1>4 DEF Next

\* The guard (daemon/update/guard.ts) never takes away a release that was declared healthy,
\* unless an update was applied over a bundle other than the one that applied it.
THEOREM ConfirmedStays == Spec => ConfirmedIsKept
<1> DEFINE Taken == \A v \in failed' \ failed : v \notin confirmed \/ "overlap" \in odd
<1>1. TypeOK /\ KeptInv /\ [Next]_vars => [Taken]_vars
  <2> SUFFICES ASSUME TypeOK, KeptInv, Next, NEW v \in failed' \ failed, v \in confirmed, "overlap" \notin odd
               PROVE  FALSE
    OBVIOUS
  <2>1. BootRestores
    <3> USE DEF files, process, history
    <3>1. CASE \E a \in Actors : Staging(a)
      BY <3>1 DEF Staging, Stage, Mark, Swap, SwapFails, HeldBack, StageFails
    <3>2. CASE Shell \/ Updater
      BY <3>2, OthersMarkNothing
    <3>3. CASE Boot \/ Running
      BY <3>3 DEF Boot, BootUnguarded, BootCounted, Restored, BootGivesUp, Running, Listening, Healthy,
                  Wedged, Dies
    <3>4. CASE Publish \/ Quieter
      BY <3>4 DEF Publish, Quieter
    <3> QED BY <3>1, <3>2, <3>3, <3>4 DEF Next
  <2>2. v = bundle /\ marker.to = bundle /\ marker.to # 0
    BY <2>1 DEF BootRestores, MustRestore, UnderGuard
  <2>3. v <= marker.from /\ marker.from < marker.to
    BY <2>2 DEF KeptInv
  <2> QED BY <2>2, <2>3, Numeric
<1>2. Spec => [][Taken]_vars
  BY <1>1, InitTypeOK, NextTypeOK, InitLock, NextLock, InitKept, NextKept, PTL DEF Spec
<1>3. [][Taken]_vars => ConfirmedIsKept
  BY PTL DEF ConfirmedIsKept
<1> QED BY <1>2, <1>3

-----------------------------------------------------------------------------
(* What was taken away is not installed again.                             *)

\* The daemon updates itself only while it is up.  What was taken away is not newer than
\* what is published, marked or being installed, and a release that is still the latest
\* is the one that is paused, unless its rollback has not been recorded yet.
RollbackInv ==
    /\ proc # "up" => job["daemon"].at \notin InLock
    /\ marker.to <= latest /\ (proc = "restoring" => run <= latest)
    /\ \A a \in Actors : job[a].at \in InLock => marker.to <= job[a].to /\ job[a].to <= latest
    /\ \A v \in failed :
          /\ v <= latest
          /\ marker.to # 0 => v <= marker.to
          /\ \A a \in Actors : job[a].at \in InLock => v <= job[a].to
          /\ proc = "restoring" => v <= run
    /\ "cut_short" \notin odd =>
          /\ \A v \in failed : v < latest \/ paused = v \/ (proc = "restoring" /\ run = v)
          /\ job["daemon"].at \in InLock => job["daemon"].to \notin failed

\* Nothing was taken away at first.
LEMMA InitRollback == Init => RollbackInv
BY BoundsAssumption DEF Init, RollbackInv, NoJob, NoMarker, InLock, Actors

\* Steps that leave what was published, marked, recorded and taken away alone, and begin
\* no installation.
LEMMA RollbackUntouched ==
    ASSUME TypeOK, RollbackInv, UNCHANGED <<paused, failed, run>>, odd \subseteq odd',
           latest' \in Nat, latest <= latest', marker' = marker \/ marker'.to = 0,
           \A a \in Actors : job'[a].at \in InLock => job[a].at \in InLock /\ job'[a].to = job[a].to,
           proc' = proc \/ (proc # "restoring" /\ proc' # "restoring" /\ job'["daemon"].at \notin InLock)
    PROVE  RollbackInv'
<1>1. /\ latest \in Nat /\ marker.to \in Nat /\ failed \subseteq Nat
      /\ \A a \in Actors : job[a].to \in Nat
  BY Numeric
<1>2. marker'.to <= latest' /\ (proc' = "restoring" => run <= latest')
  <2>1. marker.to <= latest /\ 0 <= latest' /\ (proc = "restoring" => run <= latest) /\ run \in Nat
    BY Numeric DEF RollbackInv
  <2>2. proc' = "restoring" => proc = "restoring"
    OBVIOUS
  <2> QED BY <1>1, <2>1, <2>2
<1>3. \A a \in Actors : job'[a].at \in InLock => marker'.to <= job'[a].to /\ job'[a].to <= latest'
  <2> SUFFICES ASSUME NEW a \in Actors, job'[a].at \in InLock
               PROVE  marker'.to <= job'[a].to /\ job'[a].to <= latest'
    OBVIOUS
  <2>1. marker.to <= job[a].to /\ job[a].to <= latest /\ job'[a].to = job[a].to
    BY DEF RollbackInv
  <2> QED BY <1>1, <2>1
<1>4. \A v \in failed :
          /\ v <= latest'
          /\ marker'.to # 0 => v <= marker'.to
          /\ \A a \in Actors : job'[a].at \in InLock => v <= job'[a].to
          /\ proc' = "restoring" => v <= run
  <2> SUFFICES ASSUME NEW v \in failed
               PROVE  /\ v <= latest'
                      /\ marker'.to # 0 => v <= marker'.to
                      /\ \A a \in Actors : job'[a].at \in InLock => v <= job'[a].to
                      /\ proc' = "restoring" => v <= run
    OBVIOUS
  <2>1. /\ v <= latest /\ v \in Nat
        /\ marker.to # 0 => v <= marker.to
        /\ \A a \in Actors : job[a].at \in InLock => v <= job[a].to
        /\ proc = "restoring" => v <= run
    BY <1>1 DEF RollbackInv
  <2>2. v <= latest'
    BY <1>1, <2>1
  <2> QED BY <2>1, <2>2
<1>5. "cut_short" \notin odd' =>
          /\ \A v \in failed : v < latest' \/ paused = v \/ (proc' = "restoring" /\ run = v)
          /\ job'["daemon"].at \in InLock => job'["daemon"].to \notin failed
  <2> SUFFICES ASSUME "cut_short" \notin odd'
               PROVE  /\ \A v \in failed : v < latest' \/ paused = v \/ (proc' = "restoring" /\ run = v)
                      /\ job'["daemon"].at \in InLock => job'["daemon"].to \notin failed
    OBVIOUS
  <2>1. \A v \in failed : v \in Nat /\ (v < latest \/ paused = v \/ (proc = "restoring" /\ run = v))
    BY <1>1 DEF RollbackInv
  <2>2. \A v \in failed : v < latest' \/ paused = v \/ (proc' = "restoring" /\ run = v)
    BY <1>1, <2>1
  <2>3. "daemon" \in Actors /\ (job["daemon"].at \in InLock => job["daemon"].to \notin failed)
    BY DEF RollbackInv, Actors
  <2> QED BY <2>2, <2>3
<1>6. proc' # "up" => job'["daemon"].at \notin InLock
  BY DEF RollbackInv, Actors
<1> QED BY <1>2, <1>3, <1>4, <1>5, <1>6 DEF RollbackInv

\* An installation of what is published keeps what was taken away behind it or paused.
LEMMA StagingRollback ==
    ASSUME TypeOK, LockInv, RollbackInv, NEW a \in Actors, Staging(a)
    PROVE  RollbackInv'
<1> USE DEF files, process, history
<1>1. /\ job[a].own \in 0..Newest /\ job[a].to \in 0..Newest /\ job[a].to \in Nat
      /\ latest \in Nat /\ latest <= latest /\ "daemon" \in Actors
  BY Numeric DEF Actors
<1>2. \A b \in Actors \ {a} : job'[b] = job[b]
  BY <1>1, JobStep DEF Staging, Stage, Mark, Swap, SwapFails, HeldBack, StageFails
<1>3. CASE Stage(a)
  <2>1. job'[a] = [at |-> "kept", own |-> job[a].own, to |-> job[a].to]
    BY <1>1, <1>3, JobStep DEF Stage
  <2>2. \A b \in Actors : job'[b].at \in InLock => job[b].at \in InLock /\ job'[b].to = job[b].to
    BY <1>2, <1>3, <2>1 DEF Stage, InLock
  <2>3. UNCHANGED <<paused, failed, run, latest, marker, proc>> /\ odd \subseteq odd'
    BY <1>3 DEF Stage
  <2> QED BY <1>1, <2>2, <2>3, RollbackUntouched
<1>4. CASE Mark(a)
  <2>1. job'[a] = [at |-> "marked", own |-> job[a].own, to |-> job[a].to]
    BY <1>1, <1>4, JobStep DEF Mark
  <2>2. \A b \in Actors : job'[b].at \in InLock => b = a
    BY <1>2, <1>4 DEF Mark, LockInv, InLock
  <2>3. /\ marker'.to = job[a].to /\ job[a].at \in InLock /\ job'[a].to = job[a].to
        /\ UNCHANGED <<paused, failed, run, latest, proc>> /\ odd \subseteq odd'
    BY <1>4, <2>1 DEF Mark, InLock
  <2>4. job[a].to <= latest /\ (\A v \in failed : v <= job[a].to) /\ job[a].to <= job[a].to
    BY <1>1, <2>3 DEF RollbackInv
  <2>5. job'["daemon"].at \in InLock => job["daemon"].at \in InLock /\ job'["daemon"].to = job["daemon"].to
    BY <1>1, <2>2, <2>3
  <2> QED BY <2>2, <2>3, <2>4, <2>5 DEF RollbackInv
<1>5. CASE Swap(a) \/ SwapFails(a) \/ HeldBack(a) \/ StageFails(a)
  <2>1. job'[a] = NoJob
    BY <1>1, <1>5, JobStep DEF Swap, SwapFails, HeldBack, StageFails
  <2>2. \A b \in Actors : job'[b].at \in InLock => job[b].at \in InLock /\ job'[b].to = job[b].to
    BY <1>2, <2>1 DEF NoJob, InLock
  <2>3. /\ UNCHANGED <<paused, failed, run, latest, proc>> /\ odd \subseteq odd'
        /\ marker' = marker \/ marker'.to = 0
    BY <1>5 DEF Swap, SwapFails, HeldBack, StageFails, NoMarker
  <2> QED BY <1>1, <2>2, <2>3, RollbackUntouched
<1> QED BY <1>3, <1>4, <1>5 DEF Staging

\* A start that gives a release up records it, or is still to record it.
LEMMA BootRollback ==
    ASSUME TypeOK, LockInv, RollbackInv, Boot
    PROVE  RollbackInv'
<1> USE DEF files, process, history
<1>1. /\ latest \in Nat /\ latest <= latest /\ marker.to \in Nat /\ run \in Nat /\ failed \subseteq Nat
      /\ "daemon" \in Actors /\ job' = job /\ latest' = latest
      /\ \A a \in Actors : job[a].to \in Nat
  BY Numeric DEF Actors, Boot, BootUnguarded, BootCounted, BootRestores, Restored, BootGivesUp
<1>2. proc # "up" /\ job["daemon"].at \notin InLock
  BY DEF RollbackInv, Boot, BootUnguarded, BootCounted, BootRestores, MustRestore, Restored, BootGivesUp
<1>3. CASE BootUnguarded \/ BootCounted
  <2>1. /\ proc = "down" /\ proc' = "starting" /\ UNCHANGED <<paused, failed, odd>>
        /\ marker'.to = marker.to \/ marker'.to = 0
    BY <1>3 DEF BootUnguarded, BootCounted, Starts, NoMarker, TypeOK
  <2> QED BY <1>1, <1>2, <2>1 DEF RollbackInv
<1>4. CASE BootRestores
  <2>1. /\ proc = "down" /\ proc' = "restoring" /\ run' = bundle /\ marker.to = bundle /\ marker.to # 0
        /\ failed' = failed \cup {bundle} /\ UNCHANGED <<marker, paused, odd>>
    BY <1>4 DEF BootRestores, MustRestore, UnderGuard
  <2>0. bundle <= latest
    BY <2>1 DEF RollbackInv
  <2>2. \A v \in failed' : /\ v <= latest
                           /\ v <= marker.to
                           /\ \A a \in Actors : job[a].at \in InLock => v <= job[a].to
    <3>1. \A v \in failed : /\ v <= latest
                            /\ v <= marker.to
                            /\ \A a \in Actors : job[a].at \in InLock => v <= job[a].to
      BY <2>1 DEF RollbackInv
    <3>2. /\ marker.to <= latest /\ marker.to <= marker.to
          /\ \A a \in Actors : job[a].at \in InLock => marker.to <= job[a].to
      BY <1>1 DEF RollbackInv
    <3> QED BY <2>1, <3>1, <3>2
  <2>3. "cut_short" \notin odd => \A v \in failed' : v < latest \/ paused = v \/ run' = v
    BY <2>1 DEF RollbackInv
  <2>4. \A v \in failed' : v <= run'
    BY <2>1, <2>2
  <2> QED BY <1>1, <1>2, <2>0, <2>1, <2>2, <2>3, <2>4 DEF RollbackInv
<1>5. CASE Restored
  <2>1. /\ proc = "restoring" /\ proc' = "down" /\ run' = run /\ marker'.to = 0 /\ paused' = run
        /\ failed' = failed /\ odd \subseteq odd'
    BY <1>5 DEF Restored, Down, NoMarker
  <2>2. \A v \in failed : v \in Nat /\ v <= run /\ v <= latest
    BY <1>1, <2>1 DEF RollbackInv
  <2>3. \A v \in failed : v < latest \/ run = v
    <3>1. run <= latest
      BY <2>1 DEF RollbackInv
    <3> QED BY <1>1, <2>2, <3>1
  <2>4. \A a \in Actors : 0 <= job[a].to
    BY <1>1
  <2> QED BY <1>1, <1>2, <2>1, <2>2, <2>3, <2>4 DEF RollbackInv
<1>6. CASE BootGivesUp
  <2>1. /\ proc = "down" /\ proc' = "starting" /\ run' = bundle /\ marker'.to = 0 /\ paused' = marker.to
        /\ failed' = failed /\ odd \subseteq odd' /\ marker.to # 0
    BY <1>6 DEF BootGivesUp, MustRestore, UnderGuard, Starts, NoMarker
  <2>2. \A v \in failed : v \in Nat /\ v <= marker.to /\ marker.to <= latest
    BY <1>1, <2>1 DEF RollbackInv
  <2>3. \A v \in failed : v < latest \/ marker.to = v
    BY <1>1, <2>2
  <2>4. \A a \in Actors : 0 <= job[a].to
    BY <1>1
  <2> QED BY <1>1, <1>2, <2>1, <2>2, <2>3, <2>4 DEF RollbackInv
<1> QED BY <1>3, <1>4, <1>5, <1>6 DEF Boot

\* A running daemon changes nothing of what was taken away.
LEMMA RunningRollback ==
    ASSUME TypeOK, LockInv, RollbackInv, Running
    PROVE  RollbackInv'
<1> USE DEF files, process, history
<1>1. /\ latest \in Nat /\ latest <= latest /\ "daemon" \in Actors /\ latest' = latest
      /\ UNCHANGED <<paused, failed, run>>
  BY Numeric DEF Actors, Running, Listening, Healthy, Wedged, Dies, Down
<1>2. CASE Listening
  <2>1. proc = "starting" /\ job["daemon"].at \notin InLock
    BY <1>2 DEF Listening, RollbackInv
  <2> QED BY <1>1, <1>2, <2>1, RollbackUntouched DEF Listening
<1>3. CASE Healthy
  <2>1. marker' = marker \/ marker'.to = 0
    BY <1>3 DEF Healthy, NoMarker
  <2> QED BY <1>1, <1>3, <2>1, RollbackUntouched DEF Healthy
<1>4. CASE Wedged
  <2>1. proc = "starting" /\ job["daemon"].at \notin InLock
    BY <1>4 DEF Wedged, RollbackInv
  <2> QED BY <1>1, <1>4, <2>1, RollbackUntouched DEF Wedged, Down
<1>5. CASE Dies
  <2>1. /\ job'["daemon"].at \notin InLock
        /\ \A a \in Actors : job'[a].at \in InLock => job[a].at \in InLock /\ job'[a].to = job[a].to
    <3>1. job'["daemon"] = NoJob /\ \A b \in Actors \ {"daemon"} : job'[b] = job[b]
      <4>1. 0 \in 0..Newest /\ "idle" \in {"idle", "asked", "staging", "kept", "marked"}
        BY Bounds
      <4> QED BY <1>1, <1>5, <4>1, JobStep DEF Dies
    <3> QED BY <1>1, <3>1 DEF NoJob, InLock
  <2>2. CASE proc # "restoring"
    <3>1. proc' = "down" /\ marker' = marker /\ odd \subseteq odd'
      BY <1>5 DEF Dies, Down
    <3> QED BY <1>1, <2>1, <2>2, <3>1, RollbackUntouched
  <2>3. CASE proc = "restoring"
    <3>1. proc' = "down" /\ marker' = marker /\ "cut_short" \in odd'
      BY <1>5, <2>3 DEF Dies, Down
    <3> QED BY <1>1, <2>1, <3>1 DEF RollbackInv
  <2> QED BY <2>2, <2>3
<1> QED BY <1>2, <1>3, <1>4, <1>5 DEF Running

\* A shell or a check begins with the latest release, which the daemon takes only if it is
\* not the one that is paused.
LEMMA OthersRollback ==
    ASSUME TypeOK, LockInv, RollbackInv, Shell \/ Updater
    PROVE  RollbackInv'
<1> USE DEF files, process, history
<1>1. /\ latest \in Nat /\ latest <= latest /\ "daemon" \in Actors /\ "cli" \in Actors
      /\ latest \in 0..Newest /\ run \in 0..Newest /\ bundle \in 0..Newest /\ 0 \in 0..Newest
      /\ job["cli"].own \in 0..Newest /\ marker.to \in Nat /\ failed \subseteq Nat
  BY Numeric, Bounds DEF Actors, TypeOK
<1>2. UNCHANGED <<latest, marker, run, failed, odd>> /\ (proc' = proc \/ proc' = "down")
  BY OthersMarkNothing
<1>3. ASSUME NEW a \in Actors, NEW own \in 0..Newest, Job(a, "staging", own, latest), proc' = proc,
             a = "daemon" => proc = "up" /\ ("cut_short" \notin odd => latest \notin failed),
             paused' = paused \/ (proc = "up" /\ latest # paused)
      PROVE  RollbackInv'
  <2>1. /\ job'[a] = [at |-> "staging", own |-> own, to |-> latest]
        /\ \A b \in Actors \ {a} : job'[b] = job[b]
    BY <1>1, <1>3, JobStep
  <2>2. \A b \in Actors : job'[b].at \in InLock =>
            /\ marker.to <= job'[b].to /\ job'[b].to <= latest
            /\ \A v \in failed : v <= job'[b].to
    <3>1. marker.to <= latest /\ \A v \in failed : v <= latest
      BY DEF RollbackInv
    <3>2. ASSUME NEW b \in Actors, b # a, job'[b].at \in InLock
          PROVE  /\ marker.to <= job'[b].to /\ job'[b].to <= latest
                 /\ \A v \in failed : v <= job'[b].to
      BY <2>1, <3>2 DEF RollbackInv
    <3> QED BY <1>1, <2>1, <3>1, <3>2
  <2>3. "cut_short" \notin odd =>
            \A v \in failed : v < latest \/ paused' = v \/ (proc = "restoring" /\ run = v)
    <3>1. "cut_short" \notin odd =>
              \A v \in failed : v < latest \/ paused = v \/ (proc = "restoring" /\ run = v)
      BY DEF RollbackInv
    <3>2. \A v \in failed : v \in Nat /\ v <= latest
      BY <1>1 DEF RollbackInv
    <3>3. CASE proc = "up" /\ latest # paused
      BY <1>1, <3>1, <3>2, <3>3
    <3> QED BY <1>3, <3>1, <3>3
  <2>4. "cut_short" \notin odd /\ job'["daemon"].at \in InLock => job'["daemon"].to \notin failed
    BY <1>1, <1>3, <2>1 DEF RollbackInv
  <2>5. proc # "up" => job'["daemon"].at \notin InLock
    BY <1>1, <1>3, <2>1 DEF RollbackInv
  <2> QED BY <1>2, <1>3, <2>2, <2>3, <2>4, <2>5 DEF RollbackInv
<1>4. CASE Invoke
  <2>1. job'["cli"].at = "asked" /\ \A b \in Actors \ {"cli"} : job'[b] = job[b]
    <3>1. Job("cli", "asked", bundle, 0)
      BY <1>4 DEF Invoke
    <3>2. job'["cli"] = [at |-> "asked", own |-> bundle, to |-> 0]
            /\ \A b \in Actors \ {"cli"} : job'[b] = job[b]
      BY <3>1 DEF Job, TypeOK, Actors
    <3> QED BY <3>2
  <2>2. \A a \in Actors : job'[a].at \in InLock => job[a].at \in InLock /\ job'[a].to = job[a].to
    BY <2>1 DEF InLock
  <2> QED BY <1>1, <1>4, <2>2, RollbackUntouched DEF Invoke
<1>5. CASE Apply /\ ~JobEnds("cli")
  <2>1. Job("cli", "staging", job["cli"].own, latest) /\ UNCHANGED <<proc, paused>>
    BY <1>5 DEF Apply
  <2> QED BY <1>1, <1>3, <2>1
<1>6. CASE (Apply \/ Interrupted) /\ JobEnds("cli")
  <2>1. job'["cli"] = NoJob /\ \A b \in Actors \ {"cli"} : job'[b] = job[b]
    <3>1. "idle" \in {"idle", "asked", "staging", "kept", "marked"}
      OBVIOUS
    <3> QED BY <1>1, <1>6, <3>1, JobStep
  <2>2. \A a \in Actors : job'[a].at \in InLock => job[a].at \in InLock /\ job'[a].to = job[a].to
    BY <2>1 DEF InLock, NoJob
  <2> QED BY <1>1, <1>6, <2>2, RollbackUntouched DEF Apply, Interrupted
<1>7. CASE ConsumeRequest
  BY <1>1, <1>7, RollbackUntouched DEF ConsumeRequest
<1>8. CASE Check
  <2>1. proc = "up" /\ latest # paused /\ proc' = proc
    BY <1>8 DEF Check, Ticking
  <2>2. "cut_short" \notin odd => latest \notin failed
    <3>1. ~(latest < latest)
      BY <1>1
    <3> QED BY <2>1, <3>1 DEF RollbackInv
  <2>3. CASE Job("daemon", "staging", run, latest)
    BY <1>1, <1>3, <2>1, <2>2, <2>3
  <2>4. CASE UNCHANGED job
    <3>1. "cut_short" \notin odd => \A v \in failed : v < latest
      <4>1. \A v \in failed : v \in Nat /\ v <= latest
        BY <1>1 DEF RollbackInv
      <4>2. "cut_short" \notin odd => \A v \in failed : v # latest
        BY <2>2
      <4> QED BY <1>1, <4>1, <4>2
    <3> QED BY <1>2, <2>1, <2>4, <3>1 DEF RollbackInv
  <2> QED BY <1>8, <2>3, <2>4 DEF Check
<1>9. CASE Restart
  <2>1. /\ proc = "up" /\ proc' = "down" /\ UNCHANGED <<latest, paused, failed, run, marker, job, odd>>
        /\ job["daemon"].at \notin InLock
    BY <1>9 DEF Restart, Ticking, Down, InLock
  <2> QED BY <1>1, <2>1, RollbackUntouched
<1> QED BY <1>4, <1>5, <1>6, <1>7, <1>8, <1>9 DEF Shell, Updater, Interrupted

\* Every step keeps what was taken away out of the daemon's installations.
LEMMA NextRollback == TypeOK /\ LockInv /\ RollbackInv /\ [Next]_vars => RollbackInv'
<1> SUFFICES ASSUME TypeOK, LockInv, RollbackInv, [Next]_vars PROVE RollbackInv'
  OBVIOUS
<1> USE DEF files, process, history
<1>0. latest \in Nat /\ latest <= latest /\ latest + 1 \in Nat /\ latest <= latest + 1
  BY Numeric
<1>1. CASE \E a \in Actors : Staging(a)
  BY <1>1, StagingRollback
<1>2. CASE Shell \/ Updater
  BY <1>2, OthersRollback
<1>3. CASE Boot \/ Running
  BY <1>3, BootRollback, RunningRollback
<1>4. CASE Publish \/ Quieter \/ UNCHANGED vars
  <2>1. /\ UNCHANGED <<paused, failed, run, marker, odd, job, proc>>
        /\ latest' = latest \/ latest' = latest + 1
    BY <1>4 DEF Publish, Quieter, vars
  <2> QED BY <1>0, <2>1, RollbackUntouched
<1> QED BY <1>1, <1>2, <1>3, <1>4 DEF Next

\* After a rollback the daemon does not install that release again by itself
\* (AutoUpdater.check), unless the guard died before it had recorded the rollback.
THEOREM StaysPaused == Spec => PausedAfterRollback
<1> DEFINE Left == bundle' # bundle /\ job["daemon"].at = "marked" /\ proc = "up"
                       => bundle' \notin failed \/ "cut_short" \in odd
<1>1. TypeOK /\ LockInv /\ RollbackInv /\ [Next]_vars => [Left]_vars
  <2> SUFFICES ASSUME TypeOK, LockInv, RollbackInv, Next,
                      bundle' # bundle, job["daemon"].at = "marked", proc = "up", "cut_short" \notin odd
               PROVE  bundle' \notin failed
    OBVIOUS
  <2> USE DEF files, process, history
  <2>1. PICK a \in Actors : Swap(a)
    <3>1. CASE \E a \in Actors : Staging(a)
      BY <3>1 DEF Staging, Stage, Mark, Swap, SwapFails, HeldBack, StageFails
    <3>2. CASE Shell \/ Updater
      BY <3>2, OthersMarkNothing
    <3>3. CASE Boot \/ Running
      BY <3>3 DEF Boot, BootUnguarded, BootCounted, BootRestores, MustRestore, Restored, BootGivesUp,
                  Running, Listening, Healthy, Wedged, Dies
    <3>4. CASE Publish \/ Quieter
      BY <3>4 DEF Publish, Quieter
    <3> QED BY <3>1, <3>2, <3>3, <3>4 DEF Next
  <2>2. a = "daemon"
    BY <2>1 DEF Swap, LockInv, InLock, Actors
  <2> QED BY <2>1, <2>2 DEF Swap, RollbackInv, InLock
<1>2. Spec => [][Left]_vars
  BY <1>1, InitTypeOK, NextTypeOK, InitLock, NextLock, InitRollback, NextRollback, PTL DEF Spec
<1>3. [][Left]_vars => PausedAfterRollback
  BY PTL DEF PausedAfterRollback
<1> QED BY <1>2, <1>3
=============================================================================
