------------------------------ MODULE Schedules ------------------------------
(***************************************************************************)
(* Scheduled items (src/src/Scheduler.ts, src/src/ScheduleCoordinator.ts)   *)
(* and the saves that make them durable (src/src/main.ts saveSettings,      *)
(* src/src/PersistenceWriterFence.ts).                                      *)
(*                                                                          *)
(* One item is followed through the generations of the plugin: a reload     *)
(* makes a new generation with a scheduler of its own while continuations   *)
(* of the old one are still running, and a renderer crash leaves only       *)
(* data.json.  All generations of one renderer share the coordinator, whose *)
(* operations run one at a time, and the fence that decides whose writes    *)
(* reach the disk.                                                          *)
(*                                                                          *)
(* Time is a slot number.  An item due at slot `next' runs when now = next  *)
(* (on time or within CATCHUP_GRACE_MS); with now > next it is a stale      *)
(* miss.  The item has a gate command: an item without one takes the same   *)
(* steps with no pause between its claim and its authorization.  A busy     *)
(* target thread (a retry every 15 s) only delays Wake.                     *)
(***************************************************************************)
EXTENDS Subsequences

CONSTANTS Absent,        \* there is no such item
          Kinds,         \* the schedules to explore
          MaxGen,        \* bound: generations of the plugin
          MaxSlot,       \* bound: slots of time
          MaxEdits,      \* bound: calls of the cron tools
          MaxUpsets,     \* bound: writes of data.json that fail, and saves by other parts
          MaxRev,        \* bound: revisions of the item (timers stop firing there)
          LateTools      \* do cron tools of a destroyed scheduler still get calls?

ASSUME BoundsAssumption ==
    /\ MaxGen \in Nat \ {0} /\ MaxSlot \in Nat /\ MaxEdits \in Nat /\ MaxUpsets \in Nat /\ MaxRev \in Nat
    /\ LateTools \in BOOLEAN
    /\ Kinds \subseteq {"once", "interval", "calendar"}

VARIABLES
    kind,      \* the item's schedule
    now,       \* the present slot
    disk,      \* the item in data.json
    settings,  \* per generation: the item in settings.scheduledItems
    local,     \* per generation: the item in Scheduler.items
    wake,      \* per generation: a timer or calendar task is armed for it
    fire,      \* per generation: the fire() in progress
    item,      \* the item in the shared coordinator
    regs,      \* the coordinator's registrations, oldest first
    adapter,   \* the generation whose adapter the coordinator saves through (0: none)
    queue,     \* the coordinator's operations, the running one first
    fence,     \* the generation that owns data.json (0: none)
    pass,      \* the write of data.json in progress
    cur, up,   \* the newest generation and how far it is: "off", "claimed", "loaded"
    claims,    \* claim tokens given out
    edits, upsets,
    ran,       \* history: how often the work due at a slot was dispatched (2: more than once)
    off,       \* history: the item is "new", "on", or confirmed "disabled" or "deleted"
    mishaps    \* history: what went wrong around the item so far (see Mishaps)

vars == <<kind, now, disk, settings, local, wake, fire, item, regs, adapter, queue, fence,
          pass, cur, up, claims, edits, upsets, ran, off, mishaps>>

Gens == 1..MaxGen
Slots == 0..(MaxSlot + 1)

(* `fireAt' is the time a one-shot was created for. *)
Item == [on: BOOLEAN, next: Slots, fireAt: Slots, rev: Nat, tok: Nat, crev: Nat]

ASSUME AbsentAssumption == Absent \notin Item

NoPass == [gen |-> 0, snap |-> Absent, again |-> FALSE]

Idle == [at |-> "idle", due |-> 0, tok |-> 0, held |-> Absent]

(* computeNextRun(item, true) *)
NextRun(it) == IF kind = "once" THEN it.fireAt ELSE now + 1

(* claimOccurrence: a one-shot keeps the time it is due at. *)
ClaimedNext(it) == IF kind = "once" THEN it.next ELSE now + 1

(* isStaleMiss *)
Stale(it) == kind # "once" /\ it.next < now

-----------------------------------------------------------------------------
(* Saving: main.ts saveSettings, runSaveLoop and the writer fence.           *)

(* saveSettings() of generation g whose settings hold `it': joins the loop that
   is running, starts a pass, or, for a generation that lost the fence, resolves
   without writing.  A new generation starts only after the writes admitted
   before it have drained, so one pass is in progress at most. *)
Requested(p, g, it) ==
    IF p.gen = g THEN [p EXCEPT !.again = TRUE]
    ELSE IF fence = g THEN [gen |-> g, snap |-> it, again |-> FALSE]
    ELSE p

(* Mutant: the operation does not wait for its save. *)
SaveStageAtOnce(p, g) == "ok"

(* What an operation that saves through generation g at this moment waits for. *)
SaveStage(p, g) == IF p.gen = g THEN "next" ELSE IF fence = g THEN "this" ELSE "ok"

(* The head of the queue, the operation that is running. *)
Running == queue # <<>> /\ Head(queue).stage # "queued"
Settled(st) == st \in {"ok", "failed"}

(* No operation is about to begin or to answer: what the microtask queue holds
   runs before any other event. *)
Quiet == queue # <<>> => Head(queue).stage \in {"this", "next"}

HeadStage(st) == [queue EXCEPT ![1].stage = st]
Waiting(g) == Running /\ Head(queue).by = g /\ Head(queue).stage \in {"this", "next"}

(* Mutant: a pass tells every waiter, also those who asked after it started. *)
AfterWriteAll(more) == "ok"

(* A waiter is told of the first pass that started after it asked. *)
AfterWrite(more) == IF Head(queue).stage = "next" /\ more THEN "this" ELSE "ok"

(* The rename of data.json: the waiters of the pass are told, and the loop goes
   round again if a save was requested meanwhile and the generation still owns
   the file. *)
WriteDone ==
    LET g == pass.gen
        more == pass.again /\ fence = g
    IN  /\ Quiet /\ g # 0
        /\ disk' = pass.snap
        /\ pass' = IF more THEN [gen |-> g, snap |-> settings[g], again |-> FALSE] ELSE NoPass
        /\ queue' = IF ~Waiting(g) THEN queue
                    ELSE HeadStage(AfterWrite(more))
        /\ mishaps' = IF Waiting(g) /\ Head(queue).stage = "next" /\ ~more
                      THEN mishaps \union {"fenced"} ELSE mishaps
        /\ UNCHANGED <<kind, now, settings, local, wake, fire, item, regs, adapter, fence, cur, up,
                       claims, edits, upsets, ran, off>>

(* The write fails: every waiter is rejected, also those of the next pass, which
   is not made. *)
WriteFails ==
    LET g == pass.gen IN
        /\ Quiet /\ g # 0 /\ upsets < MaxUpsets
        /\ upsets' = upsets + 1
        /\ mishaps' = mishaps \union {"failure"}
        /\ pass' = NoPass
        /\ queue' = IF Waiting(g) THEN HeadStage("failed") ELSE queue
        /\ UNCHANGED <<kind, now, disk, settings, local, wake, fire, item, regs, adapter, fence, cur,
                       up, claims, edits, ran, off>>

(* Any other part of the plugin saves the settings. *)
OtherSave(g) ==
    /\ Quiet /\ fence = g /\ up # "claimed"
    /\ upsets < MaxUpsets /\ upsets' = upsets + 1
    /\ pass' = Requested(pass, g, settings[g])
    /\ UNCHANGED <<kind, now, disk, settings, local, wake, fire, item, regs, adapter, queue, fence,
                   cur, up, claims, edits, ran, off, mishaps>>

-----------------------------------------------------------------------------
(* Scheduler: arming and waking.                                             *)

(* armTimer(it) in generation g once Scheduler.items holds `held': a stale miss
   moves the local copy on and saves that copy, past the coordinator.  `also' adds
   to the history of mishaps. *)
ArmTimer(g, held, it, also) ==
    LET skip == it # Absent /\ it.on /\ Stale(it)
        moved == [it EXCEPT !.next = NextRun(it)]
    IN  /\ local' = [local EXCEPT ![g] =
                        IF skip /\ held # Absent THEN [held EXCEPT !.next = NextRun(it)] ELSE held]
        /\ settings' = IF skip THEN [settings EXCEPT ![g] = moved] ELSE settings
        /\ pass' = IF skip THEN Requested(pass, g, moved) ELSE pass
        /\ wake' = [wake EXCEPT ![g] = it # Absent /\ it.on]
        /\ mishaps' = mishaps \union also \union (IF skip THEN {"missed"} ELSE {})

(* replaceLocal(it), then armTimer(it). *)
Rearm(g, it) == ArmTimer(g, it, it, {})

Op(name, g) == [op |-> name, gen |-> g, due |-> 0, tok |-> 0, patch |-> "none", arg |-> Absent,
                stage |-> "queued", by |-> 0, yes |-> FALSE, res |-> Absent]

Due(g) == local[g] # Absent /\ local[g].on /\ local[g].next <= now

(* The bound on the item's revisions. *)
Bounded == item # Absent => item.rev < MaxRev

(* A fire() is working on the item's claim. *)
InHand == item # Absent /\ \E g \in Gens : fire[g].at # "idle" /\ fire[g].tok = item.tok

(* A timer or calendar task fires and fire() claims the occurrence.  A calendar
   task reports a time it slept through as missed instead. *)
Wake(g) ==
    /\ Quiet /\ Bounded /\ wake[g] /\ Due(g) /\ fire[g].at = "idle"
    /\ kind = "calendar" => ~Stale(local[g])
    /\ wake' = [wake EXCEPT ![g] = FALSE]
    /\ fire' = [fire EXCEPT ![g] = [Idle EXCEPT !.at = "claim", !.due = local[g].next,
                                                !.held = local[g]]]
    /\ queue' = Append(queue, [Op("claim", g) EXCEPT !.due = local[g].next])
    /\ UNCHANGED <<kind, now, disk, settings, local, item, regs, adapter, fence, pass, cur, up,
                   claims, edits, upsets, ran, off, mishaps>>

(* The cycle falls outside the active hours or on top of a run in flight: the
   occurrence is dropped and the item moved on, a one-shot to the opening of its
   active hours.  In the middle of a run that is an edit of the one-shot. *)
WakeSkips(g) ==
    /\ Quiet /\ Bounded /\ wake[g] /\ Due(g) /\ fire[g].at = "idle"
    /\ kind = "calendar" => ~Stale(local[g])
    /\ wake' = [wake EXCEPT ![g] = FALSE]
    /\ fire' = [fire EXCEPT ![g] = [Idle EXCEPT !.at = "skip", !.held = local[g]]]
    /\ queue' = Append(queue, [Op("update", g) EXCEPT !.patch = "skip"])
    /\ mishaps' = IF kind = "once" /\ InHand THEN mishaps \union {"edited"} ELSE mishaps
    /\ UNCHANGED <<kind, now, disk, settings, local, item, regs, adapter, fence, pass, cur, up,
                   claims, edits, upsets, ran, off>>

(* The timer of an item whose fire() is still running: the firing guard. *)
WakeWhileFiring(g) ==
    /\ Quiet /\ wake[g] /\ Due(g) /\ fire[g].at # "idle"
    /\ wake' = [wake EXCEPT ![g] = FALSE]
    /\ UNCHANGED <<kind, now, disk, settings, local, fire, item, regs, adapter, queue, fence, pass,
                   cur, up, claims, edits, upsets, ran, off, mishaps>>

(* execution:missed of a calendar task after a sleep. *)
Missed(g) ==
    /\ Quiet /\ wake[g] /\ kind = "calendar" /\ local[g] # Absent /\ local[g].on /\ Stale(local[g])
    /\ Rearm(g, local[g])
    /\ UNCHANGED <<kind, now, disk, fire, item, regs, adapter, queue, fence, cur, up, claims, edits,
                   upsets, ran, off>>
-----------------------------------------------------------------------------
(* ScheduleCoordinator: the operations.                                      *)

(* Mutant: a claim does not look at the token of an earlier one. *)
ClaimGrantedAgain(q) == item # Absent /\ item.on /\ item.next = q.due

ClaimGranted(q) == item # Absent /\ item.on /\ item.next = q.due /\ item.tok = 0

Holds(q) == item # Absent /\ item.tok = q.tok

(* Mutant: the authorization only compares tokens. *)
AuthorizedByToken(q) == Holds(q)

Authorized(q) == Holds(q) /\ item.on /\ item.crev = item.rev

(* finalize of a one-shot that nothing superseded removes it. *)
Completes(q) == kind = "once" /\ Authorized(q)

(* Mutant: the claim stays on the item. *)
UnclaimedKeepsToken(it) == [it EXCEPT !.rev = @ + 1]

Unclaimed(it) == [it EXCEPT !.rev = @ + 1, !.tok = 0, !.crev = 0]

Patched(it, patch) ==
    CASE patch = "off"  -> [it EXCEPT !.on = FALSE, !.next = NextRun(it)]
      [] patch = "on"   -> [it EXCEPT !.on = TRUE, !.next = NextRun(it)]
      [] patch = "skip" -> [it EXCEPT !.next = now + 1]
      [] OTHER          -> it

Answer(to, save, yes, res) == [to |-> to, save |-> save, yes |-> yes, res |-> res]

(* What an operation does to the item before it awaits its save: the new item,
   whether it saves, and what it will answer. *)
Claim(q) ==
    LET claimed == [item EXCEPT !.next = ClaimedNext(item), !.rev = @ + 1, !.tok = claims + 1,
                                !.crev = item.rev + 1]
    IN  IF ClaimGranted(q) THEN Answer(claimed, TRUE, TRUE, claimed)
        ELSE Answer(item, FALSE, FALSE, item)

Authorize(q) == Answer(item, FALSE, Authorized(q), item)

Abandon(q) == IF Holds(q) THEN Answer(Unclaimed(item), TRUE, TRUE, Unclaimed(item))
              ELSE Answer(item, FALSE, TRUE, item)

Finalize(q) == IF Completes(q) THEN Answer(Absent, TRUE, TRUE, Absent) ELSE Abandon(q)

Update(q) ==
    LET updated == [Patched(item, q.patch) EXCEPT !.rev = @ + 1] IN Answer(updated, TRUE, TRUE, updated)

Effect(q) ==
    CASE q.op = "claim"     -> Claim(q)
      [] q.op = "authorize" -> Authorize(q)
      [] q.op = "abandon"   -> Abandon(q)
      [] q.op = "finalize"  -> Finalize(q)
      [] q.op = "update"    -> Update(q)
      [] q.op = "delete"    -> Answer(Absent, TRUE, TRUE, Absent)
      [] q.op = "create"    -> Answer(q.arg, TRUE, TRUE, q.arg)

(* The next operation of the queue runs up to its save. *)
BeginOp ==
    /\ queue # <<>> /\ Head(queue).stage = "queued" /\ Head(queue).op # "replaceAll"
    /\ LET q == Head(queue)
           throws == q.op = "update" /\ item = Absent
           e == Effect(q)
           answered == [q EXCEPT !.yes = e.yes, !.res = e.res, !.by = adapter]
       IN  IF throws
           THEN /\ queue' = HeadStage("failed")
                /\ UNCHANGED <<item, settings, pass, claims>>
           ELSE /\ item' = e.to
                /\ claims' = IF q.op = "claim" /\ e.yes THEN claims + 1 ELSE claims
                /\ IF e.save /\ adapter # 0
                   THEN /\ settings' = [settings EXCEPT ![adapter] = e.to]
                        /\ pass' = Requested(pass, adapter, e.to)
                        /\ queue' = [queue EXCEPT
                               ![1] = [answered EXCEPT !.stage = SaveStage(pass, adapter)]]
                   ELSE /\ queue' = [queue EXCEPT
                               ![1] = [answered EXCEPT !.stage = IF e.save THEN "failed" ELSE "ok"]]
                        /\ UNCHANGED <<settings, pass>>
    /\ UNCHANGED <<kind, now, disk, local, wake, fire, regs, adapter, fence, cur, up, edits,
                   upsets, ran, off, mishaps>>

(* replaceAll saves first and replaces the items afterwards; `res' keeps what the
   settings held, to be put back if the save fails. *)
BeginReplaceAll ==
    /\ queue # <<>> /\ Head(queue).stage = "queued" /\ Head(queue).op = "replaceAll"
    /\ LET q == Head(queue) IN
           IF adapter = 0
           THEN queue' = HeadStage("failed") /\ UNCHANGED <<settings, pass>>
           ELSE /\ settings' = [settings EXCEPT ![adapter] = q.arg]
                /\ pass' = Requested(pass, adapter, q.arg)
                /\ queue' = [queue EXCEPT ![1] = [q EXCEPT !.stage = SaveStage(pass, adapter),
                                                          !.by = adapter, !.yes = TRUE,
                                                          !.res = settings[adapter]]]
    /\ UNCHANGED <<kind, now, disk, local, wake, fire, item, regs, adapter, fence, cur, up, claims,
                   edits, upsets, ran, off, mishaps>>

-----------------------------------------------------------------------------
(* Scheduler: the continuations of the operations.                           *)

Pop == queue' = Tail(queue)
PopPush(q) == queue' = Append(Tail(queue), q)
EndsFire(g) == fire' = [fire EXCEPT ![g] = Idle]

(* The head of the queue has answered `name'; g is its caller. *)
Answers(name, g) == /\ queue # <<>> /\ Settled(Head(queue).stage)
                    /\ Head(queue).op = name /\ Head(queue).gen = g

Failed == Head(queue).stage = "failed"

(* The claim was granted and is saved: the gate command starts. *)
Claimed(g) ==
    /\ Answers("claim", g) /\ ~Failed /\ Head(queue).yes
    /\ Pop
    /\ local' = [local EXCEPT ![g] = Head(queue).res]
    /\ fire' = [fire EXCEPT ![g] = [Idle EXCEPT !.at = "gate", !.due = fire[g].due,
                                                !.tok = Head(queue).res.tok]]
    /\ UNCHANGED <<kind, now, disk, settings, wake, item, regs, adapter, fence, pass, cur, up,
                   claims, edits, upsets, ran, off, mishaps>>

(* The claim was refused: the coordinator's item replaces the local one. *)
ClaimRefused(g) ==
    /\ Answers("claim", g) /\ ~Failed /\ ~Head(queue).yes
    /\ Pop /\ EndsFire(g)
    /\ IF Head(queue).res # Absent THEN Rearm(g, Head(queue).res)
       ELSE UNCHANGED <<local, wake, settings, pass, mishaps>>
    /\ UNCHANGED <<kind, now, disk, item, regs, adapter, fence, cur, up, claims, edits, upsets,
                   ran, off>>

(* The claim could not be saved, or the skip could not: nothing is dispatched
   and the item fire() started with is armed again. *)
FireFails(g) ==
    /\ \/ Answers("claim", g)
       \/ Answers("update", g) /\ Head(queue).patch = "skip"
    /\ Failed
    /\ Pop /\ EndsFire(g)
    /\ ArmTimer(g, local[g], fire[g].held, {})
    /\ UNCHANGED <<kind, now, disk, item, regs, adapter, fence, cur, up, claims, edits, upsets,
                   ran, off>>

Skipped(g) ==
    /\ Answers("update", g) /\ Head(queue).patch = "skip" /\ ~Failed
    /\ Pop /\ EndsFire(g) /\ Rearm(g, Head(queue).res)
    /\ UNCHANGED <<kind, now, disk, item, regs, adapter, fence, cur, up, claims, edits, upsets,
                   ran, off>>

(* The gate command ends: the run is to go ahead and the claim is checked once
   more, or the gate skips the cycle (or fails) and the claim is finalized. *)
GateEnds(g) ==
    /\ Quiet /\ fire[g].at = "gate"
    /\ \E next \in {"authorize", "finalize"} :
          /\ fire' = [fire EXCEPT ![g].at = next]
          /\ queue' = Append(queue, [Op(next, g) EXCEPT !.tok = fire[g].tok])
    /\ UNCHANGED <<kind, now, disk, settings, local, wake, item, regs, adapter, fence, pass, cur, up,
                   claims, edits, upsets, ran, off, mishaps>>

(* The claim still stands: the message is sent, or the thread created. *)
Dispatch(g) ==
    /\ Answers("authorize", g) /\ Head(queue).yes
    /\ Pop
    /\ fire' = [fire EXCEPT ![g].at = "sending"]
    /\ ran' = [ran EXCEPT ![fire[g].due] = IF @ = 0 THEN 1 ELSE 2]
    /\ UNCHANGED <<kind, now, disk, settings, local, wake, item, regs, adapter, fence, pass, cur, up,
                   claims, edits, upsets, off, mishaps>>

AuthorizeRefused(g) ==
    /\ Answers("authorize", g) /\ ~Head(queue).yes
    /\ PopPush([Op("abandon", g) EXCEPT !.tok = fire[g].tok])
    /\ fire' = [fire EXCEPT ![g].at = "abandon"]
    /\ UNCHANGED <<kind, now, disk, settings, local, wake, item, regs, adapter, fence, pass, cur, up,
                   claims, edits, upsets, ran, off, mishaps>>

(* The call that sends returns, or throws: the claim is finalized either way. *)
SendEnds(g) ==
    /\ Quiet /\ fire[g].at = "sending"
    /\ fire' = [fire EXCEPT ![g].at = "finalize"]
    /\ queue' = Append(queue, [Op("finalize", g) EXCEPT !.tok = fire[g].tok])
    /\ UNCHANGED <<kind, now, disk, settings, local, wake, item, regs, adapter, fence, pass, cur, up,
                   claims, edits, upsets, ran, off, mishaps>>

Abandoned(g) ==
    /\ Answers("abandon", g) /\ ~Failed
    /\ Pop /\ EndsFire(g)
    /\ IF Head(queue).res # Absent THEN Rearm(g, Head(queue).res)
       ELSE UNCHANGED <<local, wake, settings, pass, mishaps>>
    /\ UNCHANGED <<kind, now, disk, item, regs, adapter, fence, cur, up, claims, edits, upsets,
                   ran, off>>

(* The abandoning throws: fire() goes on to its bookkeeping. *)
AbandonFails(g) ==
    /\ Answers("abandon", g) /\ Failed
    /\ PopPush([Op("finalize", g) EXCEPT !.tok = fire[g].tok])
    /\ fire' = [fire EXCEPT ![g].at = "finalize"]
    /\ UNCHANGED <<kind, now, disk, settings, local, wake, item, regs, adapter, fence, pass, cur, up,
                   claims, edits, upsets, ran, off, mishaps>>

Finalized(g) ==
    /\ Answers("finalize", g) /\ ~Failed
    /\ Pop /\ EndsFire(g)
    /\ IF Head(queue).res # Absent THEN Rearm(g, Head(queue).res)
       ELSE /\ local' = [local EXCEPT ![g] = Absent]
            /\ wake' = [wake EXCEPT ![g] = FALSE]
            /\ UNCHANGED <<settings, pass, mishaps>>
    /\ UNCHANGED <<kind, now, disk, item, regs, adapter, fence, cur, up, claims, edits, upsets,
                   ran, off>>

(* The final state could not be saved: nothing is armed again. *)
FinalizeFails(g) ==
    /\ Answers("finalize", g) /\ Failed
    /\ Pop /\ EndsFire(g)
    /\ UNCHANGED <<kind, now, disk, settings, local, wake, item, regs, adapter, fence, pass, cur, up,
                   claims, edits, upsets, ran, off, mishaps>>
-----------------------------------------------------------------------------
(* The cron tools and the life of a generation.                              *)

Mishaps == {"missed",    \* a stale miss was skipped in a scheduler's own copy
            "failure",   \* a write of data.json failed
            "unload",    \* a generation was unloaded while its fire() was in progress
            "crash",     \* the renderer died while a fire() was in progress
            "late",      \* a tool call reached a destroyed scheduler
            "fenced",    \* a save was reported done that the writer fence had turned away
            "edited",    \* an item was edited (or a one-shot skipped) while a run of it was in progress
            "overtaken", \* an item was edited before an operation that will arm it again had ended
            "replaced"}  \* replaceAll put back a copy the coordinator had moved on from

Live(g) == g = cur /\ up = "loaded"

Registered(g) == \E i \in DOMAIN regs : regs[i] = g

(* activate() with the items `it' of generation g: what the coordinator knows
   better, by revision, wins; with no registration left it knows nothing. *)
Activate(g, it) ==
    LET known == IF regs = <<>> THEN Absent ELSE item IN
        /\ regs' = IF Registered(g) THEN regs ELSE Append(regs, g)
        /\ adapter' = g
        /\ item' = IF it # Absent /\ known # Absent /\ known.rev > it.rev THEN known ELSE it

(* activateCoordinator() of a tool call: a scheduler that was destroyed, and has
   no registration any more, registers again. *)
ActivateIfNeeded(g, it) ==
    IF Registered(g) THEN UNCHANGED <<regs, adapter, item>> ELSE Activate(g, it)

(* A tool call.  Agents of an unloaded generation get up to 10 s to stop. *)
Tool(g) == /\ edits < MaxEdits /\ edits' = edits + 1
           /\ Live(g) \/ LateTools

Late(g) == IF Live(g) THEN {} ELSE {"late"}

(* An operation other than a claim is under way: what follows it arms the item as that
   operation left it. *)
Overtakes == \E i \in DOMAIN queue : queue[i].op # "claim"

(* updateItem: disable, enable, or change the prompt. *)
Edit(g) ==
    /\ Quiet /\ Tool(g) /\ local[g] # Absent
    /\ \E patch \in {"off", "on", "prompt"} :
         LET updated == Patched(local[g], patch)
             skip == updated.on /\ Stale(updated)
             armed == IF skip THEN [updated EXCEPT !.next = NextRun(updated)] ELSE updated
         IN  /\ local' = [local EXCEPT ![g] = armed]
             /\ wake' = [wake EXCEPT ![g] = armed.on]
             /\ settings' = IF skip THEN [settings EXCEPT ![g] = armed] ELSE settings
             /\ pass' = IF skip THEN Requested(pass, g, armed) ELSE pass
             /\ mishaps' = mishaps \union Late(g) \union (IF skip THEN {"missed"} ELSE {})
                                 \union (IF InHand THEN {"edited"} ELSE {})
                                 \union (IF Overtakes THEN {"overtaken"} ELSE {})
             /\ ActivateIfNeeded(g, armed)
             /\ queue' = Append(queue, [Op("update", g) EXCEPT !.patch = patch])
             /\ off' = IF patch = "on" THEN "on" ELSE off
    /\ UNCHANGED <<kind, now, disk, fire, fence, cur, up, claims, upsets, ran>>

(* The update is saved (and put back into a list a deletion has emptied), or it
   failed and the local copy keeps what was asked for. *)
Edited(g) ==
    /\ Answers("update", g) /\ Head(queue).patch # "skip"
    /\ Pop
    /\ local' = IF Failed THEN local ELSE [local EXCEPT ![g] = Head(queue).res]
    /\ off' = IF /\ ~Failed /\ Head(queue).patch = "off"
                 /\ \A i \in 2..Len(queue) : queue[i].patch # "on"
              THEN "disabled" ELSE off
    /\ UNCHANGED <<kind, now, disk, settings, wake, fire, item, regs, adapter, fence, pass, cur, up,
                   claims, edits, upsets, ran, mishaps>>

(* deleteItem *)
Delete(g) ==
    /\ Quiet /\ Tool(g) /\ local[g] # Absent
    /\ local' = [local EXCEPT ![g] = Absent]
    /\ wake' = [wake EXCEPT ![g] = FALSE]
    /\ ActivateIfNeeded(g, Absent)
    /\ queue' = Append(queue, [Op("delete", g) EXCEPT !.arg = local[g]])
    /\ mishaps' = mishaps \union Late(g)
    /\ UNCHANGED <<kind, now, disk, settings, fire, fence, pass, cur, up, claims, upsets, ran, off>>

(* A deletion that could not be saved keeps the item discoverable, unarmed. *)
Deleted(g) ==
    /\ Answers("delete", g)
    /\ Pop
    /\ local' = IF Failed /\ local[g] = Absent THEN [local EXCEPT ![g] = Head(queue).arg] ELSE local
    /\ off' = IF Failed THEN off ELSE "deleted"
    /\ UNCHANGED <<kind, now, disk, settings, wake, fire, item, regs, adapter, fence, pass, cur, up,
                   claims, edits, upsets, ran, mishaps>>

(* createItem; a one-shot is created for a time to come. *)
Create(g) ==
    /\ Quiet /\ Tool(g) /\ Live(g) /\ off = "new" /\ now < MaxSlot
    /\ LET new == [on |-> TRUE, next |-> now + 1, fireAt |-> now + 1, rev |-> 1, tok |-> 0, crev |-> 0] IN
          /\ local' = [local EXCEPT ![g] = new]
          /\ wake' = [wake EXCEPT ![g] = TRUE]
          /\ queue' = Append(queue, [Op("create", g) EXCEPT !.arg = new])
    /\ off' = "on"
    /\ UNCHANGED <<kind, now, disk, settings, fire, item, regs, adapter, fence, pass, cur, up, claims,
                   upsets, ran, mishaps>>

Created(g) ==
    /\ Answers("create", g)
    /\ Pop
    /\ local' = IF Failed THEN local ELSE [local EXCEPT ![g] = Head(queue).res]
    /\ UNCHANGED <<kind, now, disk, settings, wake, fire, item, regs, adapter, fence, pass, cur, up,
                   claims, edits, upsets, ran, off, mishaps>>

(* detachProject: the whole list, as this generation sees it now, replaces what
   the coordinator has. *)
Detach(g) ==
    /\ Quiet /\ Tool(g) /\ off # "new" /\ (Live(g) \/ local[g] # Absent)
    /\ ActivateIfNeeded(g, local[g])
    /\ queue' = Append(queue, [Op("replaceAll", g) EXCEPT !.arg = local[g]])
    /\ mishaps' = mishaps \union Late(g)
    /\ UNCHANGED <<kind, now, disk, settings, local, wake, fire, fence, pass, cur, up, claims, upsets,
                   ran, off>>

Detached(g) ==
    /\ Answers("replaceAll", g)
    /\ Pop
    /\ IF ~Failed
       THEN /\ item' = Head(queue).arg
            /\ ArmTimer(g, Head(queue).arg, Head(queue).arg,
                        IF item # Head(queue).arg THEN {"replaced"} ELSE {})
       ELSE /\ settings' = IF Head(queue).by = 0 THEN settings
                           ELSE [settings EXCEPT ![Head(queue).by] = Head(queue).res]
            /\ UNCHANGED <<item, local, wake, pass, mishaps>>
    /\ UNCHANGED <<kind, now, disk, fire, regs, adapter, fence, cur, up, claims, edits, upsets,
                   ran, off>>

Without(g) == Picked(regs, {i \in DOMAIN regs : regs[i] # g})

(* onunload: the scheduler is destroyed at once, in the same turn; a fire() in
   progress goes on. *)
Unload ==
    /\ Quiet /\ up = "loaded"
    /\ up' = "off"
    /\ wake' = [wake EXCEPT ![cur] = FALSE]
    /\ regs' = Without(cur)
    /\ IF Without(cur) = <<>> THEN item' = Absent /\ adapter' = 0
       ELSE item' = item /\ adapter' = Without(cur)[Len(Without(cur))]
    /\ mishaps' = IF fire[cur].at = "idle" THEN mishaps ELSE mishaps \union {"unload"}
    /\ UNCHANGED <<kind, now, disk, settings, local, fire, queue, fence, pass, cur, claims, edits,
                   upsets, ran, off>>

(* onload: the next generation takes the fence before anything else. *)
ClaimFence ==
    /\ Quiet /\ up = "off" /\ cur < MaxGen
    /\ cur' = cur + 1 /\ fence' = cur + 1 /\ up' = "claimed"
    /\ UNCHANGED <<kind, now, disk, settings, local, wake, fire, item, regs, adapter, queue, pass,
                   claims, edits, upsets, ran, off, mishaps>>

(* The writes admitted before have drained: data.json is loaded and the scheduler
   started with it. *)
Start ==
    /\ Quiet /\ up = "claimed" /\ pass.gen = 0
    /\ up' = "loaded"
    /\ Activate(cur, disk)
    /\ LET skip == disk # Absent /\ disk.on /\ Stale(disk)
           armed == IF skip THEN [disk EXCEPT !.next = NextRun(disk)] ELSE disk
       IN  /\ local' = [local EXCEPT ![cur] = armed]
           /\ settings' = [settings EXCEPT ![cur] = armed]
           /\ pass' = IF skip THEN Requested(pass, cur, armed) ELSE pass
           /\ wake' = [wake EXCEPT ![cur] = armed # Absent /\ armed.on]
           /\ mishaps' = IF skip THEN mishaps \union {"missed"} ELSE mishaps
    /\ UNCHANGED <<kind, now, disk, fire, queue, fence, cur, claims, edits, upsets, ran, off>>

NoItems == [g \in Gens |-> Absent]
NotArmed == [g \in Gens |-> FALSE]
NoFire == [g \in Gens |-> Idle]

(* The renderer dies. *)
Crash ==
    /\ Quiet /\ cur < MaxGen /\ up # "off"
    /\ up' = "off" /\ fence' = 0 /\ pass' = NoPass /\ queue' = <<>>
    /\ settings' = NoItems /\ local' = NoItems /\ wake' = NotArmed /\ fire' = NoFire
    /\ item' = Absent /\ regs' = <<>> /\ adapter' = 0
    /\ mishaps' = IF \E g \in Gens : fire[g].at # "idle" THEN mishaps \union {"crash"} ELSE mishaps
    /\ UNCHANGED <<kind, now, disk, cur, claims, edits, upsets, ran, off>>

Tick ==
    /\ Quiet /\ now < MaxSlot
    /\ now' = now + 1
    /\ UNCHANGED <<kind, disk, settings, local, wake, fire, item, regs, adapter, queue, fence, pass,
                   cur, up, claims, edits, upsets, ran, off, mishaps>>

-----------------------------------------------------------------------------
Init ==
    /\ kind \in Kinds
    /\ now = 0
    /\ \/ disk = Absent /\ off = "new"
       \/ disk = [on |-> TRUE, next |-> 0, fireAt |-> 0, rev |-> 1, tok |-> 0, crev |-> 0] /\ off = "on"
    /\ settings = NoItems /\ local = NoItems /\ wake = NotArmed /\ fire = NoFire
    /\ item = Absent /\ regs = <<>> /\ adapter = 0 /\ queue = <<>>
    /\ fence = 0 /\ pass = NoPass /\ cur = 0 /\ up = "off"
    /\ claims = 0 /\ edits = 0 /\ upsets = 0
    /\ ran = [d \in Slots |-> 0]
    /\ mishaps = {}

(* What runs in the microtask queue, before any other event. *)
Microtask ==
    \/ BeginOp \/ BeginReplaceAll
    \/ \E g \in Gens :
          \/ Claimed(g) \/ ClaimRefused(g) \/ FireFails(g) \/ Skipped(g)
          \/ Dispatch(g) \/ AuthorizeRefused(g)
          \/ Abandoned(g) \/ AbandonFails(g) \/ Finalized(g) \/ FinalizeFails(g)
          \/ Edited(g) \/ Deleted(g) \/ Created(g) \/ Detached(g)

Event ==
    \/ WriteDone \/ WriteFails
    \/ Unload \/ ClaimFence \/ Start \/ Crash \/ Tick
    \/ \E g \in Gens :
          \/ OtherSave(g)
          \/ Wake(g) \/ WakeSkips(g) \/ WakeWhileFiring(g) \/ Missed(g)
          \/ GateEnds(g) \/ SendEnds(g)
          \/ Edit(g) \/ Delete(g) \/ Create(g) \/ Detach(g)

Next == Microtask \/ Event

Spec == Init /\ [][Next]_vars
-----------------------------------------------------------------------------
(* Properties.                                                               *)

(* Every variable has its type. *)
TypeOK ==
    /\ kind \in Kinds /\ now \in 0..MaxSlot
    /\ disk \in Item \union {Absent} /\ item \in Item \union {Absent}
    /\ settings \in [Gens -> Item \union {Absent}] /\ local \in [Gens -> Item \union {Absent}]
    /\ wake \in [Gens -> BOOLEAN]
    /\ regs \in Seq(Gens) /\ adapter \in 0..MaxGen /\ fence \in 0..MaxGen
    /\ pass.gen \in 0..MaxGen /\ cur \in 0..MaxGen /\ up \in {"off", "claimed", "loaded"}
    /\ ran \in [Slots -> 0..2] /\ mishaps \subseteq Mishaps
    /\ off \in {"new", "on", "disabled", "deleted"}

Except(what) == mishaps \intersect what = {}

(* The work due at a slot is dispatched once, whatever reloads, crashes and
   failed writes come between and however many schedulers are awake: a timer of
   a destroyed scheduler, which fire() arms again, may win the claim but not add
   a run.  A one-shot is dispatched once in all, also when its active hours move it
   to a later slot.  Excepted are a one-shot edited during its run (it runs again)
   and the ways in which an older copy of the item replaces the coordinator's. *)
RunsOncePerSlot ==
    Except({"late", "replaced", "fenced", "edited"}) =>
        /\ \A d \in Slots : ran[d] < 2
        /\ kind = "once" => \A d, e \in Slots : ran[d] > 0 /\ ran[e] > 0 => d = e

(* Once a disable or a deletion is confirmed nothing more is dispatched: not by
   a fire() that waits for its gate, not by the next generation, not after a
   crash.  A stale miss may save the scheduler's own copy, which may be older than the
   disable. *)
NothingRunsWhenOff ==
    [][ran' # ran /\ Except({"late", "replaced", "fenced", "missed"}) => off = "on"]_vars

(* "The claim is durable before a gate, thread creation, or send begins": when
   work is dispatched, data.json holds the claim it is dispatched under. *)
DurableBeforeDispatch ==
    [][ran' # ran /\ Except({"late", "missed", "fenced"}) => disk # Absent /\ disk.tok = item.tok]_vars

Told == queue # <<>> /\ Head(queue).stage \in {"this", "next"} /\ queue' # <<>>
            /\ Head(queue').stage = "ok"

(* An operation is told that it is saved by a write that holds its result, also
   when its request came in the middle of another write. *)
SavedMeansWritten ==
    [][Told /\ Except({"late", "missed"}) /\ "fenced" \notin mishaps'
        => disk' = IF Head(queue).op = "replaceAll" THEN Head(queue).arg ELSE Head(queue).res]_vars

(* The running scheduler is at rest with an enabled item. *)
AtRest == up = "loaded" /\ queue = <<>> /\ item # Absent /\ item.on /\ fire[cur].at = "idle"

(* The item will run again: it is armed, for the time the coordinator has, and
   no claim is left on it that nobody works on. *)
WillRun ==
    /\ wake[cur] /\ local[cur] # Absent /\ local[cur].on /\ local[cur].next = item.next
    /\ item.tok # 0 => InHand

(* As long as none of the listed mishaps happens, an enabled item is never
   forgotten. *)
NotForgotten == AtRest /\ mishaps = {} => WillRun

Refused == /\ queue # <<>> /\ Head(queue).op = "claim" /\ Head(queue).stage = "ok"
           /\ ~Head(queue).yes

(* Scheduler.ts:350-351 "Anything staler [...] is skipped and advanced to its next
   slot": when that slot comes, and nobody has touched the item, it runs. *)
SkippedIsAdvanced == mishaps \subseteq {"missed"} /\ edits = 0 => ~Refused

(* Scheduler.ts:352 "One-shot ('once') items are exempt: a missed one must fire": a
   one-shot that was never sent, the renderer having died first, is granted its
   claim when the plugin is loaded again. *)
MissedOnceFires ==
    kind = "once" /\ mishaps \subseteq {"crash"} /\ edits = 0 /\ Refused => ran[Head(queue).due] > 0
=============================================================================
