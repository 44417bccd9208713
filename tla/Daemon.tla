------------------------------- MODULE Daemon -------------------------------
(***************************************************************************)
(* Continuous sync of one vault (core/src/daemon.rs, pacing.rs,            *)
(* watcher.rs): a select loop that waits for commands, watcher events and  *)
(* its own timer, and runs one cycle at a time.                            *)
(*                                                                         *)
(* What a cycle does to each path is reduced to uploading, downloading or  *)
(* leaving it in conflict: SyncEngine has the cycle itself.  A version     *)
(* stands for the bytes of a file and for its (mtime, size) pair.  Clocks  *)
(* are ages in ticks, each kept only as far as the code tells it apart, so *)
(* the user, the other devices and the commands never run out.             *)
(***************************************************************************)
EXTENDS Naturals, FiniteSets, Sequences, FiniteSetsExt

CONSTANTS
    Paths, Versions, None,
    quiet, batch,                          \* DaemonOptions, in ticks
    poll_active, poll_idle, active_window,
    backoff_base, backoff_max,
    SELF_WRITE_GRACE,
    ChannelCapacity,                       \* of the command channel
    MaxFaults                              \* bound: failures

ASSUME DaemonAssumption ==
    /\ {quiet, batch, poll_active, poll_idle, active_window, backoff_base,
        backoff_max, SELF_WRITE_GRACE, ChannelCapacity} \subseteq Nat \ {0}
    /\ MaxFaults \in Nat
    /\ None \notin Versions
    /\ Cardinality(Versions) > 1

VARIABLES
    disk, synced,   \* each path's version on disk, and the one the server has
    remote,         \* paths another device changed since the last cycle
    stale,          \* the server's ETag is not the cached one
    events,         \* watcher events on their way to the loop
    first, pending, \* the debouncer: age of its first event; per path the age
                    \* of the last event and the stat seen then, or None
    self_writes,    \* per path, the age of the last cycle's write, or None
    suppressed,     \* ticks until triggers run again
    failures,       \* Backoff::failures
    pending_plan,   \* the conflicts left for the user
    activity,       \* age of last_activity
    polled,         \* age of last_poll
    poll_due,       \* ticks to the next poll, as of the top of the loop
    commands,       \* the command channel
    cycle,          \* the cycle running: its trigger and its plan, or None
    stopped,
    missed,         \* unsynced paths whose edit the daemon has no trace of
    absorbed,       \* paths whose change by another device the last cycle put
                    \* into the base without a download
    faults          \* how much of MaxFaults is used

folder   == <<disk, synced, remote, stale>>
debounce == <<first, pending>>
pacing   == <<activity, polled, poll_due>>
health   == <<suppressed, failures, faults>>
vars == <<folder, events, debounce, self_writes, pacing, health, pending_plan,
          commands, cycle, stopped, missed, absorbed>>

\* Local, Remote and Manual run the same cycle, "Sync".
Triggers == {"Sync", "Resolve"}

\* A cycle: the plan made at its start, and what has happened since.
Cycle == [trigger : Triggers, up : SUBSET Paths, down : SUBSET Paths,
          conflicts : SUBSET Paths, walk : [Paths -> Versions],
          kept : BOOLEAN,      \* whether the plan is an earlier cycle's
          late : SUBSET Paths] \* paths another device wrote since the plan

\* A path the debouncer holds.
Armed == [age : 0..quiet, stat : Versions]

ASSUME NoneAssumption == None \notin Nat /\ None \notin Armed /\ None \notin Cycle

\* The batch window is open exactly while the debouncer holds a path, and the
\* clocks stay within what the code tells apart.
TypeOK ==
    /\ disk \in [Paths -> Versions] /\ synced \in [Paths -> Versions]
    /\ remote \subseteq Paths /\ stale \in BOOLEAN
    /\ events \subseteq Paths
    /\ first \in 0..batch \cup {None}
    /\ pending \in [Paths -> Armed \cup {None}]
    /\ first = None <=> \A p \in Paths : pending[p] = None
    /\ self_writes \in [Paths -> 0..SELF_WRITE_GRACE \cup {None}]
    /\ suppressed \in 0..backoff_max /\ failures \in Nat
    /\ pending_plan \subseteq Paths
    /\ activity \in 0..active_window /\ polled \in 0..poll_idle
    /\ poll_due \in 0..Max({poll_active, poll_idle})
    /\ commands \in Seq({"SyncNow", "Resolve", "Stop"}) /\ Len(commands) <= ChannelCapacity
    /\ cycle \in Cycle \cup {None}
    /\ stopped \in BOOLEAN
    /\ missed \subseteq Paths /\ absorbed \subseteq Paths
    /\ faults \in 0..MaxFaults

Unsynced(p) == disk[p] # synced[p]

\* PollPacing::interval.
interval(since_activity) ==
    IF since_activity < active_window THEN poll_active ELSE poll_idle

Ahead(deadline, age) == IF deadline > age THEN deadline - age ELSE 0

\* An earlier cycle left the cached manifest and its ETag.  The folder may have
\* been edited while no daemon ran; run_daemon runs no cycle at the start.
Init ==
    /\ disk \in [Paths -> Versions] /\ synced \in [Paths -> Versions]
    /\ remote = {} /\ stale = FALSE
    /\ events = {}
    /\ first = None /\ pending = [p \in Paths |-> None]
    /\ self_writes = [p \in Paths |-> None]
    /\ suppressed = 0 /\ failures = 0 /\ faults = 0
    /\ pending_plan = {}
    /\ activity = 0 /\ polled = 0 /\ poll_due = interval(0)
    /\ commands = <<>>
    /\ cycle = None
    /\ stopped = FALSE
    /\ missed = {p \in Paths : Unsynced(p)}
    /\ absorbed = {}

Selecting == cycle = None /\ ~stopped

-----------------------------------------------------------------------------
(* The world around the loop                                               *)

\* The user writes a file; the watcher reports it in its own time.
Edit(p) ==
    /\ ~stopped
    /\ \E v \in Versions \ {disk[p]} : disk' = [disk EXCEPT ![p] = v]
    /\ events' = events \cup {p}
    /\ UNCHANGED <<synced, remote, stale, debounce, self_writes, pacing, health,
                   pending_plan, commands, cycle, stopped, missed, absorbed>>

\* Another device's write lands, between two cycles or during one.  A write
\* that comes after the cycle's last fetch is one after its end.
RemoteWrite(p) ==
    /\ ~stopped
    /\ IF cycle = None THEN remote' = remote \cup {p} /\ UNCHANGED cycle
                       ELSE cycle' = [cycle EXCEPT !.late = @ \cup {p}] /\ UNCHANGED remote
    /\ stale' = TRUE
    /\ UNCHANGED <<disk, synced, events, debounce, self_writes, pacing, health,
                   pending_plan, commands, stopped, missed, absorbed>>

\* DaemonHandle: a command enters the channel.  On a full one try_send drops
\* it, and send waits.
Send(command) ==
    /\ ~stopped
    /\ Len(commands) < ChannelCapacity
    /\ commands' = Append(commands, command)
    /\ UNCHANGED <<folder, events, debounce, self_writes, pacing, health,
                   pending_plan, cycle, stopped, missed, absorbed>>

-----------------------------------------------------------------------------
(* Debouncer                                                               *)

\* next_deadline has passed: the batch window is over, or the last event is
\* `quiet` old.
next_deadline ==
    /\ first # None
    /\ \/ first = batch
       \/ \A p \in Paths : pending[p] # None => pending[p].age = quiet

Moved(p) == pending[p] # None /\ pending[p].age = quiet /\ pending[p].stat # disk[p]

\* Slip: no batch window.
due_NoBatch ==
    /\ first # None
    /\ \A p \in Paths : pending[p] # None => pending[p].age = quiet /\ ~Moved(p)

\* `due` releases every path.
due ==
    /\ first # None
    /\ \/ first = batch
       \/ \A p \in Paths : pending[p] # None => pending[p].age = quiet /\ ~Moved(p)

\* Slip: the batch window stays open.
take_all_KeepFirst == pending' = [p \in Paths |-> None] /\ UNCHANGED first

\* The debouncer is empty again.
take_all == first' = None /\ pending' = [p \in Paths |-> None]

\* Otherwise a quiet path whose stat moved is armed again.
rearm ==
    /\ pending' = [p \in Paths |-> IF Moved(p) THEN [age |-> 0, stat |-> disk[p]]
                                   ELSE pending[p]]
    /\ UNCHANGED first

\* The event is taken for one of the last cycle's own writes.
is_self_write(p) == self_writes'[p] # None /\ self_writes'[p] < SELF_WRITE_GRACE

\* Slip: after a cycle that wrote something every event is dropped.
Observe_Drain(paths, unseen) ==
    LET kept == IF \E p \in Paths : self_writes'[p] # None THEN {} ELSE paths
    IN  /\ pending' = [p \in Paths |-> IF p \in kept THEN [age |-> 0, stat |-> disk'[p]]
                                       ELSE pending[p]]
        /\ first' = IF first = None /\ kept # {} THEN 0 ELSE first
        /\ missed' = missed

\* Watcher events reach the loop: the last cycle's own are dropped, the
\* others observed.  `unseen` paths came out of step without an event.
Observe(paths, unseen) ==
    LET kept == {p \in paths : ~is_self_write(p)}
    IN  /\ pending' = [p \in Paths |-> IF p \in kept THEN [age |-> 0, stat |-> disk'[p]]
                                       ELSE pending[p]]
        /\ first' = IF first = None /\ kept # {} THEN 0 ELSE first
        /\ missed' = {p \in missed \cup unseen \cup (paths \ kept) :
                        disk'[p] # synced'[p] /\ pending'[p] = None}

-----------------------------------------------------------------------------
(* Pacing                                                                  *)

\* Slip: the time of the poll is not taken down.
Pace_NoStamp(active, poll) ==
    /\ activity' = IF active THEN 0 ELSE activity
    /\ polled' = polled
    /\ poll_due' = Ahead(interval(activity'), polled')

\* last_activity and last_poll, and poll_due as the top of the loop has it.
Pace(active, poll) ==
    /\ activity' = IF active THEN 0 ELSE activity
    /\ polled' = IF poll THEN 0 ELSE polled
    /\ poll_due' = Ahead(interval(activity'), polled')

\* checked_mul, unwrap_or and min: the product as far as it fits.
backoff_wait ==
    LET wait == backoff_base * 2^failures
    IN  IF wait \in 0..backoff_max THEN wait ELSE backoff_max

\* next_wait; the failures are counted as far as the wait grows with them.
report_failure(fatal) ==
    IF fatal THEN /\ suppressed' = backoff_wait
                  /\ failures' = IF backoff_wait = backoff_max THEN failures ELSE failures + 1
             ELSE UNCHANGED <<suppressed, failures>>

\* One failure of the environment.
Fault == faults < MaxFaults /\ faults' = faults + 1

-----------------------------------------------------------------------------
(* Cycles                                                                  *)

\* prepare_sync's plan for what is on disk and on the server.
Plan(trigger) ==
    [trigger |-> trigger, walk |-> disk, kept |-> FALSE, late |-> {},
     up        |-> {p \in Paths \ remote : Unsynced(p)},
     down      |-> {p \in remote : ~Unsynced(p)},
     conflicts |-> {p \in remote : Unsynced(p)}]

\* `execute`: the kept plan for the user's choices, a fresh one otherwise, whose
\* fetch renews the cached ETag.
StartCycle(trigger) ==
    LET kept == trigger = "Resolve" /\ pending_plan # {}
    IN  /\ cycle' = IF kept THEN [trigger |-> trigger, walk |-> disk, kept |-> TRUE, late |-> {},
                                  up |-> {}, down |-> {}, conflicts |-> pending_plan]
                            ELSE Plan(trigger)
        /\ stale' = (kept /\ stale)
        /\ absorbed' = {}

\* The transfers of `moved` went through, and the user's choices for the
\* conflicts `mine` (KeepLocal) and `theirs` (KeepRemote), up to the uploads
\* that another device's write has `beaten`: they answer 409, join the conflicts
\* `left` and are held back with everything that did not go through.  The
\* checkpoint fetches the manifest once more, so its base and its ETag move past
\* what was written since the plan, downloaded or not; a kept plan is older than
\* every write since, those before its cycle too.
Transfer(moved, left, mine, theirs, checkpoint) ==
    LET sent == (cycle.up \cap moved) \cup mine
        down == (cycle.down \cap moved) \cup theirs
        held == (cycle.up \cup cycle.down \cup cycle.conflicts) \ (sent \cup down)
        since == cycle.late \cup (IF cycle.kept THEN remote \ cycle.conflicts ELSE {})
    IN  \E beaten \in SUBSET (sent \cap (cycle.late \cup IF cycle.kept THEN remote ELSE {})) :
        LET up == sent \ beaten
            passed == IF checkpoint THEN since \ (held \cup beaten) ELSE {}
        IN  \E file \in [down -> Versions], got \in [passed -> Versions] :
              /\ disk' = [p \in Paths |-> IF p \in down THEN file[p] ELSE disk[p]]
              /\ synced' = [p \in Paths |-> IF p \in passed THEN got[p]
                                            ELSE IF p \in down THEN file[p]
                                            ELSE IF p \in up THEN cycle.walk[p] ELSE synced[p]]
              /\ remote' = (remote \ (up \cup down \cup passed)) \cup (cycle.late \ passed)
              /\ absorbed' = (absorbed \ (up \cup down))
                                \cup {p \in passed : disk'[p] # synced'[p]}
              /\ stale' \in {FALSE, ~checkpoint /\ (up # {} \/ stale)}
              /\ pending_plan' = left \cup beaten
              /\ \E arrived \in SUBSET (events \cup down) :
                    /\ events' = (events \cup down) \ arrived
                    /\ self_writes' = [p \in Paths |-> IF p \in cycle.down THEN 0 ELSE None]
                    /\ Observe(arrived, passed)

\* The conflicts a user may have answered; the rest is deferred.
Answers == IF cycle.trigger = "Resolve" THEN SUBSET cycle.conflicts ELSE {{}}

\* The result is an Ok: the planned downloads become the self writes, the
\* conflicts left become the pending plan, and drop_self_writes drains the
\* events that have reached the channel.
CycleSucceeds ==
    /\ cycle # None
    /\ \E mine \in Answers : \E theirs \in Answers :
          /\ mine \cap theirs = {}
          /\ Transfer(cycle.up \cup cycle.down, cycle.conflicts \ (mine \cup theirs),
                      mine, theirs, TRUE)
    /\ failures' = 0
    /\ Pace(TRUE, FALSE)
    /\ cycle' = None
    /\ UNCHANGED <<suppressed, faults, commands, stopped>>

\* An Ok with failures in it: some transfers did not go through (a 404 for a
\* file deleted since the plan is one); a fatal one also skipped the checkpoint,
\* as a failed checkpoint does, and starts the backoff.
CycleFailsPartly ==
    /\ cycle # None
    /\ Fault
    /\ \E moved \in SUBSET (cycle.up \cup cycle.down), fatal \in BOOLEAN, answered \in Answers :
          /\ \E mine \in SUBSET answered : \E theirs \in SUBSET (answered \ mine) :
                Transfer(moved, cycle.conflicts \ answered, mine, theirs, ~fatal)
          /\ IF fatal THEN report_failure(TRUE) ELSE failures' = 0 /\ UNCHANGED suppressed
    /\ Pace(TRUE, FALSE)
    /\ cycle' = None
    /\ UNCHANGED <<commands, stopped>>

\* An Err: it may have come before the fetch, and with the user's choices some
\* files may have been written.
CycleErrors ==
    /\ cycle # None
    /\ Fault
    /\ \E fatal \in BOOLEAN : report_failure(fatal)
    /\ stale' \in {stale, stale \/ ~cycle.kept}
    /\ \E written \in IF cycle.trigger = "Resolve" THEN SUBSET (cycle.down \cup cycle.conflicts)
                                                   ELSE {{}} :
       \E file \in [written -> Versions] :
          /\ disk' = [p \in Paths |-> IF p \in written THEN file[p] ELSE disk[p]]
          /\ synced' = [p \in Paths |-> IF p \in written THEN file[p] ELSE synced[p]]
          /\ remote' = (remote \ written) \cup cycle.late
          /\ absorbed' = absorbed \ written
          /\ UNCHANGED self_writes
          /\ \E arrived \in SUBSET (events \cup written) :
                /\ events' = (events \cup written) \ arrived
                /\ Observe(arrived, {})
    /\ Pace(cycle.trigger = "Resolve", FALSE)
    /\ cycle' = None
    /\ UNCHANGED <<pending_plan, commands, stopped>>

-----------------------------------------------------------------------------
(* run_daemon: the branches of select!                                      *)

HandleCommand ==
    /\ Selecting
    /\ commands # <<>>
    /\ commands' = Tail(commands)
    /\ \/ Head(commands) = "Stop" /\ stopped' = TRUE /\ UNCHANGED <<cycle, stale, absorbed>>
       \/ Head(commands) = "SyncNow" /\ StartCycle("Sync") /\ UNCHANGED stopped
       \/ Head(commands) = "Resolve" /\ StartCycle("Resolve") /\ UNCHANGED stopped
    /\ UNCHANGED <<disk, synced, remote, events, debounce, self_writes, pacing, health,
                   pending_plan, missed>>

Receive(p) ==
    /\ Selecting
    /\ p \in events
    /\ UNCHANGED <<folder, self_writes>>
    /\ Observe({p}, {})
    /\ events' = events \ {p}
    /\ Pace(TRUE, FALSE)
    /\ UNCHANGED <<health, pending_plan, commands, cycle, stopped, absorbed>>

\* Slip: the sleep is as long as the debouncer says.
WakeDue_DebouncerOnly == suppressed = 0 /\ next_deadline

\* sleep_until(wake) has passed.
WakeDue == suppressed = 0 /\ (poll_due = 0 \/ next_deadline)

\* The debouncer releases its paths.
WakeLocal ==
    /\ Selecting /\ WakeDue
    /\ due
    /\ take_all
    /\ StartCycle("Sync")
    /\ UNCHANGED <<disk, synced, remote, events, self_writes, pacing, health,
                   pending_plan, commands, stopped, missed>>

\* remote_changed; a 200 refreshes the cache.
remote_changed == stale

\* It releases nothing; the poll runs if it is time.
WakePoll ==
    /\ Selecting /\ WakeDue
    /\ ~due
    /\ rearm
    /\ \/ /\ poll_due > 0
          /\ Pace(FALSE, FALSE)
          /\ UNCHANGED <<stale, cycle, health, absorbed>>
       \/ /\ poll_due = 0
          /\ remote_changed
          /\ StartCycle("Sync")
          /\ Pace(FALSE, TRUE)
          /\ UNCHANGED health
       \/ /\ poll_due = 0
          /\ ~remote_changed
          /\ Pace(FALSE, TRUE)
          /\ UNCHANGED <<stale, cycle, health, absorbed>>
       \/ /\ poll_due = 0
          /\ Fault
          /\ \E fatal \in BOOLEAN : report_failure(fatal)
          /\ Pace(FALSE, TRUE)
          /\ UNCHANGED <<stale, cycle, absorbed>>
    /\ UNCHANGED <<disk, synced, remote, events, self_writes, pending_plan,
                   commands, stopped, missed>>

Older(age, cap) == IF age = None THEN None ELSE IF age < cap THEN age + 1 ELSE cap

\* Time passes, but not past a wake that is due.
Tick ==
    /\ ~stopped
    /\ Selecting => ~WakeDue
    /\ first' = Older(first, batch)
    /\ pending' = [p \in Paths |-> IF pending[p] = None THEN None
                                   ELSE [pending[p] EXCEPT !.age = Older(@, quiet)]]
    /\ self_writes' = [p \in Paths |-> Older(self_writes[p], SELF_WRITE_GRACE)]
    /\ activity' = Older(activity, active_window)
    /\ polled' = Older(polled, poll_idle)
    /\ poll_due' = Ahead(poll_due, 1)
    /\ suppressed' = Ahead(suppressed, 1)
    /\ UNCHANGED <<folder, events, failures, faults, pending_plan, commands, cycle,
                   stopped, missed, absorbed>>

-----------------------------------------------------------------------------
Loop == HandleCommand \/ WakeLocal \/ WakePoll \/ \E p \in Paths : Receive(p)

Next ==
    \/ \E p \in Paths : Edit(p) \/ RemoteWrite(p)
    \/ \E command \in {"SyncNow", "Resolve", "Stop"} : Send(command)
    \/ Loop
    \/ CycleSucceeds \/ CycleFailsPartly \/ CycleErrors
    \/ Tick

Spec == Init /\ [][Next]_vars

\* Time passes, cycles end, the watcher delivers, and select! looks at its
\* branches in random order, so that none is passed over for ever.
Fairness ==
    /\ WF_vars(Tick)
    /\ WF_vars(CycleSucceeds)
    /\ SF_vars(HandleCommand) /\ SF_vars(WakeLocal) /\ SF_vars(WakePoll)
    /\ \A p \in Paths : SF_vars(Receive(p))

FairSpec == Spec /\ Fairness

-----------------------------------------------------------------------------
(* Properties                                                              *)

\* The paths that a cycle is about to bring in step.
InCycle(p) == cycle # None /\ p \in cycle.up \cup cycle.down \cup cycle.conflicts

\* "Anything else that arrived during the cycle stays pending" (daemon.rs,
\* drop_self_writes): without failures, an edit that the server does not have
\* is on its way through the watcher, armed in the debouncer, part of the
\* running cycle or left to the user, unless its event was taken for a self
\* write, it was made before the daemon started, or a checkpoint moved the base
\* past another device's write.
Tracked ==
    faults = 0 /\ ~stopped =>
        \A p \in Paths : Unsynced(p) =>
            \/ p \in events \cup missed \cup pending_plan
            \/ pending[p] # None
            \/ InCycle(p)

\* An edit "is on the server a couple of seconds later" (docs/platforms.md):
\* with the exceptions above, a cycle takes it up, also when the file is
\* written all the time and its quiet timer never runs out.
EditSynced ==
    \A p \in Paths : Unsynced(p) ~>
        \/ ~Unsynced(p) \/ InCycle(p) \/ p \in missed \cup pending_plan
        \/ stopped \/ faults > 0

\* A cycle downloads the path or asks the user about it.
Fetched(p) == cycle # None /\ p \in cycle.down \cup cycle.conflicts

\* "A change from another device lands within the poll interval"
\* (docs/platforms.md): without failures, a cycle takes it up, left to the user
\* or equal to the file it may be.  The exception is a write of a path that the
\* plan did not know of and that the checkpoint's second fetch (sync_engine.rs,
\* checkpoint) finds: base and ETag move past it, the next poll answers 304, and
\* nothing downloads it.  The documentation knows no such exception.
RemoteLands ==
    \A p \in Paths : (p \in remote \/ (cycle # None /\ p \in cycle.late)) ~>
        \/ Fetched(p) \/ p \in pending_plan
        \/ p \in absorbed
        \/ p \notin remote /\ ~Unsynced(p)
        \/ stopped \/ faults > 0

\* The loop never spins: a wake that is due is dealt with and time goes on.
LoopRests == (Selecting /\ WakeDue) ~> ~(Selecting /\ WakeDue)
=============================================================================
