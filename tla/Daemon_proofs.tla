--------------------------- MODULE Daemon_proofs ---------------------------
(***************************************************************************)
(* Proofs about Daemon, for every number of paths, every version set and   *)
(* every setting of the intervals: its state is well-typed and no edit is  *)
(* lost track of while nothing has failed.                                 *)
(***************************************************************************)
EXTENDS Daemon, TLAPS

\* What a running cycle knows: a file that changed since the walk has its
\* event under way; a kept plan is the pending one, and a fresh plan has every
\* path that differed when the cycle walked the folder.
CycleInv ==
    cycle # None =>
        /\ \A p \in Paths : disk[p] = cycle.walk[p] \/ p \in events
        /\ cycle.kept => cycle.conflicts = pending_plan
        /\ ~cycle.kept => \A p \in Paths : cycle.walk[p] # synced[p]
                                           => p \in cycle.up \cup cycle.conflicts

DaemonInv == TypeOK /\ CycleInv /\ Tracked

-----------------------------------------------------------------------------
(* Helpers                                                                 *)

\* The larger of two settings is one of them and bounds both.
LEMMA MaxOfTwo ==
    ASSUME NEW m \in Nat, NEW n \in Nat
    PROVE  Max({m, n}) \in Nat /\ m <= Max({m, n}) /\ n <= Max({m, n})
BY DEF Max

\* PollPacing::interval is one of the two settings.
LEMMA IntervalType ==
    ASSUME NEW n
    PROVE  /\ interval(n) \in Nat
           /\ interval(n) <= Max({poll_active, poll_idle})
<1>1. {poll_active, poll_idle} \subseteq Nat
  BY DaemonAssumption
<1>2. QED
  BY <1>1, MaxOfTwo DEF interval

\* backoff_wait never exceeds its cap.
LEMMA WaitCapped == backoff_wait \in 0..backoff_max
<1>1. backoff_max \in 0..backoff_max
  BY DaemonAssumption
<1>2. QED
  BY <1>1, Zenon DEF backoff_wait

\* A clock grows up to its cap.
LEMMA OlderType ==
    ASSUME NEW cap \in Nat, NEW age \in 0..cap
    PROVE  Older(age, cap) \in 0..cap
BY NoneAssumption DEF Older

\* Pace leaves the clocks of the poll in their ranges.
LEMMA PaceType ==
    ASSUME TypeOK, NEW active, NEW poll, Pace(active, poll)
    PROVE  /\ activity' \in 0..active_window
           /\ polled' \in 0..poll_idle
           /\ poll_due' \in 0..Max({poll_active, poll_idle})
<1>1. /\ activity' \in 0..active_window
      /\ polled' \in 0..poll_idle
  BY DaemonAssumption DEF TypeOK, Pace
<1>2. /\ interval(activity') \in Nat
      /\ interval(activity') <= Max({poll_active, poll_idle})
      /\ Max({poll_active, poll_idle}) \in Nat
  BY IntervalType, MaxOfTwo, DaemonAssumption
<1>3. poll_due' = Ahead(interval(activity'), polled')
  BY DEF Pace
<1>4. QED
  BY <1>1, <1>2, <1>3 DEF Ahead

\* report_failure leaves the backoff in its range.
LEMMA FailureType ==
    ASSUME TypeOK, NEW fatal, report_failure(fatal)
    PROVE  suppressed' \in 0..backoff_max /\ failures' \in Nat
BY WaitCapped DEF TypeOK, report_failure

\* The plan prepare_sync makes is a cycle, fresh, with every path that
\* differs from the server.
LEMMA PlanFacts ==
    ASSUME TypeOK, NEW trigger \in Triggers
    PROVE  /\ Plan(trigger) \in Cycle
           /\ Plan(trigger) # None
           /\ Plan(trigger).walk = disk
           /\ Plan(trigger).kept = FALSE
           /\ \A p \in Paths : Unsynced(p) => p \in Plan(trigger).up \cup Plan(trigger).conflicts
<1>1. Plan(trigger) \in Cycle
  BY DEF Plan, Cycle, TypeOK
<1>2. QED
  BY <1>1, NoneAssumption DEF Plan

\* A cycle starts well-typed and with what CycleInv says of it.
LEMMA StartFacts ==
    ASSUME TypeOK, NEW trigger \in Triggers, StartCycle(trigger)
    PROVE  /\ cycle' \in Cycle
           /\ cycle' # None
           /\ cycle'.walk = disk
           /\ cycle'.kept \in BOOLEAN
           /\ cycle'.kept => trigger = "Resolve" /\ cycle'.conflicts = pending_plan
           /\ ~cycle'.kept => \A p \in Paths : Unsynced(p) => p \in cycle'.up \cup cycle'.conflicts
           /\ stale' \in BOOLEAN /\ absorbed' = {}
<1>0. stale' \in BOOLEAN /\ absorbed' = {}
  BY Zenon DEF StartCycle
<1>1. CASE trigger = "Resolve" /\ pending_plan # {}
  <2>1. cycle' = [trigger |-> trigger, walk |-> disk, kept |-> TRUE, late |-> {},
                  up |-> {}, down |-> {}, conflicts |-> pending_plan]
    BY <1>1 DEF StartCycle
  <2>2. cycle' \in Cycle
    BY <2>1 DEF Cycle, TypeOK
  <2>3. QED
    BY <1>0, <1>1, <2>1, <2>2, NoneAssumption
<1>2. CASE ~(trigger = "Resolve" /\ pending_plan # {})
  <2>1. cycle' = Plan(trigger)
    BY <1>2 DEF StartCycle
  <2>2. QED
    BY <1>0, <2>1, PlanFacts
<1>3. QED
  BY <1>1, <1>2

\* What Observe does to the debouncer and to `missed`: the events that were
\* taken off the channel and the unseen changes are pending or missed, and
\* what was pending stays so.
LEMMA ObserveFacts ==
    ASSUME TypeOK, NEW paths, NEW unseen, paths \subseteq Paths, unseen \subseteq Paths,
           disk' \in [Paths -> Versions], Observe(paths, unseen)
    PROVE  /\ pending' \in [Paths -> Armed \cup {None}]
           /\ first' \in 0..batch \cup {None}
           /\ first' = None <=> \A p \in Paths : pending'[p] = None
           /\ missed' \subseteq Paths
           /\ \A p \in Paths : pending[p] # None => pending'[p] # None
           /\ \A p \in Paths : /\ p \in missed \cup unseen \cup paths
                               /\ disk'[p] # synced'[p]
                               => p \in missed' \/ pending'[p] # None
<1> DEFINE kept == {p \in paths : ~is_self_write(p)}
<1>1. /\ pending' = [p \in Paths |-> IF p \in kept THEN [age |-> 0, stat |-> disk'[p]]
                                     ELSE pending[p]]
      /\ first' = IF first = None /\ kept # {} THEN 0 ELSE first
      /\ missed' = {p \in missed \cup unseen \cup (paths \ kept) :
                      disk'[p] # synced'[p] /\ pending'[p] = None}
  BY DEF Observe
<1>2. kept \subseteq Paths
  OBVIOUS
<1> HIDE DEF kept
<1>3. \A p \in Paths : [age |-> 0, stat |-> disk'[p]] \in Armed
  BY DaemonAssumption DEF Armed
<1>4. pending' \in [Paths -> Armed \cup {None}]
  BY <1>1, <1>3 DEF TypeOK
<1>5. \A p \in Paths : p \in kept => pending'[p] # None
  BY <1>1, <1>3, NoneAssumption
<1>6. \A p \in Paths : p \notin kept => pending'[p] = pending[p]
  BY <1>1
<1>7. first' \in 0..batch \cup {None}
  BY <1>1, DaemonAssumption DEF TypeOK
<1>8. first' = None <=> \A p \in Paths : pending'[p] = None
  <2>1. CASE kept = {}
    <3>1. first' = first /\ \A p \in Paths : pending'[p] = pending[p]
      BY <1>1, <1>6, <2>1
    <3>2. QED
      BY <3>1 DEF TypeOK
  <2>2. CASE kept # {}
    <3>1. first' # None
      BY <1>1, <2>2, NoneAssumption
    <3>2. QED
      BY <1>2, <1>5, <2>2, <3>1
  <2>3. QED
    BY <2>1, <2>2
<1>9. missed' \subseteq Paths
  BY <1>1 DEF TypeOK
<1>10. \A p \in Paths : pending[p] # None => pending'[p] # None
  BY <1>5, <1>6
<1>11. ASSUME NEW p \in Paths, p \in missed \cup unseen \cup paths, disk'[p] # synced'[p]
       PROVE  p \in missed' \/ pending'[p] # None
  BY <1>1, <1>5, <1>11
<1>12. QED
  BY <1>4, <1>7, <1>8, <1>9, <1>10, <1>11

-----------------------------------------------------------------------------
(* A cycle's end                                                           *)

\* What the transfers of a cycle leave out of step with the server: paths
\* whose event or silent change is accounted for, paths left to the user, and
\* paths that neither went up nor came down as the server has them now.
Leaves(moved, mine, theirs) ==
    \A p \in Paths : disk'[p] # synced'[p] =>
        \/ p \in events' \cup missed' \cup pending_plan' \/ pending'[p] # None
        \/ /\ p \notin events \cup missed /\ pending[p] = None
           /\ p \notin (cycle.down \cap moved) \cup theirs
           /\ disk'[p] = disk[p]
           /\ synced'[p] = IF p \in (cycle.up \cap moved) \cup mine
                           THEN cycle.walk[p] ELSE synced[p]

\* The transfers leave well-typed state and what Leaves says.
LEMMA TransferFacts ==
    ASSUME TypeOK, cycle # None, NEW moved, NEW left, NEW mine, NEW theirs,
           NEW checkpoint \in BOOLEAN,
           left \subseteq cycle.conflicts, mine \subseteq cycle.conflicts,
           theirs \subseteq cycle.conflicts,
           Transfer(moved, left, mine, theirs, checkpoint)
    PROVE  /\ disk' \in [Paths -> Versions] /\ synced' \in [Paths -> Versions]
           /\ remote' \subseteq Paths /\ stale' \in BOOLEAN
           /\ absorbed' \subseteq Paths
           /\ pending_plan' \subseteq Paths /\ left \subseteq pending_plan'
           /\ events' \subseteq Paths
           /\ self_writes' \in [Paths -> 0..SELF_WRITE_GRACE \cup {None}]
           /\ pending' \in [Paths -> Armed \cup {None}]
           /\ first' \in 0..batch \cup {None}
           /\ first' = None <=> \A p \in Paths : pending'[p] = None
           /\ missed' \subseteq Paths
           /\ Leaves(moved, mine, theirs)
<1> DEFINE sent == (cycle.up \cap moved) \cup mine
           down == (cycle.down \cap moved) \cup theirs
           held == (cycle.up \cup cycle.down \cup cycle.conflicts) \ (sent \cup down)
           since == cycle.late \cup (IF cycle.kept THEN remote \ cycle.conflicts ELSE {})
           Up(beaten) == sent \ beaten
           Passed(beaten) == IF checkpoint THEN since \ (held \cup beaten) ELSE {}
<1>1. cycle \in Cycle
  BY DEF TypeOK
<1>2. /\ sent \subseteq Paths /\ down \subseteq Paths /\ since \subseteq Paths
      /\ left \subseteq Paths /\ cycle.late \subseteq Paths
      /\ cycle.walk \in [Paths -> Versions]
  BY <1>1 DEF TypeOK, Cycle
<1>3. PICK beaten \in SUBSET (sent \cap (cycle.late \cup IF cycle.kept THEN remote ELSE {})) :
        \E file \in [down -> Versions], got \in [Passed(beaten) -> Versions] :
          /\ disk' = [p \in Paths |-> IF p \in down THEN file[p] ELSE disk[p]]
          /\ synced' = [p \in Paths |-> IF p \in Passed(beaten) THEN got[p]
                                        ELSE IF p \in down THEN file[p]
                                        ELSE IF p \in Up(beaten) THEN cycle.walk[p]
                                        ELSE synced[p]]
          /\ remote' = (remote \ (Up(beaten) \cup down \cup Passed(beaten)))
                            \cup (cycle.late \ Passed(beaten))
          /\ absorbed' = (absorbed \ (Up(beaten) \cup down))
                            \cup {p \in Passed(beaten) : disk'[p] # synced'[p]}
          /\ stale' \in {FALSE, ~checkpoint /\ (Up(beaten) # {} \/ stale)}
          /\ pending_plan' = left \cup beaten
          /\ \E arrived \in SUBSET (events \cup down) :
                /\ events' = (events \cup down) \ arrived
                /\ self_writes' = [p \in Paths |-> IF p \in cycle.down THEN 0 ELSE None]
                /\ Observe(arrived, Passed(beaten))
  BY Zenon DEF Transfer
<1> DEFINE up == Up(beaten)
           passed == Passed(beaten)
<1>4. PICK file \in [down -> Versions], got \in [passed -> Versions] :
          /\ disk' = [p \in Paths |-> IF p \in down THEN file[p] ELSE disk[p]]
          /\ synced' = [p \in Paths |-> IF p \in passed THEN got[p]
                                        ELSE IF p \in down THEN file[p]
                                        ELSE IF p \in up THEN cycle.walk[p]
                                        ELSE synced[p]]
          /\ remote' = (remote \ (up \cup down \cup passed)) \cup (cycle.late \ passed)
          /\ absorbed' = (absorbed \ (up \cup down)) \cup {p \in passed : disk'[p] # synced'[p]}
          /\ stale' \in {FALSE, ~checkpoint /\ (up # {} \/ stale)}
          /\ pending_plan' = left \cup beaten
          /\ \E arrived \in SUBSET (events \cup down) :
                /\ events' = (events \cup down) \ arrived
                /\ self_writes' = [p \in Paths |-> IF p \in cycle.down THEN 0 ELSE None]
                /\ Observe(arrived, passed)
  BY <1>3, Zenon
<1>5. PICK arrived \in SUBSET (events \cup down) :
          /\ events' = (events \cup down) \ arrived
          /\ self_writes' = [p \in Paths |-> IF p \in cycle.down THEN 0 ELSE None]
          /\ Observe(arrived, passed)
  BY <1>4, Zenon
<1>6. /\ beaten \subseteq Paths /\ passed \subseteq Paths /\ up \subseteq Paths
      /\ \A p : p \in up <=> p \in sent /\ p \notin beaten
  BY <1>2, <1>3
<1>7. stale' \in BOOLEAN
  BY <1>4, Zenon
<1> HIDE DEF sent, down, held, since, Up, Passed, up, passed
<1>8. disk' \in [Paths -> Versions] /\ synced' \in [Paths -> Versions]
  BY <1>2, <1>4, <1>6 DEF TypeOK
<1>9. /\ remote' \subseteq Paths /\ events' \subseteq Paths /\ arrived \subseteq Paths
      /\ absorbed' \subseteq Paths
      /\ pending_plan' \subseteq Paths /\ left \subseteq pending_plan' /\ beaten \subseteq pending_plan'
  BY <1>2, <1>4, <1>5, <1>6 DEF TypeOK
<1>10. self_writes' \in [Paths -> 0..SELF_WRITE_GRACE \cup {None}]
  BY <1>5, DaemonAssumption
<1>11. /\ pending' \in [Paths -> Armed \cup {None}]
       /\ first' \in 0..batch \cup {None}
       /\ first' = None <=> \A p \in Paths : pending'[p] = None
       /\ missed' \subseteq Paths
       /\ \A p \in Paths : pending[p] # None => pending'[p] # None
       /\ \A p \in Paths : /\ p \in missed \cup passed \cup arrived
                           /\ disk'[p] # synced'[p]
                           => p \in missed' \/ pending'[p] # None
  BY <1>5, <1>6, <1>8, <1>9, ObserveFacts
<1>12. ASSUME NEW p \in Paths, disk'[p] # synced'[p],
              p \notin events' \cup missed' \cup pending_plan', pending'[p] = None
       PROVE  /\ p \notin events \cup missed /\ pending[p] = None
              /\ p \notin down
              /\ disk'[p] = disk[p]
              /\ synced'[p] = IF p \in sent THEN cycle.walk[p] ELSE synced[p]
  <2>1. p \notin missed \cup passed \cup arrived /\ pending[p] = None
    BY <1>11, <1>12
  <2>2. p \notin down
    BY <1>4, <1>12, <2>1
  <2>3. p \notin events
    BY <1>5, <1>12, <2>1
  <2>4. p \in up <=> p \in sent
    BY <1>6, <1>9, <1>12
  <2>5. QED
    BY <1>4, <2>1, <2>2, <2>3, <2>4
<1>13. Leaves(moved, mine, theirs)
  BY <1>12 DEF Leaves, sent, down
<1>14. QED
  BY <1>7, <1>8, <1>9, <1>10, <1>11, <1>13

\* What the user may have answered are conflicts of the cycle.
LEMMA AnswersInPlan ==
    ASSUME NEW s \in Answers
    PROVE  s \subseteq cycle.conflicts
BY DEF Answers

\* When every transfer went through, what still differs is tracked again.
LEMMA SuccessTracks ==
    ASSUME DaemonInv, CycleSucceeds
    PROVE  Tracked'
<1>1. PICK mine \in Answers, theirs \in Answers :
          Transfer(cycle.up \cup cycle.down, cycle.conflicts \ (mine \cup theirs),
                   mine, theirs, TRUE)
  BY DEF CycleSucceeds
<1>2. /\ cycle # None /\ cycle \in Cycle /\ TypeOK /\ CycleInv /\ Tracked
      /\ faults' = faults /\ stopped' = stopped
  BY DEF DaemonInv, CycleSucceeds, TypeOK
<1>3. mine \subseteq cycle.conflicts /\ theirs \subseteq cycle.conflicts
  BY AnswersInPlan
<1>4. /\ Leaves(cycle.up \cup cycle.down, mine, theirs)
      /\ cycle.conflicts \ (mine \cup theirs) \subseteq pending_plan'
  <2>1. cycle.conflicts \ (mine \cup theirs) \subseteq cycle.conflicts
    OBVIOUS
  <2>2. QED
    BY <1>1, <1>2, <1>3, <2>1, TransferFacts, TRUE \in BOOLEAN, Zenon
<1>5. SUFFICES ASSUME faults = 0, ~stopped, NEW p \in Paths, disk'[p] # synced'[p],
                      p \notin events' \cup missed' \cup pending_plan', pending'[p] = None
               PROVE  FALSE
  BY <1>2 DEF Tracked, Unsynced
<1>6. /\ p \notin events \cup missed /\ pending[p] = None
      /\ p \notin cycle.down \cup theirs
      /\ disk'[p] = disk[p]
      /\ synced'[p] = IF p \in cycle.up \cup mine THEN cycle.walk[p] ELSE synced[p]
  BY <1>4, <1>5 DEF Leaves
<1>7. disk[p] = cycle.walk[p]
  BY <1>2, <1>6 DEF CycleInv
<1>8. p \notin cycle.up \cup mine /\ synced'[p] = synced[p] /\ Unsynced(p)
  BY <1>5, <1>6, <1>7 DEF Unsynced
<1>9. p \in cycle.conflicts
  <2>1. CASE cycle.kept
    BY <1>2, <1>5, <1>6, <1>8, <2>1 DEF CycleInv, Tracked, InCycle
  <2>2. CASE ~cycle.kept
    BY <1>2, <1>7, <1>8, <2>2 DEF CycleInv, Unsynced
  <2>3. QED
    BY <2>1, <2>2
<1>10. QED
  BY <1>4, <1>5, <1>6, <1>8, <1>9

-----------------------------------------------------------------------------
(* The invariant, action by action                                         *)

\* Edit: the event makes up for the difference.
LEMMA EditKeeps ==
    ASSUME DaemonInv, NEW p \in Paths, Edit(p)
    PROVE  DaemonInv'
<1> USE DEF DaemonInv
<1>1. PICK v \in Versions : disk' = [disk EXCEPT ![p] = v]
  BY DEF Edit
<1>2. /\ events' = events \cup {p}
      /\ UNCHANGED <<synced, remote, stale, debounce, self_writes, pacing, health,
                     pending_plan, commands, cycle, stopped, missed, absorbed>>
  BY DEF Edit
<1>3. TypeOK'
  BY <1>1, <1>2 DEF TypeOK, debounce, pacing, health
<1>4. CycleInv'
  BY <1>1, <1>2 DEF TypeOK, CycleInv
<1>5. Tracked'
  BY <1>1, <1>2 DEF TypeOK, Tracked, Unsynced, InCycle, debounce, health
<1>6. QED
  BY <1>3, <1>4, <1>5

\* RemoteWrite: the base of the path stays, and the running cycle only takes
\* note of it.
LEMMA RemoteWriteKeeps ==
    ASSUME DaemonInv, NEW p \in Paths, RemoteWrite(p)
    PROVE  DaemonInv'
<1> USE DEF DaemonInv
<1>1. /\ stale' = TRUE
      /\ UNCHANGED <<disk, synced, events, debounce, self_writes, pacing, health,
                     pending_plan, commands, stopped, missed, absorbed>>
  BY DEF RemoteWrite
<1>2. CASE cycle = None
  <2>1. remote' = remote \cup {p} /\ cycle' = cycle
    BY <1>2 DEF RemoteWrite
  <2>2. TypeOK'
    BY <1>1, <2>1 DEF TypeOK, debounce, pacing, health
  <2>3. CycleInv' /\ Tracked'
    BY <1>1, <1>2, <2>1 DEF CycleInv, Tracked, Unsynced, InCycle, debounce, health
  <2>4. QED
    BY <2>2, <2>3
<1>3. CASE cycle # None
  <2>1. remote' = remote /\ cycle' = [cycle EXCEPT !.late = @ \cup {p}] /\ cycle \in Cycle
    BY <1>3 DEF RemoteWrite, TypeOK
  <2>2. /\ cycle' \in Cycle
        /\ cycle'.up = cycle.up /\ cycle'.down = cycle.down
        /\ cycle'.conflicts = cycle.conflicts
        /\ cycle'.walk = cycle.walk /\ cycle'.kept = cycle.kept
    BY <2>1 DEF Cycle
  <2>3. cycle' # None
    BY <2>2, NoneAssumption
  <2>4. TypeOK'
    BY <1>1, <2>1, <2>2 DEF TypeOK, debounce, pacing, health
  <2>5. CycleInv' /\ Tracked'
    BY <1>1, <1>3, <2>2, <2>3 DEF CycleInv, Tracked, Unsynced, InCycle, debounce, health
  <2>6. QED
    BY <2>4, <2>5
<1>4. QED
  BY <1>2, <1>3

\* Send: the channel keeps its bound.
LEMMA SendKeeps ==
    ASSUME DaemonInv, NEW command \in {"SyncNow", "Resolve", "Stop"}, Send(command)
    PROVE  DaemonInv'
<1> USE DEF DaemonInv, Send
<1>1. commands' \in Seq({"SyncNow", "Resolve", "Stop"}) /\ Len(commands') <= ChannelCapacity
  BY DaemonAssumption DEF TypeOK
<1>2. TypeOK'
  BY <1>1 DEF TypeOK, folder, debounce, pacing, health
<1>3. CycleInv' /\ Tracked'
  BY DEF CycleInv, Tracked, Unsynced, InCycle, folder, debounce, health
<1>4. QED
  BY <1>2, <1>3

\* A cycle that starts with a fresh plan takes up every path that differs; one
\* that starts with the kept plan leaves the other paths where they are tracked.
LEMMA StartKeeps ==
    ASSUME DaemonInv, cycle = None, NEW trigger \in Triggers, StartCycle(trigger),
           UNCHANGED <<disk, synced, events, self_writes, pending_plan, missed, stopped>>,
           faults' = faults,
           \/ \A p \in Paths : pending[p] # None => pending'[p] # None
           \/ trigger # "Resolve"
    PROVE  /\ cycle' \in Cycle /\ CycleInv' /\ Tracked'
           /\ stale' \in BOOLEAN /\ absorbed' \subseteq Paths
<1> USE DEF DaemonInv
<1>1. /\ cycle' \in Cycle
      /\ cycle' # None
      /\ cycle'.walk = disk
      /\ cycle'.kept \in BOOLEAN
      /\ cycle'.kept => trigger = "Resolve" /\ cycle'.conflicts = pending_plan
      /\ ~cycle'.kept => \A p \in Paths : Unsynced(p) => p \in cycle'.up \cup cycle'.conflicts
      /\ stale' \in BOOLEAN /\ absorbed' = {}
  BY StartFacts
<1>2. CycleInv'
  BY <1>1 DEF CycleInv, Unsynced
<1>3. Tracked'
  <2>1. CASE cycle'.kept
    BY <1>1, <2>1 DEF Tracked, Unsynced, InCycle
  <2>2. CASE ~cycle'.kept
    BY <1>1, <2>2 DEF Tracked, Unsynced, InCycle
  <2>3. QED
    BY <2>1, <2>2
<1>4. QED
  BY <1>1, <1>2, <1>3

\* HandleCommand: a command leaves the channel and stops the loop or starts a
\* cycle.
LEMMA HandleCommandKeeps ==
    ASSUME DaemonInv, HandleCommand
    PROVE  DaemonInv'
<1> USE DEF DaemonInv, HandleCommand, Selecting
<1>1. commands' \in Seq({"SyncNow", "Resolve", "Stop"}) /\ Len(commands') <= ChannelCapacity
  BY DaemonAssumption DEF TypeOK
<1>2. CASE Head(commands) = "Stop" /\ stopped' = TRUE /\ UNCHANGED <<cycle, stale, absorbed>>
  <2>1. TypeOK'
    BY <1>1, <1>2 DEF TypeOK, folder, debounce, pacing, health
  <2>2. CycleInv' /\ Tracked'
    BY <1>2 DEF CycleInv, Tracked
  <2>3. QED
    BY <2>1, <2>2
<1>3. CASE \E trigger \in Triggers : StartCycle(trigger) /\ UNCHANGED stopped
  <2>1. PICK trigger \in Triggers : StartCycle(trigger) /\ UNCHANGED stopped
    BY <1>3
  <2>2. /\ cycle' \in Cycle /\ CycleInv' /\ Tracked'
        /\ stale' \in BOOLEAN /\ absorbed' \subseteq Paths
    BY <2>1, StartKeeps DEF debounce, health
  <2>3. TypeOK'
    BY <1>1, <2>1, <2>2 DEF TypeOK, debounce, pacing, health
  <2>4. QED
    BY <2>2, <2>3
<1>4. QED
  BY <1>2, <1>3 DEF Triggers

\* Receive: the event is observed, or taken for a self write and noted.
LEMMA ReceiveKeeps ==
    ASSUME DaemonInv, NEW p \in Paths, Receive(p)
    PROVE  DaemonInv'
<1> USE DEF DaemonInv
<1>1. /\ cycle = None /\ UNCHANGED <<folder, self_writes, health, pending_plan, commands, cycle,
                                     stopped, absorbed>>
      /\ Observe({p}, {}) /\ events' = events \ {p} /\ Pace(TRUE, FALSE)
  BY DEF Receive, Selecting
<1>2. disk' = disk /\ synced' = synced /\ disk' \in [Paths -> Versions]
  BY <1>1 DEF folder, TypeOK
<1>3. /\ pending' \in [Paths -> Armed \cup {None}]
      /\ first' \in 0..batch \cup {None}
      /\ first' = None <=> \A q \in Paths : pending'[q] = None
      /\ missed' \subseteq Paths
      /\ \A q \in Paths : pending[q] # None => pending'[q] # None
      /\ \A q \in Paths : /\ q \in missed \cup {} \cup {p}
                          /\ disk'[q] # synced'[q]
                          => q \in missed' \/ pending'[q] # None
  BY <1>1, <1>2, ObserveFacts
<1>4. /\ activity' \in 0..active_window
      /\ polled' \in 0..poll_idle
      /\ poll_due' \in 0..Max({poll_active, poll_idle})
  BY <1>1, PaceType
<1>5. TypeOK'
  BY <1>1, <1>3, <1>4 DEF TypeOK, folder, health
<1>6. CycleInv'
  BY <1>1 DEF CycleInv
<1>7. Tracked'
  BY <1>1, <1>2, <1>3 DEF Tracked, Unsynced, InCycle, health
<1>8. QED
  BY <1>5, <1>6, <1>7

\* WakeLocal: what the debouncer held is in the fresh plan.
LEMMA WakeLocalKeeps ==
    ASSUME DaemonInv, WakeLocal
    PROVE  DaemonInv'
<1> USE DEF DaemonInv
<1>1. /\ cycle = None /\ take_all /\ StartCycle("Sync")
      /\ UNCHANGED <<disk, synced, remote, events, self_writes, pacing, health,
                     pending_plan, commands, stopped, missed>>
  BY DEF WakeLocal, Selecting
<1>2. /\ cycle' \in Cycle /\ CycleInv' /\ Tracked'
      /\ stale' \in BOOLEAN /\ absorbed' \subseteq Paths
  BY <1>1, StartKeeps DEF Triggers, health
<1>3. TypeOK'
  BY <1>1, <1>2 DEF TypeOK, take_all, pacing, health
<1>4. QED
  BY <1>2, <1>3

\* rearm keeps the debouncer's paths.
LEMMA RearmFacts ==
    ASSUME TypeOK, rearm
    PROVE  /\ pending' \in [Paths -> Armed \cup {None}]
           /\ \A p \in Paths : pending[p] # None <=> pending'[p] # None
           /\ first' = first
<1>1. \A p \in Paths : [age |-> 0, stat |-> disk[p]] \in Armed
  BY DaemonAssumption DEF Armed, TypeOK
<1>2. QED
  BY <1>1, NoneAssumption DEF rearm, Moved, TypeOK

\* WakePoll: the poll ends without a cycle, or starts one with a fresh plan.
LEMMA WakePollKeeps ==
    ASSUME DaemonInv, WakePoll
    PROVE  DaemonInv'
<1> USE DEF DaemonInv
<1>1. /\ cycle = None /\ rearm
      /\ UNCHANGED <<disk, synced, remote, events, self_writes, pending_plan,
                     commands, stopped, missed>>
  BY DEF WakePoll, Selecting
<1>2. PICK poll \in BOOLEAN : Pace(FALSE, poll)
  BY DEF WakePoll
<1>3. /\ activity' \in 0..active_window
      /\ polled' \in 0..poll_idle
      /\ poll_due' \in 0..Max({poll_active, poll_idle})
  BY <1>2, PaceType
<1>4. /\ pending' \in [Paths -> Armed \cup {None}]
      /\ \A p \in Paths : pending[p] # None <=> pending'[p] # None
      /\ first' = first
  BY <1>1, RearmFacts
<1>5. CASE StartCycle("Sync") /\ UNCHANGED health
  <2>1. /\ cycle' \in Cycle /\ CycleInv' /\ Tracked'
        /\ stale' \in BOOLEAN /\ absorbed' \subseteq Paths
    BY <1>1, <1>5, StartKeeps DEF Triggers, health
  <2>2. TypeOK'
    BY <1>1, <1>3, <1>4, <1>5, <2>1 DEF TypeOK, health
  <2>3. QED
    BY <2>1, <2>2
<1>6. CASE /\ UNCHANGED <<stale, cycle, absorbed>>
           /\ suppressed' \in 0..backoff_max /\ failures' \in Nat /\ faults' \in 0..MaxFaults
           /\ faults' = 0 => faults = 0
  <2>1. TypeOK'
    BY <1>1, <1>3, <1>4, <1>6 DEF TypeOK
  <2>2. CycleInv' /\ Tracked'
    BY <1>1, <1>4, <1>6 DEF CycleInv, Tracked, Unsynced, InCycle
  <2>3. QED
    BY <2>1, <2>2
<1>7. \/ StartCycle("Sync") /\ UNCHANGED health
      \/ UNCHANGED <<stale, cycle, health, absorbed>>
      \/ /\ Fault /\ \E fatal \in BOOLEAN : report_failure(fatal)
         /\ UNCHANGED <<stale, cycle, absorbed>>
  BY DEF WakePoll
<1>8. ASSUME Fault, \E fatal \in BOOLEAN : report_failure(fatal)
      PROVE  /\ suppressed' \in 0..backoff_max /\ failures' \in Nat /\ faults' \in 0..MaxFaults
             /\ faults' # 0
  BY <1>8, FailureType, DaemonAssumption DEF Fault, TypeOK
<1>9. ASSUME UNCHANGED health
      PROVE  /\ suppressed' \in 0..backoff_max /\ failures' \in Nat /\ faults' \in 0..MaxFaults
             /\ faults' = faults
  BY <1>9 DEF health, TypeOK
<1>10. QED
  BY <1>5, <1>6, <1>7, <1>8, <1>9

\* CycleSucceeds: nothing that differs is forgotten.
LEMMA CycleSucceedsKeeps ==
    ASSUME DaemonInv, CycleSucceeds
    PROVE  DaemonInv'
<1> USE DEF DaemonInv
<1>1. PICK mine \in Answers, theirs \in Answers :
          Transfer(cycle.up \cup cycle.down, cycle.conflicts \ (mine \cup theirs),
                   mine, theirs, TRUE)
  BY DEF CycleSucceeds
<1>2. /\ cycle # None /\ cycle' = None /\ failures' = 0 /\ Pace(TRUE, FALSE)
      /\ UNCHANGED <<suppressed, faults, commands, stopped>>
  BY DEF CycleSucceeds
<1>3. mine \subseteq cycle.conflicts /\ theirs \subseteq cycle.conflicts
  BY AnswersInPlan
<1>4. cycle.conflicts \ (mine \cup theirs) \subseteq cycle.conflicts
  OBVIOUS
<1>5. /\ disk' \in [Paths -> Versions] /\ synced' \in [Paths -> Versions]
      /\ remote' \subseteq Paths /\ stale' \in BOOLEAN
      /\ absorbed' \subseteq Paths /\ pending_plan' \subseteq Paths
      /\ events' \subseteq Paths
      /\ self_writes' \in [Paths -> 0..SELF_WRITE_GRACE \cup {None}]
      /\ pending' \in [Paths -> Armed \cup {None}]
      /\ first' \in 0..batch \cup {None}
      /\ first' = None <=> \A p \in Paths : pending'[p] = None
      /\ missed' \subseteq Paths
  BY <1>1, <1>2, <1>3, <1>4, TransferFacts, TRUE \in BOOLEAN, Zenon
<1>6. /\ activity' \in 0..active_window
      /\ polled' \in 0..poll_idle
      /\ poll_due' \in 0..Max({poll_active, poll_idle})
  BY <1>2, PaceType
<1>7. TypeOK'
  BY <1>2, <1>5, <1>6 DEF TypeOK
<1>8. QED
  BY <1>2, <1>7, SuccessTracks DEF CycleInv

\* CycleFailsPartly: the state stays well-typed; a failure has happened.
LEMMA CycleFailsPartlyKeeps ==
    ASSUME DaemonInv, CycleFailsPartly
    PROVE  DaemonInv'
<1> USE DEF DaemonInv
<1>1. PICK moved \in SUBSET (cycle.up \cup cycle.down), fatal \in BOOLEAN, answered \in Answers :
          /\ \E mine \in SUBSET answered : \E theirs \in SUBSET (answered \ mine) :
                Transfer(moved, cycle.conflicts \ answered, mine, theirs, ~fatal)
          /\ IF fatal THEN report_failure(TRUE) ELSE failures' = 0 /\ UNCHANGED suppressed
  BY DEF CycleFailsPartly
<1>2. /\ cycle # None /\ cycle' = None /\ Fault /\ Pace(TRUE, FALSE)
      /\ UNCHANGED <<commands, stopped>>
  BY DEF CycleFailsPartly
<1>3. PICK mine \in SUBSET answered, theirs \in SUBSET answered :
          Transfer(moved, cycle.conflicts \ answered, mine, theirs, ~fatal)
  BY <1>1
<1>4. /\ mine \subseteq cycle.conflicts /\ theirs \subseteq cycle.conflicts
      /\ cycle.conflicts \ answered \subseteq cycle.conflicts
  BY AnswersInPlan
<1>5. /\ disk' \in [Paths -> Versions] /\ synced' \in [Paths -> Versions]
      /\ remote' \subseteq Paths /\ stale' \in BOOLEAN
      /\ absorbed' \subseteq Paths /\ pending_plan' \subseteq Paths
      /\ events' \subseteq Paths
      /\ self_writes' \in [Paths -> 0..SELF_WRITE_GRACE \cup {None}]
      /\ pending' \in [Paths -> Armed \cup {None}]
      /\ first' \in 0..batch \cup {None}
      /\ first' = None <=> \A p \in Paths : pending'[p] = None
      /\ missed' \subseteq Paths
  BY <1>2, <1>3, <1>4, TransferFacts, (~fatal) \in BOOLEAN, Zenon
<1>6. /\ activity' \in 0..active_window
      /\ polled' \in 0..poll_idle
      /\ poll_due' \in 0..Max({poll_active, poll_idle})
  BY <1>2, PaceType
<1>7. suppressed' \in 0..backoff_max /\ failures' \in Nat
  <2>1. CASE fatal
    <3>1. report_failure(TRUE)
      BY <1>1, <2>1
    <3>2. QED
      BY <3>1, FailureType
  <2>2. CASE ~fatal
    BY <1>1, <2>2 DEF TypeOK
  <2>3. QED
    BY <2>1, <2>2
<1>8. faults' \in 0..MaxFaults /\ faults' # 0
  BY <1>2, DaemonAssumption DEF Fault, TypeOK
<1>9. TypeOK'
  BY <1>2, <1>5, <1>6, <1>7, <1>8 DEF TypeOK
<1>10. QED
  BY <1>2, <1>8, <1>9 DEF CycleInv, Tracked

\* CycleErrors: likewise.
LEMMA CycleErrorsKeeps ==
    ASSUME DaemonInv, CycleErrors
    PROVE  DaemonInv'
<1> USE DEF DaemonInv
<1>1. /\ cycle # None /\ cycle \in Cycle /\ cycle' = None /\ Fault
      /\ UNCHANGED <<pending_plan, commands, stopped>>
  BY DEF CycleErrors, TypeOK
<1>2. PICK written \in SUBSET (cycle.down \cup cycle.conflicts) :
        \E file \in [written -> Versions] :
          /\ disk' = [p \in Paths |-> IF p \in written THEN file[p] ELSE disk[p]]
          /\ synced' = [p \in Paths |-> IF p \in written THEN file[p] ELSE synced[p]]
          /\ remote' = (remote \ written) \cup cycle.late
          /\ absorbed' = absorbed \ written
          /\ UNCHANGED self_writes
          /\ \E arrived \in SUBSET (events \cup written) :
                /\ events' = (events \cup written) \ arrived
                /\ Observe(arrived, {})
  <2>1. ASSUME NEW down, NEW conflicts
        PROVE  {} \in SUBSET (down \cup conflicts)
    OBVIOUS
  <2>2. QED
    BY <2>1, Zenon DEF CycleErrors
<1>3. PICK active : Pace(active, FALSE)
  BY DEF CycleErrors
<1>4. PICK fatal \in BOOLEAN : report_failure(fatal)
  BY DEF CycleErrors
<1>5. /\ disk' \in [Paths -> Versions] /\ synced' \in [Paths -> Versions]
      /\ remote' \subseteq Paths /\ absorbed' \subseteq Paths /\ events' \subseteq Paths
      /\ self_writes' = self_writes
      /\ pending' \in [Paths -> Armed \cup {None}]
      /\ first' \in 0..batch \cup {None}
      /\ first' = None <=> \A q \in Paths : pending'[q] = None
      /\ missed' \subseteq Paths
  <2>1. written \subseteq Paths /\ cycle.late \subseteq Paths
    BY <1>1, <1>2 DEF Cycle
  <2>2. PICK arrived \in SUBSET (events \cup written) :
            events' = (events \cup written) \ arrived /\ Observe(arrived, {})
    BY <1>2
  <2>3. disk' \in [Paths -> Versions] /\ synced' \in [Paths -> Versions]
    BY <1>2, <2>1 DEF TypeOK
  <2>4. /\ remote' \subseteq Paths /\ absorbed' \subseteq Paths /\ events' \subseteq Paths
        /\ arrived \subseteq Paths /\ {} \subseteq Paths /\ self_writes' = self_writes
    BY <1>2, <2>1, <2>2 DEF TypeOK
  <2>5. QED
    BY <2>2, <2>3, <2>4, ObserveFacts
<1>6. /\ activity' \in 0..active_window
      /\ polled' \in 0..poll_idle
      /\ poll_due' \in 0..Max({poll_active, poll_idle})
  BY <1>3, PaceType
<1>7. suppressed' \in 0..backoff_max /\ failures' \in Nat
  BY <1>4, FailureType
<1>8. faults' \in 0..MaxFaults /\ faults' # 0
  BY <1>1, DaemonAssumption DEF Fault, TypeOK
<1>9. stale' \in BOOLEAN
  <2>1. stale \in BOOLEAN /\ stale' \in {stale, stale \/ ~cycle.kept}
    BY DEF CycleErrors, TypeOK
  <2>2. QED
    BY <2>1, Zenon
<1>10. TypeOK'
  BY <1>1, <1>5, <1>6, <1>7, <1>8, <1>9 DEF TypeOK
<1>11. QED
  BY <1>1, <1>8, <1>10 DEF CycleInv, Tracked

\* Tick: the clocks move within their caps and the debouncer keeps its paths.
LEMMA TickKeeps ==
    ASSUME DaemonInv, Tick
    PROVE  DaemonInv'
<1> USE DEF DaemonInv
<1>1. /\ first' = Older(first, batch)
      /\ pending' = [p \in Paths |-> IF pending[p] = None THEN None
                                     ELSE [pending[p] EXCEPT !.age = Older(@, quiet)]]
      /\ self_writes' = [p \in Paths |-> Older(self_writes[p], SELF_WRITE_GRACE)]
      /\ activity' = Older(activity, active_window)
      /\ polled' = Older(polled, poll_idle)
      /\ poll_due' = Ahead(poll_due, 1)
      /\ suppressed' = Ahead(suppressed, 1)
      /\ UNCHANGED <<folder, events, failures, faults, pending_plan, commands, cycle,
                     stopped, missed, absorbed>>
  BY DEF Tick
<1>2. {batch, quiet, SELF_WRITE_GRACE, active_window, poll_idle} \subseteq Nat
  BY DaemonAssumption
<1>3. first' \in 0..batch \cup {None} /\ (first = None <=> first' = None)
  BY <1>1, <1>2, OlderType, NoneAssumption DEF TypeOK, Older
<1>4. \A p \in Paths : self_writes'[p] \in 0..SELF_WRITE_GRACE \cup {None}
  BY <1>1, <1>2, OlderType, NoneAssumption DEF TypeOK, Older
<1>5. activity' \in 0..active_window /\ polled' \in 0..poll_idle
  BY <1>1, <1>2, OlderType DEF TypeOK
<1>6. poll_due' \in 0..Max({poll_active, poll_idle}) /\ suppressed' \in 0..backoff_max
  <2>1. Max({poll_active, poll_idle}) \in Nat /\ backoff_max \in Nat
    BY MaxOfTwo, DaemonAssumption
  <2>2. QED
    BY <1>1, <2>1 DEF TypeOK, Ahead
<1>7. ASSUME NEW p \in Paths
      PROVE  /\ pending'[p] \in Armed \cup {None}
             /\ pending[p] = None <=> pending'[p] = None
  <2>1. CASE pending[p] = None
    BY <1>1, <2>1
  <2>2. CASE pending[p] # None
    <3>1. PICK age \in 0..quiet, stat \in Versions : pending[p] = [age |-> age, stat |-> stat]
      BY <2>2 DEF TypeOK, Armed
    <3>2. pending'[p] = [pending[p] EXCEPT !.age = Older(@, quiet)]
      BY <1>1, <2>2
    <3>3. pending'[p] = [age |-> Older(age, quiet), stat |-> stat]
      BY <3>1, <3>2
    <3>4. pending'[p] \in Armed
      BY <1>2, <3>3, OlderType DEF Armed
    <3>5. QED
      BY <2>2, <3>4, NoneAssumption
  <2>3. QED
    BY <2>1, <2>2
<1>8. pending' \in [Paths -> Armed \cup {None}]
  BY <1>1, <1>7
<1>9. self_writes' \in [Paths -> 0..SELF_WRITE_GRACE \cup {None}]
  BY <1>1, <1>4
<1>10. TypeOK'
  BY <1>1, <1>3, <1>5, <1>6, <1>7, <1>8, <1>9 DEF TypeOK, folder
<1>11. CycleInv' /\ Tracked'
  BY <1>1, <1>7 DEF CycleInv, Tracked, Unsynced, InCycle, folder
<1>12. QED
  BY <1>10, <1>11

-----------------------------------------------------------------------------
(* Theorems                                                                *)

\* The daemon starts in the invariant: what differs is noted as missed.
LEMMA DaemonInit == Init => DaemonInv
<1> SUFFICES ASSUME Init PROVE DaemonInv
  OBVIOUS
<1>1. interval(0) \in 0..Max({poll_active, poll_idle})
  BY IntervalType, MaxOfTwo, DaemonAssumption
<1>2. TypeOK
  <2>1. /\ disk \in [Paths -> Versions] /\ synced \in [Paths -> Versions]
        /\ remote \subseteq Paths /\ stale \in BOOLEAN /\ stopped \in BOOLEAN
        /\ events \subseteq Paths /\ pending_plan \subseteq Paths /\ missed \subseteq Paths
        /\ absorbed \subseteq Paths /\ cycle \in Cycle \cup {None}
    BY DEF Init
  <2>2. /\ first \in 0..batch \cup {None}
        /\ pending \in [Paths -> Armed \cup {None}]
        /\ first = None <=> \A p \in Paths : pending[p] = None
        /\ self_writes \in [Paths -> 0..SELF_WRITE_GRACE \cup {None}]
    BY DEF Init
  <2>3. /\ suppressed \in 0..backoff_max /\ failures \in Nat /\ faults \in 0..MaxFaults
        /\ activity \in 0..active_window /\ polled \in 0..poll_idle
    BY DaemonAssumption DEF Init
  <2>4. poll_due \in 0..Max({poll_active, poll_idle})
    BY <1>1 DEF Init
  <2>5. commands \in Seq({"SyncNow", "Resolve", "Stop"}) /\ Len(commands) <= ChannelCapacity
    BY DaemonAssumption DEF Init
  <2>6. QED
    BY <2>1, <2>2, <2>3, <2>4, <2>5 DEF TypeOK
<1>3. CycleInv /\ Tracked
  BY DEF Init, CycleInv, Tracked, Unsynced
<1>4. QED
  BY <1>2, <1>3 DEF DaemonInv

\* Every step of the daemon and of the world around it keeps the invariant.
LEMMA DaemonStep == DaemonInv /\ [Next]_vars => DaemonInv'
<1> SUFFICES ASSUME DaemonInv, [Next]_vars PROVE DaemonInv'
  OBVIOUS
<1>1. ASSUME NEW p \in Paths, Edit(p) \/ RemoteWrite(p) PROVE DaemonInv'
  BY <1>1, EditKeeps, RemoteWriteKeeps
<1>2. ASSUME NEW command \in {"SyncNow", "Resolve", "Stop"}, Send(command) PROVE DaemonInv'
  BY <1>2, SendKeeps
<1>3. CASE Loop
  BY <1>3, HandleCommandKeeps, WakeLocalKeeps, WakePollKeeps, ReceiveKeeps DEF Loop
<1>4. CASE CycleSucceeds \/ CycleFailsPartly \/ CycleErrors
  BY <1>4, CycleSucceedsKeeps, CycleFailsPartlyKeeps, CycleErrorsKeeps
<1>5. CASE Tick
  BY <1>5, TickKeeps
<1>6. CASE UNCHANGED vars
  <2>1. TypeOK'
    BY <1>6 DEF DaemonInv, TypeOK, vars, folder, debounce, pacing, health
  <2>2. CycleInv' /\ Tracked'
    BY <1>6 DEF DaemonInv, CycleInv, Tracked, Unsynced, InCycle, vars, folder, debounce, health
  <2>3. QED
    BY <2>1, <2>2 DEF DaemonInv
<1>7. QED
  BY <1>1, <1>2, <1>3, <1>4, <1>5, <1>6 DEF Next

\* The daemon's state is well-typed for every setting: the batch window is
\* open exactly while a path is pending, the backoff stays under its cap and
\* the command channel within its capacity.
THEOREM DaemonTypes == Spec => []TypeOK
<1>1. DaemonInv => TypeOK
  BY DEF DaemonInv
<1>2. QED
  BY DaemonInit, DaemonStep, <1>1, PTL DEF Spec

\* "Anything else that arrived during the cycle stays pending": for any number
\* of paths, an edit that the server does not have is never lost track of
\* before something fails.
THEOREM EditsTracked == Spec => []Tracked
<1>1. DaemonInv => Tracked
  BY DEF DaemonInv
<1>2. QED
  BY DaemonInit, DaemonStep, <1>1, PTL DEF Spec
=============================================================================
