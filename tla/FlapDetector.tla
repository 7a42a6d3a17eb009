---------------------------- MODULE FlapDetector ----------------------------
(***************************************************************************)
(* The detector of flapping routes.  BGP sessions report the path of a     *)
(* prefix; the detector remembers, per prefix, when the path changed       *)
(* within a sliding window, opens an event in the database when it changed *)
(* Threshold times, closes the event when the prefix has been quiet, and   *)
(* forgets prefixes that have not changed for a long time.                 *)
(*                                                                         *)
(* Time stamps are kept as ages.  All that matters of a path hash is       *)
(* whether it differs from the last one.  The detector is one task: its    *)
(* loop takes a change or, when none came for Check, a tick.  The counts    *)
(* stored with an event and closed events are left out.                    *)
(***************************************************************************)
EXTENDS Naturals, Sequences, SequencesExt

CONSTANTS
    Prefix,
    NoTracker,
    Check,        \* CHECK_INTERVAL_SECS
    Window,       \* DEFAULT_WINDOW_SECS
    Threshold,    \* DEFAULT_CHANGE_THRESHOLD
    Resolve,      \* DEFAULT_RESOLVE_AFTER_SECS
    Ttl,          \* TRACKER_TTL_SECS
    MaxChanges,   \* bound: changes of a prefix within a window
    MaxFaults     \* bound: restarts and database errors

ASSUME PeriodAssumption ==
    /\ Check \in Nat \ {0} /\ Window \in Nat /\ Threshold \in Nat \ {0, 1}
    /\ Resolve \in Nat /\ Ttl \in Nat
    /\ Window <= Resolve /\ Resolve <= Ttl
ASSUME FaultAssumption == MaxChanges \in Nat /\ MaxFaults \in Nat

VARIABLES
    tracker,   \* ages of the changes of each prefix, newest last
    active,    \* ages (since detection) of the active events of a prefix
    timer,     \* how long the loop has been waiting
    faults,
    (* history, not part of the program *)
    log,       \* ages of the changes of each prefix within the window
    quiet,     \* age of its last change
    forgotten  \* the process was restarted since its last change

program == <<tracker, active, timer, faults>>
history == <<log, quiet, forgotten>>
vars == <<program, history>>

\* Ages are counted to one more than the longest period.
Age == 0 .. Ttl + 1

ASSUME NilAssumption == NoTracker \notin Seq(Age)

Init ==
    /\ tracker = [p \in Prefix |-> NoTracker]
    /\ active = [p \in Prefix |-> <<>>]
    /\ timer = 0
    /\ faults = 0
    /\ log = [p \in Prefix |-> <<>>]
    /\ quiet = [p \in Prefix |-> Ttl + 1]
    /\ forgotten = [p \in Prefix |-> FALSE]

Older(age) == IF age > Ttl THEN age ELSE age + 1
AllOlder(ages) == [i \in DOMAIN ages |-> Older(ages[i])]

\* The ages that are kept, in their order.  (SelectSeq would say the same; of a
\* function the lemmas of FlapProofs can be proved.)
Retain(ages, kept) ==
    LET upTo[i \in 0 .. Len(ages)] ==
          IF i = 0 THEN <<>>
          ELSE IF ages[i] \in kept THEN Append(upTo[i - 1], ages[i])
          ELSE upTo[i - 1]
    IN  upTo[Len(ages)]

Within(ages, period) == Retain(ages, 0 .. period)

\* The loop waits for at most Check before it takes the tick.  Every path
\* received starts the wait anew.
Tock ==
    /\ timer < Check
    /\ timer' = timer + 1
    /\ tracker' = [p \in Prefix |-> IF tracker[p] = NoTracker THEN NoTracker
                                    ELSE AllOlder(tracker[p])]
    /\ active' = [p \in Prefix |-> AllOlder(active[p])]
    /\ log' = [p \in Prefix |-> Within(AllOlder(log[p]), Window)]
    /\ quiet' = [p \in Prefix |-> Older(quiet[p])]
    /\ UNCHANGED <<faults, forgotten>>

-----------------------------------------------------------------------------
(* Changes *)

Changed(p) ==
    /\ log' = [log EXCEPT ![p] = Append(@, 0)]
    /\ quiet' = [quiet EXCEPT ![p] = 0]
    /\ forgotten' = [forgotten EXCEPT ![p] = FALSE]

\* Mutant: changes that have left the window are still counted.
PushUnpruned(ages) == Append(ages, 0)

\* The change is noted and those outside of the window are dropped.
Push(ages) == Within(Append(ages, 0), Window)

\* A prefix without a tracker: its first path counts as a change.
FirstSeen(p) ==
    /\ Len(log[p]) < MaxChanges
    /\ tracker[p] = NoTracker
    /\ tracker' = [tracker EXCEPT ![p] = <<0>>]
    /\ timer' = 0
    /\ Changed(p)
    /\ UNCHANGED <<active, faults>>

\* The path is the one already known.  The wait for the tick starts anew.
SamePath(p) ==
    /\ tracker[p] # NoTracker
    /\ timer' = 0
    /\ UNCHANGED <<tracker, active, faults, history>>

\* Mutant: an event is created whether or not one is active.
ReportAlways(events) == Append(events, 0)

\* The active event gets the new count, or a new event is opened.
Report(events) == IF events = <<>> THEN <<0>> ELSE events

NewPath(p) ==
    /\ Len(log[p]) < MaxChanges
    /\ tracker[p] # NoTracker
    /\ tracker' = [tracker EXCEPT ![p] = Push(@)]
    /\ active' = IF Len(tracker'[p]) >= Threshold
                 THEN [active EXCEPT ![p] = Report(@)]
                 ELSE active
    /\ timer' = 0
    /\ Changed(p)
    /\ UNCHANGED faults

-----------------------------------------------------------------------------
(* The tick *)

\* Mutant: events without a tracker wait for one.
ExpiredIfTracked(p, age) ==
    tracker[p] # NoTracker /\ Last(tracker[p]) > Resolve

\* Mutant: the age of the event decides, not the last change.
ExpiredByAge(p, age) == age > Resolve

\* The time of the last change decides, or the time of the detection when
\* the prefix is not tracked.
Expired(p, age) ==
    IF tracker[p] # NoTracker THEN Last(tracker[p]) > Resolve
                              ELSE age > Resolve

\* Mutant: nothing is resolved while any prefix is flapping.
StillActiveWhileBusy(p) ==
    IF \E q \in Prefix : tracker[q] # NoTracker /\ Last(tracker[q]) <= Resolve
    THEN active[p]
    ELSE Retain(active[p], {age \in Age : ~Expired(p, age)})

StillActive(p) == Retain(active[p], {age \in Age : ~Expired(p, age)})

\* Mutant: the changes are forgotten, not the tracker.
EvictNothingLeft ==
    tracker' = [p \in Prefix |->
        IF tracker[p] # NoTracker /\ Last(tracker[p]) > Ttl THEN <<>>
                                                            ELSE tracker[p]]

Evict ==
    tracker' = [p \in Prefix |->
        IF tracker[p] # NoTracker /\ Last(tracker[p]) > Ttl THEN NoTracker
                                                            ELSE tracker[p]]

\* resolve_stale, then evict_trackers.
Tick ==
    /\ timer = Check
    /\ active' = [p \in Prefix |-> StillActive(p)]
    /\ Evict
    /\ timer' = 0
    /\ UNCHANGED <<faults, history>>

-----------------------------------------------------------------------------
(* What can fail *)

Fail == faults < MaxFaults /\ faults' = faults + 1

\* The event is neither found nor stored; the change has been noted.
ReportFails(p) ==
    /\ Fail
    /\ Len(log[p]) < MaxChanges
    /\ tracker[p] # NoTracker
    /\ tracker' = [tracker EXCEPT ![p] = Push(@)]
    /\ Len(tracker'[p]) >= Threshold
    /\ timer' = 0
    /\ Changed(p)
    /\ UNCHANGED active

\* resolve_stale stops at an error; the trackers are evicted all the same.
TickFails ==
    /\ Fail
    /\ timer = Check
    /\ \E done \in SUBSET Prefix :
         active' = [p \in Prefix |-> IF p \in done THEN StillActive(p)
                                                   ELSE active[p]]
    /\ Evict
    /\ timer' = 0
    /\ UNCHANGED history

\* The trackers are lost, the events are not.
Restart ==
    /\ Fail
    /\ tracker' = [p \in Prefix |-> NoTracker]
    /\ timer' = 0
    /\ forgotten' = [p \in Prefix |-> TRUE]
    /\ UNCHANGED <<active, log, quiet>>

Next ==
    \/ Tock \/ Tick \/ TickFails \/ Restart
    \/ \E p \in Prefix :
         FirstSeen(p) \/ SamePath(p) \/ NewPath(p) \/ ReportFails(p)

\* Time passes and the loop runs; no path has to change.
Spec == Init /\ [][Next]_vars /\ WF_vars(Tock) /\ WF_vars(Tick)

-----------------------------------------------------------------------------
(* Properties *)

TypeOK ==
    /\ \A p \in Prefix :
         \/ tracker[p] = NoTracker
         \/ tracker[p] \in Seq(Age) /\ tracker[p] # <<>>
    /\ \A p \in Prefix : active[p] \in Seq(Age) /\ log[p] \in Seq(0 .. Window)
    /\ timer \in 0 .. Check
    /\ faults \in 0 .. MaxFaults
    /\ quiet \in [Prefix -> Age]
    /\ forgotten \in [Prefix -> BOOLEAN]

\* A prefix has at most one active event, across restarts and errors.
OneEventPerPrefix == \A p \in Prefix : Len(active[p]) <= 1

\* No false alarm: an event is opened only when the path of the prefix was
\* noted as changed Threshold times within the window (the first path seen
\* after a restart or an eviction is noted as a change).
NoFalseAlarm ==
    [][\A p \in Prefix :
         Len(active'[p]) > Len(active[p]) => Len(log'[p]) >= Threshold]_vars

\* No early all-clear: an event is closed only when the prefix has been quiet
\* for longer than Resolve, or a restart lost its last change.
NoEarlyAllClear ==
    [][\A p \in Prefix :
         Len(active'[p]) < Len(active[p]) =>
            quiet[p] > Resolve \/ forgotten[p]]_vars

ChangeNoted(p) == FirstSeen(p) \/ NewPath(p) \/ ReportFails(p)
Reported(p) == ChangeNoted(p) \/ SamePath(p)
Silence == <>[][\A p \in Prefix : ~Reported(p)]_vars

\* When no path is reported any more, every event is closed in the end, also
\* those of prefixes whose tracker a restart has removed.
QuietIsResolved == Silence => <>[](\A p \in Prefix : active[p] = <<>>)

\* While other prefixes go on flapping, and its own path may be repeated, the
\* event of a prefix that has stopped changing is closed, if only the traffic
\* leaves a gap of Check for a tick now and then.  (It need not: see Tock.)
CalmIsResolved ==
    \A p \in Prefix :
        /\ <>[][~ChangeNoted(p)]_vars
        /\ []<><<Tick>>_vars
        => <>[](active[p] = <<>>)

=============================================================================
