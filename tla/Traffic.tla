------------------------------- MODULE Traffic -------------------------------
(***************************************************************************)
(* The traffic of the VPN container, attributed to the saved connection    *)
(* (src/server/gluetun/state.ts, docker/observer.ts, docker/               *)
(* observerProxy.ts, docker/association.ts, db.ts, traffic/daily.ts).      *)
(* One direction of the traffic stands for both.                           *)
(*                                                                         *)
(* A poll awaits three answers of the observer.  Meanwhile the owner may   *)
(* edit the connection, and the container may be restarted or replaced.    *)
(***************************************************************************)
EXTENDS Integers, FiniteSets, FiniteSetsExt

CONSTANTS
  Urls,         \* addresses of control APIs
  Containers,   \* ids of containers that look like Gluetun
  Day,          \* units of time in a day
  Keep,         \* days that are kept
  GapAfter,     \* an interval longer than this is a gap in the samples
  Tolerance,    \* how far ahead of the clock a sample may be
  MaxClock, MaxBytes,
  MaxTroubles   \* bounds: the last of restarts and clocks that are set back

ASSUME TrafficAssumption ==
  /\ {Day, Keep} \subseteq Nat \ {0} /\ {GapAfter, Tolerance} \subseteq Nat
  /\ {MaxClock, MaxBytes, MaxTroubles} \subseteq Nat
  /\ "none" \notin Containers

VARIABLES
  clock,     \* of the host, which both processes read
  backs,     \* how often it was set back
  there,     \* containers that Docker lists and are running
  at,        \* at[c] : the address under which c is reached
  rx,        \* rx[c] : its counter
  moved,     \* moved[c] : all it ever received (history)
  restarts,  \* how often a container was restarted (history)
  row,       \* address of the saved connection, or NoUrl
  sample,    \* traffic_state, or NoSample; with the address it was read for
             \* and what was moved until then (history)
  days,      \* traffic_daily
  quality,   \* trafficQuality
  identity,  \* trafficIdentity: what the last sample is attributed to
  poll,      \* the poll under way
  owed       \* what the deltas should add up to, and what they do (history)

env == <<clock, backs, there, at, rx, moved, restarts>>
trafficVars == <<env, row, sample, days, quality, identity, poll, owed>>

NoUrl == "none"
NoSample == [id |-> "none"]
IdlePoll == [pc |-> "idle"]
DayOf(t) == t \div Day
AllDays == 0..DayOf(MaxClock)

TrafficInit ==
  /\ clock = 0 /\ backs = 0
  /\ there \in {{c} : c \in Containers} /\ at \in [Containers -> Urls]
  /\ rx = [c \in Containers |-> 0] /\ moved = rx /\ restarts = 0
  /\ row = NoUrl /\ sample = NoSample /\ days = [d \in AllDays |-> 0]
  /\ quality = "unknown" /\ identity = NoUrl /\ poll = IdlePoll
  /\ owed = [fair |-> 0, counted |-> 0]
-----------------------------------------------------------------------------
\* The world: bytes are received, containers restart and are replaced.
Moves(c) == /\ c \in there /\ MapThenSumSet(LAMBDA d : moved[d], Containers) < MaxBytes
            /\ rx' = [rx EXCEPT ![c] = @ + 1]
            /\ moved' = [moved EXCEPT ![c] = @ + 1]
            /\ UNCHANGED <<clock, backs, there, at, restarts>>
Restarts(c, u) == /\ c \in there /\ backs + restarts < MaxTroubles
                  /\ restarts' = restarts + 1
                  /\ rx' = [rx EXCEPT ![c] = 0] /\ at' = [at EXCEPT ![c] = u]
                  /\ UNCHANGED <<clock, backs, there, moved>>
Replaced(cs) == /\ there' = cs /\ cs # there
                /\ UNCHANGED <<clock, backs, at, rx, moved, restarts>>
Passes == /\ clock < MaxClock /\ clock' = clock + 1
          /\ UNCHANGED <<backs, there, at, rx, moved, restarts>>
SetBack == /\ backs + restarts < MaxTroubles /\ backs' = backs + 1
           /\ clock > 0 /\ clock' = clock - 1
           /\ UNCHANGED <<there, at, rx, moved, restarts>>
World == /\ \/ \E c \in Containers : Moves(c) \/ \E u \in Urls : Restarts(c, u)
            \/ \E cs \in SUBSET Containers : Replaced(cs)
            \/ Passes \/ SetBack
         /\ UNCHANGED <<row, sample, days, quality, identity, poll, owed>>

\* PUT of a connection
EditAddress(u) == /\ row' = u
           /\ UNCHANGED <<env, sample, days, quality, identity, poll, owed>>
-----------------------------------------------------------------------------
\* gluetunContainer(): the one container that matches; several are an error.
Picked(c) == there = {c}

\* matchDockerEndpoint(): the address leads to that container and no other.
Matches(u, c) == at[c] = u

\* The poll throws: nothing is attributed to anything.
Throws == /\ poll' = IdlePoll /\ identity' = NoUrl
          /\ UNCHANGED <<sample, days, quality, owed>>

\* pollTraffic() reads the connection.  The timer skips while a poll runs.
PollBegin == /\ poll = IdlePoll
             /\ IF row = NoUrl THEN Throws
                ELSE /\ poll' = [pc |-> "inspecting", url |-> row]
                     /\ UNCHANGED <<sample, days, quality, identity, owed>>
             /\ UNCHANGED <<env, row>>

\* observeGluetun(): the container is listed, inspected and associated.
PollInspects ==
  /\ poll.pc = "inspecting"
  /\ \E c \in Containers :
       /\ Picked(c) /\ Matches(poll.url, c)
       /\ poll' = [pc |-> "counting", url |-> poll.url, id |-> c]
  /\ UNCHANGED <<env, row, sample, days, quality, identity, owed>>

\* Mutant of Same: whatever container there is now is counted.
SameAny(c, id) == TRUE
\* observeTraffic(): the container that was counted is the one inspected.
Same(c, id) == c = id

\* The observer's route reads the counters of the container there is now: its
\* listing, the counters of that container and the time are taken in one step.
\* Two samples differ in time, unless the clock is set back.
PollCounts ==
  /\ poll.pc = "counting"
  /\ sample # NoSample /\ backs = 0 => clock > sample.at
  /\ \E c \in Containers :
       /\ Picked(c) /\ Same(c, poll.id)
       /\ poll' = [pc |-> "recording", url |-> poll.url, under |-> at[c],
                   id |-> c, rx |-> rx[c], at |-> clock, moved |-> moved[c]]
  /\ UNCHANGED <<env, row, sample, days, quality, identity, owed>>

\* Docker or the observer fails, there is no such container, or another.
PollFails == /\ poll.pc \in {"inspecting", "counting"} /\ Throws
             /\ UNCHANGED <<env, row>>
-----------------------------------------------------------------------------
\* allocateTrafficDays(): bytes received from time s to e, in proportion.  Each
\* day takes the difference of what was received by its end and by its start,
\* rounded down.
By(bytes, s, e, t) == (bytes * (t - s)) \div (e - s)

\* Mutant of Part: the part of each day is rounded by itself.
PartFloored(bytes, s, e, lo, hi) == (bytes * (hi - lo)) \div (e - s)
Part(bytes, s, e, lo, hi) == By(bytes, s, e, hi) - By(bytes, s, e, lo)

Cutoff == DayOf(clock) - (Keep - 1)
Allocated(bytes, s, e) ==
  LET from == Max({s, Cutoff * Day})
  IN [d \in AllDays |->
        LET lo == Max({from, d * Day}) hi == Min({e, (d + 1) * Day})
        IN IF lo < hi THEN Part(bytes, s, e, lo, hi) ELSE 0]

Comparable(p) == sample.id = p.id
Delta(p) == IF Comparable(p) /\ p.rx >= sample.rx THEN p.rx - sample.rx ELSE 0
Quality(p) == CASE ~Comparable(p) -> "baseline"
                [] Comparable(p) /\ p.rx < sample.rx -> "reset"
                [] OTHER -> IF p.at - sample.at > GapAfter THEN "gap"
                            ELSE "continuous"

Late(p) == sample # NoSample /\ p.at <= sample.at

\* recordTraffic(): a late sample is ignored, the rest is one transaction.
Recorded(p) ==
  IF Late(p) THEN UNCHANGED <<sample, days, quality, owed>>
  ELSE /\ sample' = [f \in DOMAIN p \ {"pc"} |-> p[f]]
       /\ days' = [d \in AllDays |->
            IF d < Cutoff THEN 0
            ELSE days[d] + (IF Comparable(p)
                            THEN Allocated(Delta(p), sample.at, p.at)[d] ELSE 0)]
       /\ quality' = Quality(p)
       /\ owed' = [fair    |-> owed.fair + (IF sample.id = p.id
                                  THEN p.moved - sample.moved ELSE 0),
                   counted |-> owed.counted + Delta(p)]

Unedited(url) == row = url

PollRecords ==
  /\ poll.pc = "recording"
  /\ IF Unedited(poll.url) /\ poll.at <= clock + Tolerance
     THEN /\ Recorded(poll) /\ identity' = poll.url /\ poll' = IdlePoll
     ELSE Throws
  /\ UNCHANGED <<env, row>>

\* The web server starts anew.
Restart == /\ quality' = "unknown" /\ identity' = NoUrl /\ poll' = IdlePoll
           /\ UNCHANGED <<env, row, sample, days, owed>>

TrafficNext == \/ World \/ \E u \in Urls : EditAddress(u)
        \/ PollBegin \/ PollInspects \/ PollCounts \/ PollFails \/ PollRecords
        \/ Restart

TrafficSpec == TrafficInit /\ [][TrafficNext]_trafficVars
-----------------------------------------------------------------------------
\* trafficSummary(): what the owner is shown as the traffic of the connection.
Available == sample # NoSample /\ row # NoUrl /\ identity = row
ShowsRate == Available /\ quality = "continuous"
Total(g) == LET until[d \in AllDays] == IF d = 0 THEN g[0] ELSE until[d - 1] + g[d]
            IN until[DayOf(MaxClock)]

\* security.md: "ports and traffic are not attributed to that API instance".  A
\* sample was counted in the container to which the address of its connection
\* leads, and what is shown as the traffic of the saved connection is such a
\* sample of it, while the clock runs forward.
TrafficOfSaved ==
  /\ sample # NoSample /\ restarts = 0 => sample.url = sample.under
  /\ backs = 0 /\ Available => sample.url = row

\* README.md: totals are sampled deltas.  No byte is counted that was not
\* received by one container between two of its samples, none is lost unless
\* a counter was reset, and the days add up to what was counted until one of
\* them is too old.
TotalsTrue ==
  /\ owed.counted <= owed.fair
  /\ restarts = 0 => owed.counted = owed.fair
  /\ Total(days) <= owed.counted
  /\ DayOf(MaxClock) < Keep \/ (backs = 0 /\ Cutoff <= 0)
       => Total(days) = owed.counted
=============================================================================
