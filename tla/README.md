# TLA+ specifications of twping-go

twping-go is a TWAMP client (RFC 5357): it opens a control connection to a
server, asks it for a test session, sends UDP packets on a schedule, collects
the replies of the reflector, and prints what became of every packet. This
directory holds a formal model of it: TLA+ modules translated from the Go
source, configurations for the model checker TLC, and theorems checked by the
proof system TLAPS.

## The system

| Component | Code | State | Operations |
| --- | --- | --- | --- |
| test session | `owamp/session.go` | `pktState` of every packet (hit, closed), `resolved`, the channels `rx`, `stopRx`, `sendErr`, the ticker, the UDP socket | `Run`, `send`, `receive`, `flush`, `flushAll`, `Close` |
| statistics | `owamp/stats.go` | nodes by sent and reflected number, counters, extremes, histograms, hops, range of numbers, printed lines | `Add`, `percentile`, `PrintSummaryLang`, `PrintMachine` |
| control connection | `owamp/control.go`, `owamp/proto.go` | TCP connection and deadline, mode, two HMACs, two CBC chains, watchdog | `OpenControlContext`, `RequestTWSession`, `StartSessions`, `StopSessions`, `Close` |
| measurement | `twping/twping.go`, `cmd/twping/main.go` | what is open, the stack of deferred calls, the watcher goroutine, the error | `run`, `RunLang` |
| send schedule | `owamp/schedule.go` | AES counter and block, next slot | `NextDelta`, `next`, `uniform` |
| Num64, timestamps | `owamp/num64.go`, `owamp/timestamp.go` | none | conversions, product, error estimate |
| raw records, socket options, spin defaults, scripts | `owamp/record.go`, `owamp/sockopt*.go`, `twping/spin_*.go`, `scripts`, `testing` | none | |

How they interact. `run` calls `Control` for each exchange and `Session.Run`
for the test; a context cancelled by the caller reaches both through goroutines
that close their sockets under them. Inside the session, `Run` owns the table
of packets and talks to `send` and `receive` through channels, except for the
atomic flag `hit`, which `Run` and `send` both write. `Run` hands records to a
sink, a callback of `run`, which saves them and passes them to `Stats.Add`.
Before its goroutines start, `Run` adds up the intervals of the schedule, in
fixed point, to the moment each packet is due; every record carries four time
stamps in the same format, two of them read from the reply.

What is hard, and what makes each part correct:

- *session*: three goroutines, a ticker whose ticks may be stale, a channel
  that may be full when nobody reads it any more, a socket closed at any
  moment, replies lost, copied, late or unasked for. Correct means: one final
  account of every packet, in order; no loss before its time; `Run` returns and
  takes its goroutines with it.
- *statistics*: copies made in both directions, arriving in any order; two
  clocks that differ; figures of one report made of different sets of records.
  Correct means: the counters are numbers of packets, not of records; the round
  trip does not depend on the clocks; the sections of a report agree.
- *times*: a product of two 64-bit numbers digit by digit, sums of fractions,
  an error estimate squeezed into two octets. Correct means: nothing overflows,
  roundings do not add up, no error is reported smaller than it is.
- *control*: HMACs and cipher chains that run through all messages, a block
  without a digest, deadlines, a silent or departing server, a cancellation in
  the middle. Correct means: the ends agree, every call ends, nothing leaks.
- *measurement*: a dozen early returns, deferred calls whose order matters, a
  cancellation that meets the end, a number of packets that is cut after it was
  tested, a disk that may be full. Correct means: all is released, all is written
  but what the system refuses, and no session that was cut short, had no packets
  or could not be recorded is reported as complete.

`PROJECT.json` lists the hazards one by one at their lines, with the properties
that would catch each.

## The modules

| Module | Models | Composes |
| --- | --- | --- |
| `RecordStream` | the promise of `Session.Run` to its sink, abstract | |
| `TestSession` | `Session.Run`, `send`, `receive` | refines `RecordStream` |
| `Stats` | the counters of `Stats.Add` | |
| `SessionStats` | a session feeding its statistics over a bad path | `Stats`, `RecordStream` |
| `Summary` | the rest of `Stats.Add`, quantiles, the two reports | `Stats` |
| `Control` | the control connection and its server | |
| `TwpingRun` | `run` and `RunLang` | `Control`, and the session by what `TestSession` shows of it |
| `Num64` | 32.32 fixed point | |
| `Timestamp` | stamps and their error estimates | `Num64` |
| `Schedule` | the intervals of the schedule | `Num64` |
| `PacketTimes` | when each packet is due, and the four stamps of its record | `Schedule`, `Timestamp` |
| `RecordStreamProofs`, `TestSessionProofs`, `SessionStatsProofs`, `SummaryProofs`, `ControlProofs`, `TwpingRunProofs`, `PacketTimesProofs` | theorems about the module named, and in the last about `Num64`, `Schedule` and `Timestamp` too | |
| `MathProofs` | lemmas on division, induction and finite sums that they share | |
| `MC*` | the instances TLC checks | |

Definitions named "Mutant of ..." in a comment are wrong versions of the
definition after them, each a plausible mistake in the code. No specification
uses them: they show that the properties can tell such a mistake.

### RecordStream

A stream of records, a frontier below which every packet is accounted for, and
the set of packets the sender gave up on. Four actions: an answer to an open
packet, the end of the first window with a loss or with nothing to report, a
packet given up. A packet may be given up even after its loss was reported,
because nothing in the code prevents it (see the findings).

### TestSession

Every goroutine has a program counter. A step is what a goroutine does between
two points at which another could notice: `Run` takes one item in its `select`
and then flushes one packet per step, so that `send` may mark a packet in the
middle of a flush; `send` sleeps, decides and writes in separate steps;
`receive` looks at `stop`, reads, and offers an item in separate steps.

| Code | Model |
| --- | --- |
| `rx` (1024 places), `stopRx`, `sendErr` (1) | `rx` bounded by `RxCap`, `stopRx`, `sendErr` |
| `pktState.hit`, `.closed`, `resolved` | `hit`, `closed`, `resolved` |
| the 50 ms ticker | `tick`: at most one tick, with the time it was made |
| `sendErr = nil` after it is read, `sendFailure` | `sendDone`, `sendFailure` |
| the cases of `select` in `Run` | `RunDropsReply`, `RunTakesReply`, `RunReplySinkFails`, `RunIgnoresRxError`, `RunFatalRxError`, `RunSendDone`, `RunTick` |
| `flush`, `flushAll` | `FlushAnswered`, `FlushLost`, `FlushSinkFails`, `FlushEnd`; `flushing` says which of the two and why |
| the deferred function of `Run` | `RunStopsRx`, `RunUnblocksRead` |
| the path and the reflector | `net`: how many replies with each number are under way |

Times are whole units of an explicit clock. The schedule `When` is any
non-decreasing function, since it is fixed before the goroutines start. The
content of a packet is abstracted: a reply that is too short, not authentic or
has no valid error estimate is dropped, another becomes a record. Numbers
outside the table are represented by one number, `NPackets`.

### Stats and SessionStats

`Stats` translates the decisions of `Stats.Add`. A node is created in the code
when it is first looked up; here every number has one, unseen. `SessionStats`
supplies the records: packets are copied on the way out, numbered by the
reflector, copied on the way back and arrive in any order; the reflector may
lose its state and number anew, which is the one way to make `Add` refuse a
record; the session's side is the promise `RecordStream`. The auxiliary
variable `answers` says how often each reply was recorded, and the properties
compare the counters with it. The histogram is one function of buckets: a
bucket stands for the three places a record is counted in at once.

### Summary

What `Stats` leaves out: extremes, hops, the mark of differing clocks, the
lines of `-v`, and the reports as records of the figures they print. A record
is known by what truly happened to its packet (how long it was on its way out,
at the reflector and on its way back); the four stamps follow from that and
from the difference of the clocks, and the properties compare the reports with
the truth. The comparison of a quantile's rank is in floating point in the code
and may come out too large by a rounding: `Percentile` takes the outcome as a
parameter, and `PercentileHasItsRank` says what either outcome means. A loss
comes only for a packet without an answer and no answer comes after a loss,
which is what `RecordStream` promises. Wording, units and the largest error
estimate are left out; `PacketTimes` is about the estimates themselves. `Buckets` is a
finite set that holds every bucket a delay can fall into, and every delay is
nearer than `Inf`, as every difference of two stamps is nearer than the
`infDelay` of the code (`DelaysAssumption`).

### Num64, Timestamp, Schedule, PacketTimes

`Num64` has the width of a digit as a parameter (`Digit`, 2^32 in the code) and
cuts every result to two digits where Go would. `Schedule` draws one uniform
value per step, so every outcome of AES is explored; a block is known by the
counter that was encrypted, and the type invariant says each block gives its
four values in turn. `PacketTimes` runs `Schedule` through the loop of
`Session.Run` that fills the table, from the start `run` chooses, and then sends
the last packet through the encoders and decoders of the stamps, with a clock
at each end. The schedule that `TestSession` assumes, non-decreasing and kept,
is `ScheduleKept` here. Three assumptions name where the code would overflow.
`MeanAssumption`: means above about six years, whose product does not fit.
`EraAssumption`: a session that reaches the turn of the era in 2036, when the
seconds since 1900 pass their 32 bits. `FieldsAssumption`: that every number of
64 bits has an estimate of 6 bits of scale and 8 of multiplier.

### Control

A message is its kind, an accept code, the texts its HMAC covers and the place
in the CBC chain at which it was encrypted: it is read as it was written only
at the same place. So a reset that is missing, or a block decrypted twice,
shows as a message that is refused, as it would in the code. The server follows
`reflector_test.go`, and may besides refuse a step, fall silent, or hang up.
Writes are small and do not block; they fail on a connection closed at this
end, and may fail on one closed at the other. The estimate of the round trip and
the derivation of keys are left out.

`deadline` is the time left until the deadline of the connection, out of
`ExchangeTimeout`, or `NoDeadline`. It runs down one unit at a time
(`TimePasses`), also between two calls, and stays run down until the code arms
it again; a read or a write on a connection whose deadline is over fails. Every
`deadline()` of the code stands where the model arms: a call begins in a step of
its own (`CallRequest`, `CallStart`, `CallStop`, which arm) and writes in
another, and the step that ends one read or write arms for the next. The
history variable `waited` counts the time the read or write in hand has taken,
and knows nothing of the deadline's value; `NoStaleDeadline` compares the two
clocks: whatever times out must have waited the whole timeout. It is violated
when any one of the code's calls of `deadline()` inside the handshake or the
exchanges is left out; without the very first one there is no deadline to be
old, and `CallsEnd` is violated.

### TwpingRun

`run` from its arguments to its last deferred call. A command line is a record
of what decides the course of `run`: what is wrong with it, the number of
packets, the modes of `-A`, whether there is an identity, what the passphrase
file holds, the save file, what is to be printed. The modes and the passphrase
make the configuration of `Control`; the number of packets is cut to its width
as in the code. The stack of deferred calls is a sequence, pushed where the `defer` statements stand and
performed one by one on every return.

What is written goes to one of two buffers, the save file's and that of the
standard output, and the operating system may refuse it at any time: a full
disk, a closed pipe. `refused` says of each buffer whether that has happened and
who was told. In the session the sink returns the error of the save file and
that of a raw output, and `Run` ends with it (`SinkFails`); of what `-v` and the
summary print the error is not looked at, and the buffer, which keeps its
first error, fails again at the last flush. A deferred flush may fail as well, and its
error is dropped, as is that of a flush of a closed file (`Flush`). So `SavedRecordsWritten` does not
say that every record is in the file. It says that nothing stays in a buffer
except what was refused (no early return forgets a flush, none comes after the
close), and that `run` does not return success over a refusal the session was
told of. A save file whose last flush fails is incomplete and the program
reports success: the model has these behaviours, and no comment or test of the
repository says otherwise.

`Session.Run` is known by its result: with
an error or without, and, once its socket is closed, possibly without an error
though nothing more was measured (`cutShort`). That it does end is what
`RunTerminates` of `TestSession` says.

## What the runs show

| Run | Instance | Result |
| --- | --- | --- |
| `record_stream` | 3 packets, at most 5 records | losses in order, no packet forgotten |
| `test_session` | 2 packets, `rx` of one place, up to 2 replies per packet and a stray one, clock 0 to 3, start of the schedule at its time or past it | the seven safety properties, the refinement among them; about 1.3 million states |
| `test_session_faults` | 2 packets, failing sink and reads, fairness | `Run` returns, both goroutines end |
| `session_stats` | 2 packets, 2 copies each way, 2 buckets, a reflector that may restart; 1.6 million states | the counters are right, also those made before a record was refused |
| `summary` | 3 packets, 3 answers, 3 paths, clocks apart by -2, 0 or 3, buckets of 2 units, 2 lines; 34 thousand states | the reports tell the truth about the network, and their sections agree |
| `control` | all sets of modes of the server; four callers: all modes with a limit, a mode without its passphrase, no limit, neither limit nor cancellation; a timeout of 2 units; 42 thousand states | agreement, release, no read or write fails by an old deadline, every limited call ends, a cancellation ends the others |
| `twping_run` | eight command lines: the default, counts of 0 and of the width, help, several modes, an empty passphrase, raw and verbose output, no save file; cancellation at any moment, a write refused at any moment; a timeout of 1 unit; 394 thousand states | release, nothing left in a buffer but what was refused, no false report, cancellation ends the run |
| `packet_times` | digits of 5 bits, 10 ns and 5 us in a second, a table of three entries, 3 packets, an exponential and a literal slot, 3 starts, 2 trips, 4 pairs of clocks; one million states | intervals are exact but for two truncations, no rounding adds up, stamps tell the delays |

Why the bounds are enough. Two packets give every relation of one packet to
another: first and last, sent and not yet sent, one closed while the other is
open. An `rx` of one place is full as soon as one item waits, which a channel
of 1024 places reaches only under load. With a loss timeout of one unit the
clock 0 to 3 passes both timeouts and leaves time beyond the deadline; starting
at 3 makes the whole schedule late, which is how packets are skipped. Two copies
each way give up to four replies per packet, so that a reply can be the first,
a copy with another number, and a copy of a copy. `MaxRecords`, `MaxTime`,
`MaxCopies`, `Stray`, `MaxFwd`, `MaxBck` and `MaxAnswers` are bounds of the
model; the code has none of them. The three paths of `summary` and the offsets of its
clocks give packets with the same TTL and with different ones, a bucket of a
one-way histogram that no round trip falls into, and a negative delay out, back,
or in neither direction. The numeric instance is a
scaled one: with 5 bits every pair of uniform values, and with them every
number of leading ones and every level of the table, is drawn, and the mean of
1.4 s has both its digits, so that every partial product counts; that nothing
depends on the width is what the proofs show.
`ExchangeTimeout` is 2 in `control`: a deadline may be whole, partly used and
over, so that one inherited from an earlier step is told from a fresh one before
it is over as well as after; in `twping_run`, where no property asks how long a step waited, 1
is enough for a deadline to be over.
`CounterWrap` is 8 instead of 2^128, so that the counter does wrap, and
`CountWrap` 4 instead of 2^32.

Fairness. In `TestSession` the clock moves, the ticker ticks and the runtime
runs every goroutine that can move; nobody has to close the socket and no read
has to fail. In `Control` the client's goroutines run and an armed deadline
runs down in the end; the server and the caller owe nothing; `CallsEnd` is about
callers with a limit, `CancelEndsCall` about all that can cancel. In `TwpingRun` no
deadline has to expire and a session whose socket is open need not end; one
whose socket is closed does.

### Where comments and code part

Four runs look for a violation and find it:

- `lost_was_due`: the comment of `Run` promises one record per packet *sent*;
  when the socket is closed, `flushAll` also records as lost the packets whose time
  to be sent has not come yet.
- `skipped_not_lost`: the comment of `hit` says a packet the sender skips needs
  no loss record; if `Run`'s tick comes first it gets one, so a schedule that
  starts late is counted as lost or not at all, depending on the interleaving.
- `receiver_serves_run`: a comment says a socket error ends the session; any
  error but that of a closed socket ends only `receive`, and `Run` waits on.
- `interrupted_is_consequence`: a comment says every error after a cancellation
  is its consequence; an error of the arguments, the parameters or the save file is
  hidden behind "interrupted" as well.

## What is proved

Every invariant and every action property that a run finds to hold is also a
theorem: it holds for every value of the constants, from the assumptions named
in the modules (numbers of packets, schedules that do not decrease, a clock that
reaches past the deadline, any sets of modes and callers, any command lines, any
width of a digit, any table of algorithm S, any finite set of paths):

| Module | Theorems |
| --- | --- |
| `RecordStreamProofs` | `StreamPromise`: `LossIsFinal`, `LossesInOrder`, `Accounted` |
| `TestSessionProofs` | `TypeCorrect`; `StreamRefinement`, that the session implements `RecordStream`; `LossFinality`, which follows from the promise through that refinement; `CompleteOnReturn`, `ReturnAfterDeadline`, `LossAfterTimeout`; `ReceiverIsHeard`, where no read fails otherwise than by a timeout or a close |
| `SessionStatsProofs` | `StatsTypes`, `StatsCountPackets`, `StatsRange`, `StatsAccepts`, `StatsClassifyDuplicates`; `StatsHearTheStream`, that what reaches `Add` implements `RecordStream`; `StatsRecordsFit` |
| `SummaryProofs` | `SummaryInvariant`, and from it `SummaryTyped`, `RoundTripHolds`, `ClocksAreWarnedOf`, `PercentilesHaveTheirRank`, `SectionsSpeakOfTheSame` |
| `ControlProofs` | `ControlTypes`, `ControlPeersAgree`, `ControlModeAgreed`, `ControlNoStaleDeadline`, `ControlCancelIsReported`, `ControlFailedSetupReleases` |
| `TwpingRunProofs` | `RunIsAControl`, that a measurement is a behaviour of the control connection; `RunTypeOK`, `RunReleasesAll`, `RunWritesRecords`, `RunReportsWholeSessions` |
| `PacketTimesProofs` | `MulIsTruncatedProduct`, that Knuth's product is the exact one cut off at both ends; `DurationRoundTrip`, nanoseconds to fixed point and back; `IntervalsExact`; `TimesInvariant`, and from it `TimesTyped`, `ScheduleIsKept`, `PacketsAscend`, `StampsTellDelays` |

The arguments, module by module.

*RecordStream.* The invariant adds that a reported loss lies below the frontier:
without it nothing keeps an answer from following a loss.

*TestSession.* The inductive invariant of the session, `SessionInv`, has five parts.
`TypeInv`: the types, and that `sendErr` is filled at most once. `FlagInv`:
`closed` holds exactly below `resolved`, every answered packet is `hit`, and
every `hit` has its answer or its skip; this is what lets a step of `flush` be a step of the promise.
`Promise!StreamInv`: the invariant of the promise, read off the session's
state. `TimeInv`: a tick and the time a flush was given are not ahead of the
clock, all that is closed was due or the socket is closed, and an error of a
closed socket in `rx` means that it is. `EndInv`: `Run` ends without an error
only when every packet is closed, by the loop or by `flushAll`. `ReceiverIsHeard` has an invariant of its own,
`ReceiverInv`: `stopRx` is closed only when `Run` is past its loop, and as long
as it is not, a receiver that has ended has left an item in `rx` that is no
record; `Run` takes from `rx` only in `select`, where that item is fatal. Its
hypothesis is that no read fails in another way; without it the run
`receiver_serves_run` finds the session that waits for nobody.

*SessionStats.* `Inv` relates three things nobody in the code compares: the
nodes of `Stats`, the stream of records, and what is on the path. A node is
lost exactly when the stream says so, and then lies below the frontier, which
keeps a second loss and an answer after a loss from coming (`NodeInv`); the
counters are the cardinalities of the sets of nodes (`CountInv`); a reflected
number on its way or recorded belongs to one packet and is below the
reflector's next one, unless it restarted, so that `Add` sees no conflict
(`NumberInv`). That duplicates are classified right is a statement about two
sums over all replies recorded: `DupInv` adds to it only that a reply recorded
is known to belong to its packet (`ReplyInv`), and the proof follows one entry
of the table through each of the sums. `StatsRecordsFit` is the premise of
`Summary`: `Add` is given the loss of a packet once, with no answer before it
and none after it, which there is the guard of `Answer` and `Loss`.

*Summary.* `SumInv` says what the figures are figures of. `DelayInv`: each
extreme is the delay of some answer and bounds those of all, or there is none
yet; the clocks are suspected exactly when some answer had a negative delay.
`CountInv`: each bucket and each place of the TTLs holds the sum of the first
answers of the paths that fall into it, and all first answers together are the
packets not lost. The reports are then a matter of sums alone. A column adds up
to the packets answered because a sum over buckets of sums over paths is the sum
over all paths (`SumFibers`). A quantile takes the first bucket that reaches a
rank: the answer of this rank is in it, because the answers below its delay are
fewer than the rank and those up to its delay are not, and a bucket is an
interval of delays (`RankKey`); that the rank is the one meant, or the next one
if the product comes out too large, is arithmetic (`CeilIs`).

*Control.* `ControlInv` has the types, `AgreeInv`, `ReleaseInv` and `DeadlineInv`. `AgreeInv`
is needed because `PeersAgree` says only that no message was refused: the
invariant says why, by relating the two ends through the message on the wire.
When nothing is under way both have the same text in both HMACs and the same
places in both chains; when a message is, the writer is ahead of the reader by
exactly it, and the uptime block is ahead by one more until it is folded in.
The types need one thing more, `FlowInv`, which counts the messages the client
has yet to read, to bound what is on the wire. `DeadlineInv` is for
`NoStaleDeadline`: while a read or a write with a deadline is in hand, what it
has waited and what is left add up to the whole timeout, so a deadline that is
over has been waited for in full. It is inductive only because every step that
begins a read or a write arms.

*TwpingRun.* `RunIsAControl` shows that every step of `run` is a step of
`Control` or leaves it alone, so that all the theorems of `ControlProofs` hold
inside a measurement. Besides them `RunInv` has `StackInv` (which calls are
deferred at which place, and that the flush of the file comes before its
close), `ReleasedInv` (whatever is open, or buffered and not refused, has a
deferred call that sees to it), `WriteInv` (a refusal the sink returned is an
error of the session, then what `run` fails with, then no success) and `CutInv` (only a cancellation closes the socket under a
session, and `run` looks at the context before it looks at the result).

*Numbers.* `MulIsTruncatedProduct` bounds every partial sum of the algorithm
below two digits, so no step is cut, and adds the digits up. `TimesInv` has three
parts. `SchedInv` says of what the last interval was made; the interval's
distance from the exact product then follows from the theorem on the product,
applied twice. `DrawInv` is that of the blocks of AES: the counter belongs to
the block in hand. `PlanInv`: the sum of the code equals the sum without bounds,
because that is at most the number of packets times the longest interval, and
`EraAssumption` says this fits; when a packet is due then follows from
`DurationRoundTrip` without a rounding for every packet before it. That no
packet is due before the one ahead of it (`PacketsAscend`) is what `TestSession`
assumes of its schedule (`WhenAssumption`). The stamps
follow from the conversions alone, and the estimates from what the number of
shifts is: the least that brings the error below the largest multiplier, which
exists by induction on the powers of two.

*Sums and induction.* The library states induction with an operator as a
parameter, which the provers cannot be given. `MathProofs` states it with sets
instead: a set of numbers that has 0 and with each number the next one is all of
`Nat` (`NatInduct`); a set of subsets of a finite set that has the empty one and
every one that is in it without some element has the set itself (`SetInduct`).
Both come from the theorem of the library that the finite subsets are well
founded. With them the sums of the community modules, defined by a recursive
function over subsets, are shown to exist and to obey the laws that the proofs
use, and so is `Pow2`.

Only model-checked: liveness (`RunTerminates`, `GoroutinesEnd`, `CallsEnd`,
`CancelEndsCall`, `WatchdogReleased`, `CancelEndsRun`, `WatcherEnds`), since
fairness is stated with ENABLED, which the installed provers do not handle.

## What is not modelled

Layout, key derivation and encryption of test packets; the padding; the options
of sockets and the reading of the TTL; the syntax of options, the choice of
addresses and of the local port; the wording of reports and raw records; the
scripts. They keep no state that other parts depend on, or are the operating
system's. Four hazards of `PROJECT.json`, about the choice of `select`
between a tick and an answer, a mean interval that rounds to 0, the protocol's
limits in 2036 and estimates no sender of this code makes, are named there
without a property, and why.

## Plan

Done: all modules above. What could come next:

1. `PortSearch`: `listenTestSocket` tries every port of the range once, from a
   random one, and closes what it does not keep.
2. `SessionStats` over the detailed `TestSession` instead of the promise, to
   relate the summary to the interleaving of skips and losses.
3. `PacketTimes` and `Summary` together: the extremes of a report against the
   error estimates of its stamps.
4. Proofs: what the liveness properties rest on and the provers can reach, such
   as that a goroutine that has not ended always has a step to take or waits for
   one that has.
