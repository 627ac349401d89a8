# Verification of pypilot-cxx

TLA+ models of the autopilot in this repository, the TLC configurations that
check them on small instances, and TLAPS proofs of what matters most for every
value of their constants.

## The system

pypilot-cxx is a boat's autopilot: one process, one thread, a cooperative event
loop. Its parts share one structure, `PypilotState`; nothing is passed by
message inside the process, and lines of text are exchanged with clients.

| Part | State it keeps | Operations | Talks to |
|---|---|---|---|
| `Autopilot` (`autopilot.cpp`) | references to the others | `iteration`: read the heading, compute error, run the pilot or leave it to the tack, drive the servo | everything below, through `PypilotState` |
| `Servo` (`servo.cpp`) | `ap_enabled_`, driver output `tx_`, parser, last sample | `poll`, `raw_command`, `disengage`, `set_autopilot_enabled`, `feed_driver_bytes` | motor driver, by packets |
| `BoatIMU`, `Tacking`, `BasicPilot` | none of their own | `read`, `process` | `PypilotState` |
| `Rudder`, `Nmea`, `Sensors` | none of their own | `update`, `reset`, `poll`, `feed_line` | `PypilotState` |
| `ValueRegistry` (`values.cpp`) | watch table (64), a dirty mark per field | set, read, `watch`, `unwatch`, `emit_changed_watches`, `emit_due_watches` | `PypilotState`, a `ValueWriter` |
| `PypilotServer` (`server.cpp`) | none between calls | `handle_line` (assignment, watch request), `poll` | registry, event loop |
| `EventLoop` (`async_event_loop/event_loop.hpp`) | table of timers and polls (64), next handle | `on_delay`, `on_repeat`, `on_bytes_ready`, `cancel`, `run_once` | callbacks |
| `PypilotClient` (`client.cpp`) | connection, remembered watches (32), pending lines (16), poll handle, line reader, a copy of the values | `watch`, `unwatch`, `set`, `pop_outgoing`, `close`; `on_connect`, `on_close`, `on_error`, `on_data` | event loop, TCP connection, a registry of its own |
| `LineProtocolReader`, servo protocol, NMEA parser | a buffer each | bytes in, lines, packets or sentences out | their streams |

What is hard in it:

- **Several owners of one fact.** "The servo is on" is `ap.enabled`, `servo.engaged`
  and the servo's private `ap_enabled_`, written at three places of an
  iteration, while clients flip the first between iterations and the driver's
  telemetry overwrites the second.
- **Marks and tables that outlive requests.** A watch table with holes, dirty
  marks cleared for watched and unwatched fields alike, requests that take
  effect entry by entry and may fail half way.
- **Re-entrancy.** A callback may add, cancel, and call `run_once` again
  (`PypilotClient::poll` and `PypilotServer::poll` both do), so that passes over
  the same table nest, each with its own clock reading.
- **A session over unreliable connections.** Writes are whole, short or refused,
  connections die before they say so, and callbacks of an old connection arrive
  while a new one is in use. A short write glues its line to the next one, and
  the other end reads what it can of the result.
- **Streams cut anywhere.** Lines, packets and sentences arrive in pieces, with
  bytes damaged or missing; what is kept between two pieces must be neither
  lost nor mixed with something else.
- **Several writers of one record.** `state.rudder` is written by
  `Rudder::update`, by its poll, by the servo's telemetry and by an `RSA`
  sentence; each writes only some of the fields, and one of them judges by a
  field another has written.

## Modules

| Module | Models | Needs |
|---|---|---|
| `Autopilot` | `Autopilot::iteration` and everything it runs, against clients and the heading sensor | |
| `ValueRegistry` | the registry: fields, watches, marks, output | |
| `PypilotServer` | the line protocol over the registry, composed with the control loop's writes and the clock | `ValueRegistry` |
| `WatchBook` | abstract: what a watch table promises, without slots | |
| `EventLoop` | the table and nested passes | |
| `PypilotClient` | the client's outbound half | |
| `Session` | a client and a server over connections: both ends as instances, the lines between them, the client's copy | `PypilotClient`, `PypilotServer` |
| `LineReader` | `LineProtocolReader`, byte by byte | `LineFeed` |
| `LineFeed` | abstract: what a reader of lines promises | |
| `Bytes` | bytes, their bits, and exclusive or: operators | |
| `ServoProtocol` | packets, checksum and the parser: operators | `Bytes` |
| `Nmea0183` | sentences, their checksum, numbers: operators | `Bytes` |
| `Instruments` | servo telemetry, the rudder and NMEA sentences, composed over the state they share | `ServoProtocol`, `Nmea0183` |
| `AutopilotProofs`, `PypilotServerProofs`, `EventLoopProofs`, `PypilotClientProofs`, `LineReaderProofs`, `SessionProofs`, `ServoProtocolProofs`, `InstrumentsProofs` | theorems about the module of that name | the module, TLAPS; `SessionProofs` also those of its two ends, `InstrumentsProofs` also `ServoProtocolProofs` |
| `MCAutopilot`, `MCServer`, `MCEventLoop`, `MCClient`, `MCSession`, `MCLineReader`, `MCInstruments` | constants for TLC | their module |

### Autopilot

Variables are the fields of `PypilotState` the control loop touches, the
servo's `ap_enabled_` and the last packet for the driver. `Iteration` is the
whole function: `Steer` up to the pilot, `DriveServo` for the poll that comes
first when the switch is off and last when it is on. The other actions are a
client's assignments, a heading sentence, the driver's flags
(`ApplyDriverFlags`: a FLAGS packet overwrites `servo.engaged` and nothing else
here; `Instruments` has the packets), and the tack flag, which only an
owner of `PypilotState` sets. `sawOn`, a history variable, says whether the last
iteration saw the switch on. Angles are whole degrees and commands are
thirtieths, so that the pilot's division by 30 is exact. What is lost is
single-precision rounding: the truncation in `encode_command` sends a driver
value one unit (of 2000) low for some commands.

`resolv` is written in closed form: it returns the one number in
[-180, 180) that differs from its argument by a multiple of 360. The loops of
the code do not end for infinite or enormous angles; that is outside this model.

### ValueRegistry and PypilotServer

A field is a name; its value is told apart by equality. Time is in
microseconds, periods in half microseconds so that `period_us` has a positive
period to truncate to zero. The output stream keeps whether it stands in the
middle of a line (`midLine`) and which value of a field last arrived in a line
of its own (`reported`, a history variable). `WriteLines` writes a batch of
lines in order, with `write_value_line`'s habit of stopping after `name=` when
the value is unreadable.

`handle_watch` is one action per entry of the request: `FailEntry` stops it,
the entries before it stay in force. Nothing else runs in between, as in the
code, where the loop calls nothing that yields. `Poll` is `collect_output`:
changed watches in field order, then due watches in slot order.

`WatchBook` says what all of this amounts to for a client: one watch per field,
decided by the last request, served once when due and kept on its beat. `Book`
maps the slots to it; the property `KeepsTheBook` is the refinement.

### EventLoop

`slots` is the table, `passes` the stack of `run_once` calls, each with the
clock it read, the slot it is at and the handle it is calling. Time passes
between any two steps. Application code (registering, cancelling, starting a
nested pass) runs outside `run_once` and inside callbacks, never in between.
`first`, `fires` (calls of timers) and `cancelled` are history; `SettledIsSilent`
looks at the start of a callback instead, so that it speaks of polls too. A poll's
callback is called on every pass; whether its stream is readable is the callback's affair.

### PypilotClient

A line is a subject (the watch or the value of a name) with a content and the
number of the call that made it. `Outcomes` are those of `ITcpConnection::write`:
the whole line, a part, nothing, or a connection found lost. `on_connect` is a
sequence of steps, one per slot of the queue and one per remembered watch, with
no other action enabled until it is done; in particular a connection is
assumed not to call `on_close` or `on_error` from within `write`, after which
`flush_pending` would go on with a null connection (src/ has no implementation of
`ITcpConnection` to tell). `told` is what the connection's peer was last told about a subject.

### Session

Both ends are instances of their own modules, so that every step of the session
is a step of the client, of the server, or of what lies between. That part is
external to the repository: a transport that delivers in order, loses the end
of what is under way when a connection dies, hands the server an older
connection's lines before a newer one's, and puts the server's output on the
connection in use.

A line written after a short write is glued to the part before it. `Glued` says
what the server reads then: a cut assignment is carried out with what
`parse_real` makes of the cut number (`Cuts`), a cut watch request is useless.
In the other direction a line arrives in two parts and stands in the reader's
buffer between them; if a connection dies there, the reader must be reset
before the next one's first line is appended. `mirror` is the client's own
registry, filled by `handle_line`.

The session is narrower than its ends in five ways, each stated in the module's
header: its names are fields no control object writes, the client watches
immediately (period 0), takes no line out of its
queue by hand, its lines fit the reader's buffer, and the event loop has a slot
for the reading poll. `PypilotServer` has fields the control loop writes;
`PypilotClient` has other periods, `pop_outgoing` and a loop
without room; `LineReader` has lines that do not fit.

### LineReader

One byte is one step, because the stream may run dry and the callback may reset
the reader after any of them. `line` and `skipped` are history: what was read
since the last delimiter, and how much of it an overflow has thrown away.
`LineFeed` is the promise: a line that fits is delivered as it is, without one
CR; of a longer line an end is delivered; nothing is ever delivered that
belongs to two lines.

### Instruments

`ServoProtocol` has the real checksum over real bytes, four to a packet, and
`Parser::feed`, which takes quadruples from the start of the stream on. Its loop
is written as what it leaves: of the packets about a channel that pass, the last
(`About`, `Latest`), and the bytes behind the last whole quadruple (`Rest`).
`Nmea0183` works on characters, with the real XOR checksum, bit by bit the parity
of the characters that have the bit; numbers are integers in hundredths.
`Bytes` has the exclusive or of both as arithmetic on bits, about which one can
prove something. `Instruments` puts both on `PypilotState`: the driver's bytes pass
through a line that loses, adds and damages them and cuts them anywhere;
`Rudder::update`, `reset`, `update_minmax` and `poll` are operators on the rudder
record; `ApplySentence`, `ApplyRudder` and `AssignAngle` are its other writers. The
last is `set_real` of `rudder.angle`, which clients may not call; that of
`servo.voltage`, `servo.current` and `servo.engaged`, likewise called by nothing in
src/, is left out. The rudder's
`scale` and `nonlinearity`, which nothing in the code changes, are their defaults;
damage to a packet is a burst of eight consecutive bits at most
(`BurstsAreShort`), what an eight-bit checksum is made for;
time stamps, which nothing reads, are left out. Commands to the driver are part of
`Autopilot`.

## What the runs check

| Run | Instance | Properties |
|---|---|---|
| `autopilot` | headings around north and south, commands outside one turn, servo commands beyond full | `TypeOK`, `ShownIsSent`, `SteersShortestWay`, `OffIsReleased`, `DriveFollowsSwitch` |
| `autopilot_off` | one of each | `OffIsNotDriven`: violated |
| `server` | a boolean and a real field, requests of one to four entries that may fail in the middle, clock 0..3 | `TypeOK`, `OneSlotPerField`, `WatchNeverRefused`, `NoLostUpdate`, `OnTheBeat`, `ChangesAreShown` |
| `server_rudder` | `rudder.angle` beside a boolean, periods 0, half a microsecond and 2 | `DueWindow`, `KeepsTheBook` |
| `server_torn`, `server_negative`, `server_silent` | one field or two | `OutputEndsWithALine`, `WatchesAreQueued`, `ControlChangesAreQueued`: violated |
| `event_loop` | 2 slots, 3 registrations, delays 1 and 2, clock 0..3, 2 nested passes | `TypeOK`, `HandlesAreUnique`, `OncePerBeat`, `NoBurst`, `NoDrift`, `SettledIsSilent`, `TimersFire` |
| `client` | 2 names, 2 periods, 2 watch slots, 2 pending slots, 2 connections, 3 calls; symmetric in names and periods | `TypeOK`, `RememberedIsTold`, `OrderIsKept`, `EveryCallIsSomewhere`, `NoEventLeaks` |
| `session` | 1 name, values 0, 7 and 75 (75 cut short reads as 7), 2 pending slots, 2 connections, 2 calls | `TypeOK`, `RememberedIsServed`, `NothingLingers`, `MirrorIsGenuine`, `MirrorConverges` |
| `line_reader` | a buffer of 2, lines of up to 6 of three characters, one of them CR | `TypeOK`, `BufferIsTheEnd`, `FeedsLines` |
| `instruments` | rudder and flags packets, 3 inputs, 1 fault: bursts of one and of eight bits, a stray or lost byte, a damaged character in one of five sentences; a rudder value that a lost byte forges | `TypeOK`, `ShownIsLastSaid`, `NothingForged`, `EngagedIsExplained`, `ServoAngleHasASample`, `PollKeepsTheSample`, `GoodChecksumIsGenuine` |

What they show, in the order of importance:

- With the switch on, every iteration's packet turns the boat the short way
  round, whatever a client wrote before (`SteersShortestWay`). Once an iteration
  has seen the switch off, all further off iterations release the driver
  (`OffIsReleased`), and the drive follows a switch that is left alone
  (`DriveFollowsSwitch`), whatever the driver's flags say meanwhile. The command
  that is shown is the one that was sent, and between two iterations that see the
  switch on the driver is not released (`ShownIsSent`). What is *not* so is that
  `servo.engaged` agrees with what the driver was told: a FLAGS packet sets it
  until the next iteration puts it right.
- The watch table keeps one slot per field over every sequence of requests, has
  room for each, loses no update of a field only the registry writes, and keeps
  periodic watches on their beat however late the poll.
- The event loop calls no timer early, twice for a beat, in a burst after a
  delay, or after it was cancelled or spent, even by a nested pass that its own
  callback started; handles of reused slots are not confused; every due timer is
  reached.
- A reconnect restores every remembered watch with its latest period whatever
  older lines the queue held; without a fault, order is kept over reconnects; a
  call's line is always in exactly one place; no poll is left in the loop's table.
- End to end, once a sound connection has settled, the server serves every watch
  the client remembers (`RememberedIsServed`), and without a fault nothing the
  client gave up (`NothingLingers`); the client never shows a value the server
  has not had, although connections die within lines (`MirrorIsGenuine`), and
  its copy of a watched value catches up (`MirrorConverges`).
- The line reader delivers what fits, and of what does not a part of one line,
  never of two, however often the buffer overflows.
- Whatever the pieces the driver's bytes come in, and whatever damage hits single
  packets, the last intact word on each channel is what is shown
  (`ShownIsLastSaid`) and nothing the driver did not say. After a lost or added
  byte the parser may show what nobody said, but only where two packets that were
  sent give, out of step, four bytes with the right checksum by chance
  (`NothingForged`). The
  rudder's poll does not take its own sample for another device's
  (`PollKeepsTheSample`), and no angle computed from a sample outlives it
  (`ServoAngleHasASample`).

Two things the models made plain and no document denies: after a lost or added
byte the servo parser never falls back into step, since it drops four bytes on a
bad checksum (`ShownIsLastSaid` excludes that case by `~slipped`, and
`NeverBackInStep` proves it); and
`feed_line` applies sentences whatever their checksum. The sentence of
`tests/test_nmea.cpp:12` is one: it carries 2B, its checksum is 2D.
`GoodChecksumIsGenuine` says what a reader of `checksum_ok`, of which there is none
yet, could rely on: with one character damaged, on everything but a new star in
the body. `$HCHDT,6.49,T*12` with its point made a star passes, and says heading 6;
the run has this sentence.

### Disagreements with the documents

- `autopilot_off`: ARCHITECTURE.md makes `PypilotState` the only runtime state
  store, but the servo decides on a copy. The first iteration after the switch
  goes off repeats the last command to the driver; the next one releases it.
- `server_torn`: a watch on `rudder.angle` before the first sample leaves
  `rudder.angle=` without a newline, and swallows the next line.
- `server_negative`: a negative period is accepted and never served.
- `server_silent`: immediate watches of what the control loop writes
  (`ap.heading` and seven others) report the first value only, because
  `PypilotState` is written past the registry's marks.

### Bounds

Each module names its own: `MaxTime`, `MaxHandles`, `MaxDepth`,
`MaxConnections`, `MaxCalls`, `MaxUnread`, `MaxAhead`, `MaxLine`, `MaxInputs`,
`MaxFaults`. The clock needs to pass two periods for a beat to
be missed; three registrations over two slots make a slot change hands under a
stale handle; two nested passes are a pass and one inside its callback; two
connections are a reconnect, and three calls are two about one subject with one
between. In the session one unread line is enough to die within and another
set arrives while it is there; two calls are a request and what revises it. Lines
of six characters in a buffer of two overflow it twice. Three packets are a value,
its change and one on another channel, in any pieces; one fault at a time is what
the checksum is made for.

`MCSymmetry` permutes names and periods of the client. It is sound: the module
compares them for equality only, and the run has no liveness property.

The safety properties of the event loop, the server, the autopilot, the client,
the line reader, the session and the instruments are also proved without bounds
(`NothingForged` for one fault, and for any number of them while no byte is lost or added), so that their runs serve to
find mistakes cheaply. `client`, `session` and `instruments` switch the deadlock
check off: their calls, connections and inputs are bounded, and then there is
nothing left to do.

### Fairness

- `Autopilot`: weak fairness of `Iteration`. The main loop
  (`examples/linux_autopilot_main.cpp:14`) calls it unconditionally.
- `PypilotServer`: weak fairness of handling the entries of a request, which is
  a loop without a wait, and strong fairness of `Poll`, which the same main loop
  calls after every burst of requests. The example's loop is bounded to three
  rounds and says that the long-running server replaces it; the assumption is
  about that server.
- `EventLoop`: weak fairness of starting a pass when none runs (`run_forever`)
  and of moving a pass along; strong fairness of a callback returning, because
  it may start nested passes before it does. Nothing is assumed of the clock.
- `Session`: weak fairness of the steps of `on_connect`, which runs to its end; of
  handling a line, an entry, and of `Poll`, as for the server; and of reading
  while the client's loop has a poll for it (`line_event_` is set), because the
  loop calls every poll on every pass. Nothing is assumed of the transport: a
  line counts as sent when it can be handled, and connections may die for ever.
- The other modules have no liveness property and state none.

## What is proved

All theorems hold for every value of the constants that satisfies the named
assumptions of the module.

- `AutopilotProofs`. Inductive invariant: the types, `ShownIsSent`, and
  `CopyIsWhatWasSeen`, which says that `ap_enabled_` is what the last iteration saw
  of the switch. `OffIsReleased` needs it, because the poll decides on
  `ap_enabled_`; that no client and no telemetry writes this copy is what keeps it.
  `SteersShortestWay` rests on an arithmetic lemma about `Resolv` and holds for
  all integer headings and commands, not just those of one turn. `DriveFollows` is
  the liveness property; see below.
- `PypilotServerProofs`. `OneSlotPerField` is inductive with the types.
  `WatchIsNeverRefused` is a counting argument: were no slot free and none the
  field's, `OneSlotPerField` would map the slots one to one to the other
  fields. `AlwaysOnTheBeat` is about the division in `NextDue`.
  `UpdatesAreNeverLost` assumes that `rudder.angle` is not among the fields: then
  every line is complete, and an update is in its mark or reported.
  `AlwaysWithinAPeriod` needs the table's types and that a request's watch is
  booked with the period it asks. `ImplementsTheBook` maps a field to the one slot
  that is its; `OneSlotPerField` makes that a function, and each action of the
  server is then one of the book's or leaves it as it is.
- `PypilotClientProofs`. Four inductive invariants. `NoEventLeaks` is inductive
  with the types. `EveryCallIsSomewhere` is strengthened to `Placed`: one set of
  places per call, of which a line's move changes one. `RememberedIsTold` needs
  that a name is remembered once, that a healthy connection has no fragment, and
  that the slots behind the replay's position are told already. `OrderIsKept`
  rests on `QueueInOrder` (the last waiting line about a subject carries what was
  asked last, and waiting lines leave no gap for a newer one to slip into) and on
  `WatchesAsked` (what is remembered is what was asked).
- `SessionProofs`. The session is a behaviour of each end (`IsClient`,
  `IsServer`), so that what is proved of `PypilotClient` and `PypilotServer` holds
  of it: the ends' proofs are instances `CP` and `SP` and their theorems are
  cited, not repeated. `Typed` is about what lies between: a line begun belongs to
  the connection in use and is alone in the reader's buffer, which is why a reset
  at each connection is needed for `Genuine` (every value shown or under way is
  one the server has had). `RememberedIsServed` needs `Promised`: for each name the
  server was last told to watch, either the last line under way about it asks so,
  or nothing about it is under way and the server serves it or has the request at
  hand. It is kept because a whole line goes behind all others about its subject,
  lines are lost only with their connection, from which the next one inherits
  nothing in `told`, and the server refuses no watch
  (`SP!WatchIsNeverRefused`). The client's `RememberedIsTold` then turns what was
  told into what is remembered. `NothingEverLingers` is the converse and needs
  more: `Explained` says that a watch the server will come to is one the client
  asked for last, or that a line about it still waits in the client's queue, whose
  order (`OrderInv` of the client) makes its last line say what was asked last. It
  has a hypothesis, `RoomForNames`: with more names than slots, `watch` sends the
  server a request that the client's full table does not remember.
- `LineReaderProofs`. `BufferIsTheEnd`, stated with the history `skipped`, is
  inductive and says which part of the line the buffer holds;
  `ImplementsLineFeed` follows with `skipped` as witness.
- `EventLoopProofs`. The invariant `LoopInv` adds to the properties: clocks of
  passes lie in the past; handles not given out have no history; an active slot
  was never cancelled and, as a one-shot, never fired; and an active timer stands
  on the n-th beat of its registration for some n that is at least the number of
  calls made. The last is what makes `OncePerBeat` inductive: a call uses up beat
  n, which the pass's clock, hence the present, has reached. `SettledStaysSilent` is
  about the start of a callback, of a timer or of a poll.

- `ServoProtocolProofs`. The checksum's table is defined from eight shifts; that a
  shift, hence the table and `Crc8`, is linear over the exclusive or is proved bit
  by bit, once for a byte's eight bits, and the table then follows without looking
  at its 256 entries. So the checksum of a damaged packet differs from that of the
  intact one by a syndrome of the damage alone, and `BurstIsCaught` says that no
  burst of eight bits or fewer has syndrome 0: within a byte because the table
  takes only 0 to 0, across two bytes by running the shifts backwards from the
  second byte (`CrcTableAcross`). The other
  half is about streams: `Latest` of two streams put together is that of the second
  on top of the first's (`LatestOfConcat`), and what a feed applies and what it
  leaves in front of the rest together say what the stream said (`FeedOfStream`).
- `InstrumentsProofs`. The inductive invariant `IInv` adds `InStep` to the types and
  the local conditions of servo and rudder: while no byte was lost or added, the
  bytes kept and those under way are whole packets, and the last intact value of
  a channel is what `Latest` makes of them on top of the sample shown. It speaks of
  the whole stream, so that a feed, which moves bytes from one side of the cut to
  the other, changes nothing in it; sending appends a packet that passes
  (`EncodedDecodes`) or one that does not (`BurstIsCaught`). `ShownIsLast` is its
  case of an empty wire. `RudderOk` has the conjunct behind `PollKeeps`: a sample
  that is there is a number, and of a device with a name. `AngleHasASample` goes
  writer by writer (`UpdateOrphans`, `NoNewOrphans`): each that takes the sample away
  takes the angle with it.
- Out of step. Two more invariants of `InstrumentsProofs` say where the stream
  stands after one fault. `Framing`: as long as there is none, every quadruple of it is
  a packet that was sent; after a lost or added byte it has a torn end (`TornEnd`),
  three bytes left over, of a packet that lacks one, or a single one. `Quiet`: its
  whole quadruples say nothing but what was said or what two packets say by chance
  (`Chance`). Sending completes the torn end to
  a quadruple of two neighbouring packets (`OutOfStep`) and leaves a new one of the
  same length; sending and feeding put on and take off four bytes at a time
  (`OneMorePacket`, `FeedTakesPackets`), and the fault itself makes the torn end from
  whole packets (`SlipFraming`). `NeverBackInStep` follows for all telemetry: the
  length of the stream is then never a multiple of four, and no feed changes that.
  `NothingForgedByOneFault`, and `NeverForged` for the run's invariant as it stands,
  hold without any condition on the values sent, since `Chance` is part of the
  property. It is not empty: with eight bits of checksum about one pair of
  values in 120 gives such a quadruple. Of rudder 32731 (bytes 167, 219, 127, 12)
  sent twice, the third byte of the first lost, the parser makes 167, 219, 12, 167,
  and shows rudder 3291; the run sends this value. What the property excludes is
  everything else: a damaged packet, a packet of another channel, or a torn end that
  does not pass, read as a value.
- `GoodChecksumsAreGenuine` has one hypothesis about sentences, which `MCInstruments`
  assumes of its instance and TLC checks. `Conforming`: one star, two characters
  before the end, and a good checksum. The property itself excepts lines in which
  damage made a star of a character of the body (`cut`), since `checksum_ok` looks at
  the first star and not at the end of the line. Everything else is
  `OneCharacterIsCaught`: two bodies that differ in one character differ in the
  parity of a bit.

Two liveness properties are proved from fairness up to one fact each about
`ENABLED`, which the provers do not expand and which stands as a hypothesis in the
theorem:

- `DriveFollows` (`DriveFollowsSwitch`) assumes that an iteration is enabled as a
  changing step wherever something is not `Unmoved`. `Iteration` has no guard, and
  the lemma `UnmovedIsStill` proves that an iteration changes something exactly
  there, so that the hypothesis says no more than that assignments can be made. What
  is proved is the argument from there: one iteration commands the driver, two
  release it, and no other step of anyone undoes what was sent; what is shown is
  overwritten by telemetry and put right by the next iteration.
- `ChangesAreShownAgain` (`ChangesAreShown`) assumes that `Poll` is enabled where the
  server is idle and a mark is set, and `[]<>Idle`: that requests come to an end,
  which follows from the fairness of `HandleEntry` by induction on the length of the
  request, a temporal induction the provers cannot do. The rest is
  `UpdatesAreNeverLost`: when no mark is left, what is watched is shown. Like that
  theorem it leaves `rudder.angle` out.

TLC checks both properties on the runs, where nothing is assumed but the fairness.

Only model-checked:

- `TimersFire` and `MirrorConverges`: a pass reaches a slot after as many steps as
  there are slots before it, and a line is handled after those ahead of it; both
  are inductions over temporal formulas.
- `NothingForged` after a second fault when one was a lost or added byte. Then a
  quadruple may be of three packets, or be damaged besides, and `Chance` is too
  small. The run has one fault.
- What `SplitFields` and `ParseReal` make of a field: they are used in the proofs as
  functions of the sentence's body and nothing is proved about them.

## Not modelled, and the plan

What is left, in this order:

1. Proofs: that `SplitFields` cuts a body at its commas and loses nothing; the
   safety half of `TimersFire`, that no pass leaves a timer behind that was due when
   it began.
2. `Servo::command`, `stop`, `reset` and `take_driver_tx`, which nothing in the
   repository calls yet.
3. `Wire`: pure operators for numbers and strings on the wire, and `resolv` as its
   loops in single precision, against reference definitions.
4. Two clients at one server, once something in the repository connects them.

Left out for good: the other pilots, `Sensors` and the remaining stubs, which
change no state; `syslib/event_loop*.hpp`, an older copy of the event loop that
the library does not use; the TCP interfaces, which are abstract classes whose
implementations are not in this repository; configuration constants; the
formatting of numbers and of the `values` listing.
