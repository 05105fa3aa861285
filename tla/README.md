# A TLA+ model of xPipeline (gollum)

xPipeline is a Go program that reads messages with *consumers*, distributes them over named
*streams* and writes them with *producers*. Everything is a plugin; a YAML configuration says which
plugins run and how they are connected. Every plugin is several goroutines that share run states,
channels and counters, filters and formatters are called by whatever goroutine has a message, and the
pipeline has to be taken down while messages are still under way.

This directory holds TLA+ modules for the program, TLC configurations that check them on small
instances, and proofs checked by TLAPS. `PROJECT.json` lists the runs, the source lines behind every
definition, the mutants (one plausible bug for each property that the property catches), the hazards
and the theorems.

## Parts of the system

| Part | State | Operations | Interacts through | What makes it correct |
|---|---|---|---|---|
| Producer base (`core/producer.go`) | run state, message channel, control channel, dependencies, fuse timer | `Enqueue`, `Drop`, message loop, control loop, `CloseMessageChannel`, `WaitForDependencies`, fuse check | called from consumer goroutines; drops into streams; watched by other producers | every message ends once; nobody sends on a closed channel; stop in dependency order |
| Message (`core/message.go`) | – | `Enqueue` with a timeout (-1, 0, > 0), `Route`, `Serialize` | channels | sent or dropped or discarded, never two of them |
| Message batch (`core/messagebatch.go`, `shared/waitgroup.go`) | two buffers, packed index and ticket count, done counts, flush counter, closed flag | `Append*`, `Flush`, `Close`, `AfterFlushDo` | shared by any number of goroutines; an assembly goroutine per flush | nothing lost, doubled or read while it is written |
| Stream base (`core/stream.go`) | producers, distribute function, pause channel | `AddProducer`, `Enqueue`, `Route`, `Pause`, `Resume`, `Flush` | called by consumers, calls producers | order and conservation of messages |
| Routing streams (`stream/`) | route list, round robin index | `Broadcast`, `Random`, `RoundRobin`, `Route` | streams, producers | each target gets its copy; index stays valid |
| Filters (`filter/`) | counters per stream (`Rate`, `Sample`), settings | `Configure`, `Accepts` | called concurrently by producers and streams | limits hold; a message keeps its turn |
| Stream registry (`core/streamregistry.go`) | streams, wildcard producers, fuses, counters | `Register`, `GetStreamOrFallback`, `LinkDependencies`, counters | all plugins | listeners attached once and where they belong; dependencies without cycles |
| Multiplexer (`multiplexer.go`, `main.go`) | plugins, worker groups | `newMultiplexer`, `run`, `shutdown` | control channels, wait groups, signals | configuration order; shutdown ends and is clean |
| Consumer base (`core/consumer.go`) and consumers | run state, control channel, fuse | control loop, fuse loop, `EnqueueMessage` | streams, fuse, control channel | stops when told to; callbacks alternate |
| Fuse (`shared/fuse.go`) | flag, condition variable | `Burn`, `Activate`, `Wait` | producers burn, consumers wait | no waiter sleeps on an active fuse; a burned fuse recovers |
| Files consumer (`consumer/files.go`, `tidings/`) | walker, concurrency budget, counts | `start`, `process`, report, interrupt | metrics, control channel, signals | the report is exact; the budget holds |
| Metrics (`shared/metric.go`) | named counters under a lock | `New`, `Inc`, `Dump` | everybody | counts are exact; no deadlock |
| Writer assembly (`core/writerassembly.go`) | reused buffer, writer | `Write`, `Flush`, `SetWriter` | message batch, a connection | every message written, handed back or given up; both only where a connection breaks off |
| Buffered reader (`shared/bufferedreader.go`) | buffer, begin, end | `ReadOne`, four framings | consumers | every complete message once, in order |
| Parser and trie (`shared/transitionparser.go`, `trie.go`) | tokens, stack of states | `Add`, `Match`, `Parse` | JSON formatter | every token is found |
| Formatters (`format/`) | settings; state of the JSON parser | `Configure`, `Format` | called by streams and producers, chained | what one writes its counterpart reads |
| Configuration (`core/pluginconfig.go`, `shared/marshalmap.go`) | settings of a plugin | typed getters | `Configure` of plugins | conversions and defaults |
| Log (`core/logconsumer.go`) | – | a consumer that stops first | log package | – |

What is hard here: the run state is checked in one step and used in a later one (`Enqueue` checks,
sends and then sets the state); two goroutines of a producer receive from the same channel while it is
closed; shutdown waits for goroutines only if they have counted themselves; dependencies decide who may
still drop into whom; batch, streams and counting filters use plain fields and atomic words from many
goroutines; the fuse uses a condition variable without its mutex; a read lock is taken twice; a buffer
moves while a message in it is incomplete; a formatter keeps state from one message to the next.

## Modules

| Module | Code | Checked by | Proofs |
|---|---|---|---|
| `Dependencies` | `LinkDependencies`, `DependsOn`, the stop command | `MCDependencies` | `ProducerProofs` |
| `MessageBatch`, `Batch` | `MessageBatch`, `WaitGroup`; what they promise | `MCMessageBatch` | `MessageBatchProofs` |
| `Pipeline` | `ProducerBase`, `Message.Enqueue`, consumer goroutines, `shutdown` | `MCPipeline` | `PipelineProofs` |
| `Fuse` | `Fuse`, fuse control of producers and consumers, start of `shutdown` | `MCFuse` | `ProducerProofs` |
| `Registry` | `newMultiplexer`, `streamRegistry`, `AddProducer` | `MCRegistry` | `RegistryProofs` |
| `Stream` | `StreamBase` with `Pause`, `Resume`, `Flush` | `MCStream` | `StreamProofs` |
| `Delivery`, `Filters` | the streams of `stream/`, `filter.Rate`, `filter.Sample`; the other filters | `MCDelivery` | `DeliveryProofs` |
| `Reader`, `Wire`, `Channel` | `BufferedReader`; `WriterAssembly` at the other end; what both promise | `MCWire` | `WireProofs` |
| `Metrics`, `Files`, `Startup` | `Metric`; the files consumer; the process from configuration to exit | `MCStartup` | `StartupProofs` |
| `Text`, `MarshalMap`, `Configuration` | text helpers, `MarshalMap`, `PluginConfig` | `MCFormatting` | – |
| `Trie`, `TransitionParser`, `JSONFormatter` | `TrieNode`, `TransitionParser`, `format.JSON` | `MCFormatting` | – |
| `Formatters`, `ProcessTSV`, `ProcessJSON`, `FormatterConfig`, `Formatting` | the formatters of `format/`, their `Configure`, messages sent through them | `MCFormatting` | – |

How they are composed: `Files` extends `Metrics` and `Startup` extends `Files`, so the shutdown of the
process is checked with the walker and the lock it competes for. `Wire` extends `Reader`, and implements
`Channel`. `Formatting` extends the formatters, the parser and the configuration. `Registry` explains how
the `dropListeners` of `Dependencies` and the listeners of `Pipeline` come about; `Dependencies` proves
that what it computes is an order, which is the constant `DependsOn` of `Pipeline`; `Pipeline` shows what
that order is good for. `Stream` and `Delivery` treat a producer as one step, which `Pipeline` takes
apart; that batches do not overlap, which `Wire` takes for granted, is what `MessageBatch` shows.

### Dependencies

`dropListeners` is chosen freely in `Init` and stands for what the registry has attached to the drop
streams. `LinkDependencies`, `LinkChild` and `LinkReturn` are the loop of the configuration, one child
per step. After that every producer may get its stop command (`ReceiveStop`), pass its dependencies one
by one (`WaitForDependency`: dead, or timed out), and set its states. `EnqueueSend` and `EnqueueReturn`
are the two ends of an `Enqueue` call, whose last act sets the active state whatever has happened since.
`DependsOn` is reachability, defined without recursion; `MCDependencies` compares it with the search as
it is written in Go.

### MessageBatch

One step per atomic operation, slot write and slot read. `activeSet` is the record `[idx, count]` of the
packed word, with the carry from the count into the index (`Increment`, range `CountRange`). Each
goroutine has a program counter, and a second one for the assembly goroutine its flush has spawned; a
goroutine cannot spawn a second one before the first is done, which `OneFlushAtATime` shows. History
variables record what was accepted, rejected and assembled.

`Batch` is what producers rely on: a message is accepted or refused, an accepted one is handed to the
callback once and in the end, and a `Close` that waits without a limit leaves no message behind but those it
came too late for (`loose`). `BatchOfMessages` maps accepted messages that are not assembled to `pending`, or
`loose` when they are in `late`. A panic of the callback ends all promises (`Break`), because `Flush` then
keeps its old done count.

### Pipeline

The calls a goroutine has still to finish are a stack (`work`), because `Enqueue` may drop, and the drop
calls `Enqueue` of other producers. A producer is a message loop (`loop`), a control loop (`control`)
and, while its channel is emptied, a flush worker (`flush`). `Counted` says who calls `AddMainWorker`:
the console consumer and the benchmark producer do not. `Reads` says what each source reads, `Timeout[p][m]`
which timeout a message meets at a producer: `StreamBase` passes its `TimeoutMs` on, if it has one, and else
the producer takes its `ChannelTimeoutMs`. `Closing` says whose stop callback closes the
channel: benchmark's does not. A panic in a goroutine ends the process, also below `DontPanic`: the
recovery sends an interrupt, and shutdown has switched the handler off.

### Fuse

`Wait` takes the mutex, looks at the flag and sleeps, in three steps; `Activate` clears the flag and
broadcasts, in two. A producer's control loop, its check goroutines (a counter per label) and its timer
are separate actors, as are a consumer's worker, its fuse loop and its control loop. One fuse is enough:
fuses are independent of each other.

### Registry

The phases of `newMultiplexer`, for every configuration of the producers over the given lists of
streams. A producer whose `Configure` fails is skipped, as in the code (main ignores the error). The
stream plugins are registered in any order, the producers are linked in theirs: `LinkDependencies` lists
the pairs of a producer and the listeners of its drop stream (`links`), `LinkChild` looks at one after the
other. While running, routing to an unknown stream creates it.

### Stream

Nothing guards the fields of a stream, so every access is a step. Channels are numbered in the order in
which `Pause` makes them, and each has the goroutine `Resume` starts for it. `calls` (who calls what)
and `hasProducers` are chosen in `Init` and never change.

### Delivery and Filters

A configuration (`conf`) names a filter, a stream, the goroutines that enqueue and the producers
attached; `Init` chooses one of them. `Enqueue` is the filter, then the distribution. `Sample` increments
its counter and wraps it in two steps; `Rate` looks its state up under a read lock, creates it under
another lock, and compares and counts in two steps, with `Tick` for the windows; `RoundRobin` increments
its int32 index with an overflow at `conf.max`; `Route` walks over its list, binds late routes and
removes the ones that do not exist, one access per step. `Filters` holds `Configure` and `Accepts` of all
other filters; `MCDelivery` uses it to compute which messages a nested `Any` filter rejects.

### Reader and Wire

`ReadOne` is a read of any number of bytes that have arrived, followed by one of `Deliver`, `Wait`,
`Compact`, `Grow` and `Panic`. The four framings are operators that return the length of a message, where
it starts and what follows. The writer assembles a batch in a buffer it reuses, looks its writer up
under a lock and uses it after that, and may write less than all of it, lose its connection, or be told
by its validator that nothing was taken. What the formatter of the producer puts around a message is the
counterpart of the framing of the reader.

`Channel` is the abstract specification: messages are sent in some order, received once, in that order,
unchanged, and in the end all of them, unless the channel breaks. `Wire!ImplementsChannel` checks that
writer, wire and reader implement it. The refinement mapping makes `sent` the messages that are on the wire as a
whole, up to the first one that is empty to the reader, which is the message it never gets past.

### Metrics, Files, Startup

`Metrics` models the read-write lock of `sync.RWMutex` with its preference of writers. `Files` steps
through the entries of a walk, skips, filters, waits for its budget, and starts a goroutine per file that
counts slices and bytes; the walker waits for all of them, reports, and interrupts its own process.
`Startup` adds main (configuration, launch, signals, the two waits of `shutdown`), one goroutine per
plugin with a control channel of one place, and requests to the metrics server. `unseen` is history: a
plugin counted itself after shutdown had already looked at the wait group. `Alive` ends everything when
main has returned or a signal without a handler has arrived.

### Formatters and parsers

The pure code, as operators. A text is a sequence of characters, but only as many as the properties tell
apart. `Format` is the dispatch over the types of formatters with their chains; `FormatterConfig` builds
a formatter from settings, so that settings two formatters share (they all read the same ones) are part
of what is checked. `JSONFormatter` keeps the state it has after a message for the next one.
`Formatting` sends a message through a stream's, a producer's and a receiver's formatter, documents
through the JSON formatter, and tokens into a trie.

## Runs

| Run | Shows | Bounds |
|---|---|---|
| `dependencies_stop` | linking orders all drop listeners, without a cycle; the Go search agrees; the stop commands end, in that order | 3 producers, all 512 choices of drop listeners, 1 late `Enqueue` each |
| `batch` | exclusion of flushes, no writer in an assembled buffer, nothing lost or doubled, `Close` flushes; implements `Batch` | 3 goroutines, 2 messages, 1 slot and 3 tickets (appends fail), 1 panic |
| `pipeline_shutdown` | no message vanishes or is handled twice, closed channels, order of the stop, no revival, shutdown completes | 2 sources (one not counted, which reads 1 of the 3 messages), 2 producers with a drop chain, capacities 2 and 1, streams whose timeouts discard, drop after a while and block, both producers with a positive shutdown timeout |
| `fuse_burn` | a burned fuse is watched and recovers, callbacks alternate | 2 producers, 1 consumer, 2 commands besides the ones the checks send |
| `fuse_wakeup` (violation) | a lost wakeup | 1 producer, 1 consumer, 1 command |
| `registry` | who is attached to what, and the order of the drops | 3 producers, 2 user streams, 7 stream lists, 3 drop streams |
| `registry_wildcard` (violation) | wildcard producers that are not attached | 2 producers |
| `stream_pause` | order with one user, conservation with two, processed messages are sent unless the only user fills the channel | 2 goroutines, 4 messages (1 filtered, 1 rerouted), 2 pauses, capacity 1 |
| `delivery` | turns of `Sample`, limits of `Rate`, routes, round robin, conservation | 2 goroutines, 5 messages of 2 streams, 10 combinations of filters, streams and users, 2 producers, 3 routes (1 late), an index that wraps after 1 or never |
| `wire` | bytes, messages and memory of the reader; what the writer did with every message; implements `Channel` | 7 framings, writers with every combination of error handler and (for a flushing one) validator, 4 messages (1 empty, 1 longer than the buffer with its frame) in 3 batches, growth by 3, every way to cut the stream, 1 `SetWriter` |
| `startup` | the report is exact, the budget holds, producers outlive consumers, a signal ends the process | 7 entries (skipped directory, unreadable file, error, wrong pattern, two slices and a rest), budgets 0 and 1, 3 plugins, 1 signal, 1 request, 2 late metrics |
| `formats` | formatters and counterparts, fields, documents and tokens | 19 configurations with 4134 inputs together, 142 documents and 2 truncated ones in sequences of two, up to 4 tokens out of 6 in any order |

The bounds make the interesting cases happen: a buffer and a channel can be full, two goroutines meet in
every pair of steps, three producers can form an indirect cycle, a message can be dropped from one
producer to the next and from there to nowhere, a message is longer than the buffer of the reader, a
trie node is split and its children sorted again. In `pipeline_shutdown` both producers give up after their
shutdown timeout, as they do by default: p1 on its message handler, p2 on p1. TLC reaches the states in which p1
then drops to p2, and ends the process or revives p2; in all others the order of the stop holds. p1 has room for
a message for the flush worker and one behind it, p2 for one message. The counters of messages play no part in its properties and have one value (`CountRange`). Producers are interchangeable in the registry, where
symmetry is used; runs with temporal properties use none. The strengthened invariants of the batch
(`TicketInv`, `ContentsInv` in `MessageBatchProofs`) were checked during development with 3 messages
and 2 slots as well. All runs switch the deadlock check off, because every model ends in states in which
everything has stopped; that nothing stops too early is what `AllStop`, `ImplementsBatch`,
`ShutdownCompletes`, `FuseRecovers`, `ProcessedIsSent`, `ImplementsChannel` and `ExitEndsProcess` say.

Some invariants are conjunctions of named parts, checked as one: `NeverLostNorDoubled`,
`StoppingIsOrdered`, `FuseInvariant`, `RegistryInvariant`, `StreamInvariant`, `ReaderKeepsItsBounds`,
`FormattersFit`. The type invariants of `Pipeline`, `Fuse`, `Registry` and `Stream` are part of these;
those of `Dependencies` and `MessageBatch` are proved instead.

`CountRange`, `MaxTickets`, `MaxPanics`, `MaxInFlight`, `MaxCommands`, `MaxPauses`, `MaxTicks`,
`MaxSetWriter`, `LongestWrite`, `MaxDumps`, `MaxNew`, `MaxLateNew`, `MaxSignals`, `MaxMessages` and
`MaxTokens` are bounds; shutdown in `Pipeline` starts only after all producers have started (`Startup` is
about a shutdown that comes earlier).

### Fairness

Weak fairness of the goroutines: the Go scheduler runs every goroutine again, timers fire, handlers and
callbacks return. Strong fairness where a step competes: the send on a full channel that has room again
and again (Go wakes blocked senders in order), the compare and swap of `IncWhenDone`, the mutex of the
fuse. For `ImplementsBatch` producers flush regularly until the batch is closed, as they do from
their ticker. For `FuseRecovers` a check that is repeated forever succeeds in the end: without that
assumption the resource is simply gone. For `ImplementsChannel` the goroutine of the reader goes on
calling `ReadAll`. Nothing is assumed about the arrival of messages, commands or signals, nor about the
writer.

### Disagreements between code and comments

The two violation runs are listed under "findings". While modelling, these came up as well; the
properties of the passing runs say where they exclude them.

Producers, batch, streams:

- The late `setState` of `Enqueue` (`producer.go:437`) by a goroutine nobody waits for revives a dead
  producer, and the producers that depend on it then wait for it (`Revived` in `AllStop` and
  `ShutdownCompletes`, `Threads \ Protected` in `NeverRevived`). A revived producer's message loop spins on
  its closed channel and shutdown never ends.
- Such a goroutine (the reader of the console consumer) may also send on a closed channel;
  `producer.go:398` says the recover "is not needed" (`Protected` in `NoSendOnClosedChannel`).
- So may a producer that shutdown does wait for. `ShutdownTimeoutMs` is 3000 by default (`producer.go:172`):
  if the message handler of a producer blocks that long, the producer that listens to its drop stream gives up
  waiting for it and closes its channel, while the first gives up on its handler and drops what is left, to
  that channel. The send ends the process, or the `setState` behind it revives the listener (`GaveUp` in
  `Protected`). Without the exception TLC finds both in the instance of `pipeline_shutdown`; with a
  `ShutdownTimeoutMs` of 0 for the listener neither can happen.
- Messages may be left in a channel when the process ends: the message loop, which shutdown waits for,
  ends as soon as the control loop has set the stopping state, and the control loop, which empties the
  channel, is not waited for.
- An append that has passed the `IsClosed` check when `Close` is called is accepted and may never be
  assembled (`late` in `CloseFlushesAll` and `ImplementsBatch`); the comment of `Close` says it
  "disables Append, calls flush and waits for this call to finish".
- A panic of the assembly callback leaves `doneCount` as it was (`messagebatch.go:191`), after which a
  flush of that buffer may not wait for its writers, or spin forever (`panics = 0` in the properties).
- `ReachedSizeThreshold` takes the larger of size and capacity (`messagebatch.go:223`), so a size below
  the capacity has no effect.
- Without a check callback a burned fuse is never activated by the producer (`producer.go:537`);
  `producer.go:243` says it is activated immediately (`HasCheck` in `BurnedFuseIsWatched`).
- `Wait` does not look at the flag again after it was woken and may return while the fuse is burned.
- Wildcard producers attached to a drop stream after the linking (`multiplexer.go:273`) are not ordered
  with the producer that drops (`DropsAreOrdered` speaks of producers that name the stream).
- `Resume` while another goroutine enqueues may panic, or leave a goroutine on a nil channel
  (`SingleUser` in `SentInOrder`).
- A goroutine that enqueues more than a paused stream holds waits for the `Flush` it would have to call
  itself (`Blocked` in `ProcessedIsSent`; `stream.go:197`).

Filters and routing streams:

- `Sample` with a group of one message never resets its counter, and a group of none divides by zero;
  goroutines that meet at the wrap drop messages whose turn it was (`Group > 1` in `SampleKeepsTurns`,
  which says what is not let through, not what is). Its setting is `SampleIgnore`, the documentation
  says `SampleRateIgnore`.
- The first messages of a stream may make two records in `Rate`, and the counts of one are lost
  (`RateHolds` allows for it in the first window).
- Concurrent calls of a route stream that remove routes from the list they iterate over skip, repeat or
  run past the end (`RoutesAreKept` is about one user, or routes that exist). Filtered messages are not
  counted.
- The index of `RoundRobin` becomes negative after 2^31 messages and panics (`index >= 0` in
  `RoundRobinIsFair`).

Reader and writer:

- A message of length zero is taken for one that has not arrived: the reader never gets past it
  (`Deliverable`). A text length without a delimiter is ambiguous when the message starts with a digit.
- The reader panics if a binary length, or the delimiter behind a text length, is cut by the end of what
  has been read in certain places (`panicked`, bounded by `StopsOnlyAtLengths`).
- The comment of `WriterAssembly` says that messages are passed to `Flush` if the writer fails; without an
  error handler the error is only logged (`kept` in `Accounted`).
- A handler that returns false gets the whole batch flushed (`writerassembly.go:103`), also the messages that
  were on the wire when the connection broke off: these are both written and handed back. `Accounted` says
  that, without a validator, this happens to one batch at most and for no other reason.

Process, files, metrics:

- `UpdateSystemMetrics` holds the read lock and takes it again for each metric; a `New` in between
  (configuration, or the rate filter at run time, `rate.go:140`) stops both and everybody else
  (`Stuck` in `ExitEndsProcess`).
- A concurrency of 0 is a budget of one for the first batch and none at all after that
  (`WithinConcurrency` is about positive ones). The bytes of a file that cannot be opened are
  counted, a partial slice at the end of a file is not a message, and files never enqueue anything.
- The walker's interrupt kills the process if the handler is not installed yet, or not any more.
- A plugin that counts itself after the wait of shutdown is not waited for (`unseen` in
  `ConsumersFirst`). A log consumer that looks its stream up before a consumer creates it writes to nil.
- `plugin.go:151` registers plugins for which the lookup has failed.

Formatters, trie, configuration:

- `Add` and `Match` of the trie do not find every token that was added, contrary to the comments at
  `trie.go:111` and `211`: after `aa`, `ab`, `a` the last one is lost, and a token that is added again keeps
  its old payload. `TokensAreFound` states the comments and is false; `DistinctTokensAreFound`, which holds,
  is about tokens none of which begins with another.
- The JSON formatter is not reset after a truncated message, so the next one is formatted as its
  continuation (`clean` in `DocumentsSurvive`); an empty string as a value is written as nothing.
- `SplitToJSON` writes a single component without quoting its key. `Base64Encode` reads the setting
  `Base64Formatter` as its dictionary. A formatter whose base is its own type recurses forever.
- `ProcessTSV` panics on a line that is empty or ends in an empty quoted field (`EndsInNothing`);
  `ProcessJSON` on some directives with too few parameters; `MarshalMap.Path` on a negative index.
- Filters that count and are nested in `Any` count only what the filters before them rejected.

## Proofs

| Theorem | Says, for every value of the constants |
|---|---|
| `ProducerProofs!TypeCorrect` | `TypeOK` |
| `ProducerProofs!AcyclicAlways` | `LinkDependencies` never creates a cycle |
| `ProducerProofs!SearchIsExact` | the recursion of `DependsOn` has one solution, the direct and indirect dependencies |
| `ProducerProofs!WaitsForAllDependenciesAlways` | a stopping control loop has not lost track of a dependency |
| `ProducerProofs!StopOrder` | without a timeout producers stop after their dependencies |
| `ProducerProofs!ShutdownHasNoCircularWait` | the stop commands cannot end in a circular wait |
| `ProducerProofs!ListenersDependOnDroppers` | who listens on a drop stream depends on the dropper, unless drops are circular |
| `MessageBatchProofs!TypeCorrect` | `TypeOK`, the flush counter is never negative |
| `MessageBatchProofs!FlushIsExclusive` | flushes, assemblies and callbacks exclude each other |
| `MessageBatchProofs!WritersAreWaitedFor` | a buffer is assembled only when nobody may still write to it |
| `MessageBatchProofs!EveryMessageOnce` | an accepted message is never lost and never assembled twice |
| `MessageBatchProofs!CloseLosesNothing` | when `Close` returns, all that was accepted before it is assembled |
| `MessageBatchProofs!BatchKeepsPromises` | a batch does what `Batch` may do: hands over once what it accepted, leaves nothing but late messages |
| `MessageBatchProofs!NobodyWaitsInVain` | the flush lock and the spin wait for somebody who goes on |
| `MessageBatchProofs!SpinWaitsForFewer` | nobody becomes a writer of a buffer a flush spins for |
| `PipelineProofs!MessagesEndOnce` | every call of `Enqueue` ends once, whatever the dependencies |
| `PipelineProofs!CountedNeverPanic` | if drops are ordered, no counted source, and no producer unless one has given up, sends on a closed channel |
| `PipelineProofs!StoppingKeepsOrder` | if drops are ordered, `TypeOK`, the dead leave nothing, droppers meet living listeners unless one has given up |
| `PipelineProofs!StoppedStaysStopped` | if drops are ordered, no step of a counted source, nor of a producer unless one has given up, revives a producer |
| `PipelineProofs!BlockedSendsAreReceived` | if drops are ordered, a send of these goroutines that blocks has a message loop that receives |
| `PipelineProofs!NothingGetsStuck` | somebody can go on, or there is no signal yet and all that was read is handled |
| `ProducerProofs!FuseIsSafe` | `TypeOK`, a burned fuse is watched, callbacks alternate |
| `StreamProofs!PausingKeepsMessages` | `TypeOK`, a message is in one place; a single user keeps order and flushes |
| `StreamProofs!FlushComesToAnEnd` | `Flush` waits for somebody; a single user is blocked only before its own full stash |
| `RegistryProofs!StreamsAreComplete` | `TypeOK`; nobody twice, internal streams separate, all attached, drops ordered |
| `RegistryProofs!LateStreamsGetWildcards` | a stream made while running has all wildcard producers |
| `StartupProofs!ReportsAreComplete` | the report has every wanted file once and completely |
| `StartupProofs!ConcurrencyIsKept` | a positive concurrency bounds the files read at a time |
| `StartupProofs!ConsumersEndFirst` | producers are told to stop after the walker, if main could see it |
| `StartupProofs!TypesOfStartup` | `TypeOK`, with the bounds of wait groups and read locks |
| `StartupProofs!ShutdownGoesOn` | but for the nested read lock of the metrics, nobody waits in a circle |
| `WireProofs!RoomToRead` | the indices of the reader stay in order and a read has room |
| `WireProofs!NoByteIsLost` | the window of the reader is the part of the stream it stands for |
| `DeliveryProofs!MessagesAreSettled` | a message is sent as its stream says, or dropped once, or counted, and never both |
| `DeliveryProofs!LimitsHold` | a record of `Rate` grants no more than the limit; in the first second, that for each goroutine |
| `DeliveryProofs!TurnsAreKept` | `Sample` passes only the first messages of a group, its counter is bounded |
| `DeliveryProofs!TurnsAreFair` | until the index wraps around, no producer is ahead of another by more than one message |
| `DeliveryProofs!RoutesGetAll` | one user, or bound routes: every existing route gets a message once, nobody panics |
| `WireProofs!BatchesAreAccounted` | a message the writer is done with is on the wire, handed back once, or kept quiet; without a validator it is both only in the batch that broke the connection off, with a flushing handler |
| `WireProofs!ReaderStaysInBounds` | messages are numbered without a gap, the reader panics only inside a length, the buffer grows only for a message that does not fit |
| `WireProofs!ReaderIsAChannel` | writer, wire and reader do what `Channel` may do: in order, once, unchanged |
| `WireProofs!NothingIsLeftBehind` | a reader that waits for more bytes has delivered everything there is |

Assumptions: `NoProducer` is not a producer and the bounds are natural numbers (`Dependencies`); what
`BatchAssumption` says about calls, messages and sizes, and `TicketAssumption`: the tickets between two
flushes do not reach the bit of the buffer index (`MessageBatch`); `ReaderAssumption`, the buffer grows by
at least one byte (`Reader`); no message is in two batches, which is what
`EveryMessageOnce` shows, and what separates messages has at least one byte, so that a write of no bytes wrote
no message, and `SeparationAssumption`: there are messages, a delimiter is not found in front of the one
that ends a message, and a text length is below 100 (the model writes two digits) and is followed by a
delimiter that does not start with a digit (`Wire`); `Nobody` is not a goroutine that waits on a fuse (`Fuse`); goroutines that use a
stream and goroutines that empty its channels are different (`Stream`); `PipelineAssumption` (`Pipeline`); `FilesAssumption`
(`Files`): the walk is a finite sequence, and what is below an entry follows it and nests; the files
consumer is one of the consumers and no producer, and every configured plugin is an instance of its own (`Startup`); a stream has no producer twice, which is what
`StreamsAreComplete` shows, a route is named once, and goroutines and streams are finitely many (`Delivery`).
Five theorems of `Pipeline` have the hypothesis `OrderedDrops`: who listens on the drop stream of a
producer depends on it, if only through others. That is what `LinkDependencies` does
(`ListenersDependOnDroppers`), unless producers drop to each other in a circle. `MessagesEndOnce` does not need
it. The shutdown timeouts are any. What they cost is in the properties: as soon as a producer with a positive
`ShutdownTimeoutMs` has stopped although a dependency of it has not (`GaveUp`), nothing is said about calls of
producers any more, but only about those of the sources shutdown waits for (`Protected`); with timeouts of 0 that
never happens. `NothingGetsStuck` assumes besides that dependencies are not circular, which is what
`AcyclicAlways` shows, and that the producers main waits for close their channels, as the console
producer does, the only one that counts itself; once one has given up, it is about configurations in which all
producers close their channels. No other set is assumed finite except where `Acyclic` quantifies over subsets.

*Acyclic.* "Every non-empty set of producers has one that depends on nobody in it." The key lemma,
`AddDependencyAcyclic`, takes a set that would violate this after child has got the new dependency
parent. The child must be in it, and everything else of it depends on something in it as before; the
check `~DependsOn(parent, child)` gives a closed set that contains the dependencies of parent and not
child, and what that set (with parent) shares with the violating one would have been a violation before.

*Search.* A call of `ProducerBase.DependsOn` returns what its equation says in terms of the calls it makes
(`IsSearch`). The dependencies solve the equation; where they are not circular nothing else does: a smallest
producer (`Acyclic`) for which another solution found too little, or too much, would have a dependency for
which it does.

*Stop order.* `StopsAfterDependencies` is not inductive: it says nothing about a loop that still waits.
`WaitsForAllDependencies` adds that every dependency is in `waitsFor` or has returned, that only a loop
that has returned is seen as dead, and that nobody stops before the configuration is done, so that
dependencies do not grow any more. `NoCircularWait` follows from it and `Acyclic`, applied to the set of
the loops that have not returned.

*Exclusion of flushes.* `OneFlushAtATime` contains its own strengthening: the counter is 1 exactly if
somebody is between `IncWhenDone` and `Done`. Its proof needs `LocalsOK`, which says in which methods a
goroutine can be at each label. `CounterOfNat` is the arithmetic of the counter.

*Writers of a buffer.* `NoWriterInAssembledBuffer` needs to know what `doneCount` counts. `TicketInv` says:
of each buffer as many tickets have been drawn as are done or with a goroutine (`Busy`), where the number
drawn is in `activeSet` for the active buffer and in the local `set` of the flush for the other one. When the
spin of the flush ends the two numbers are equal, so nobody is busy; and nobody becomes busy with a buffer
that is not active. That the swap takes the buffer it has loaded is where `TicketAssumption` is needed.

*Contents of a buffer.* `ContentsInv` has three parts. `WritersInv`: tickets that are not written yet are
different, and of slots a flush will look at. `HoldersInv`: a message an append method has not accepted is
with one goroutine and nowhere else. `SlotsInv`: a slot that will be flushed and is not waited for
(`Filled`) has an accepted message that was not assembled, no two have the same, and every accepted message
is assembled or in such a slot. A ticket makes no slot filled, a write fills exactly the slot of its ticket
(by `WritersInv`, with a message that is new by `HoldersInv`), and the assembly empties one, in a buffer
without writers by `TicketInv`; swapping, waiting and spawning change who will flush a slot, not whether.
Failed appends take tickets behind the last slot and fill nothing.

*Closing a batch.* After `closed` is set only messages whose append had passed its check draw tickets
(`ClosedInv`). `OnlyLate(b)` says that buffer b holds, and will get, none but these. A close that swaps
leaves `OnlyLate` for the new active buffer, because it saw the other one empty and drained; its flush
empties the old one; a close that finds nothing to flush, or waits for somebody else's flush, finds both so.
With `NeverLostNorDoubled`, what is accepted and not late was then assembled exactly once.

*What a batch promises.* `StepsAreVisible` sorts the steps by what a user can see of them (`VisibleStep`);
`PromisesKept` shows that each kind is a step of `Batch`, using `EveryMessageOnce` and `CloseLosesNothing` in
the state after it: only what was accepted is assembled, and nothing twice. `RefusedInv` says that a refused
message is not seen again, and that messages are late only for a batch that is closed.

*Calls end once.* `EveryCallEndsOnce` sums over the places of one message; `Balanced` says that `open[m]` is
the number of calls on the stacks of all goroutines, of entries in all channels, and of hands and flush
workers that have m. Each action moves one of these (`CallsReplaced`, `ChannelReplaced`, `HolderReplaced`),
or pushes one call for each listener and raises `open` by their number (`BroadcastCalls`).

*Order of the shutdown.* `ControlInv` ties run state, message loop and channel to the place of the control
loop, `MainInv` says that producers are told to stop after the counted consumers are done, and `WaitInv` that
who waits without a timeout still waits for a dependency or has seen it done. As long as nobody has given up,
who is beyond `waitFor` therefore has only dependencies that are done, direct or not (`WaitedForAll`). A dropped
message can be dropped again by its listener, so who is on the stack of a dropping producer is described by closed
sets (`ReachInv`): every set with its listeners that is closed under "listens on the drop stream" has them. With
ordered drops the producers that are not beyond `waitFor` are such a set, so every call of a protected goroutine is
to a living one. From this follow that it does not panic, that the dead stay empty, and that the `setState` at the
end of its `Enqueue` cannot lower the state of a stopping producer. A source that is counted needs no more than
`MainInv`: while it has a call no producer has been told to stop, so nobody has given up yet.

*Nobody is stuck.* What every goroutine waits for is written down as a guard (`SomebodyMoves`, and the like in
the other modules), because ENABLED is out of the prover's reach; TLC found the guards equal to ENABLED on the
instances of the runs. In the pipeline the producers that are not beyond `waitFor` are again a closed set: a
message loop ends only behind it (`EndInv`), so every call on a protected stack is to a loop that receives;
and where somebody has given up, the channels of the dead are closed, so a send to one does not block. If nobody
could go on, every control loop that has its stop command would wait for another one of these, against
`AcyclicDependencies`; so no command was given, the calls are over (`NoCallIsStuck`), and `Balanced` says that
nothing is open. That listeners depend on droppers is a fact about the links that are looked at last: two
linked producers are ordered, and the wrong order, followed along drops, would be a circle of drops.

*Waits of a batch.* A flush that spins has at most as many tickets done as it waits for, by `TicketInv`, and
if there are fewer somebody is busy with that buffer, who is a writer and waits for nobody. New tickets are of
the other buffer, so no more writers come (`SpinWaitsForFewer`).

*Fuse.* `ToldAndSeen`: what `fuseControlLoop` has told last is in the control channel and new, or has been
seen, and it is "burned" exactly while the goroutine waits; so callbacks alternate. That a burned fuse is
watched is inductive with the types: stopping the timer is followed by an activation, and a check that fails
starts the next one.

*Stream.* `PlacesInv` lists the places of a message (sent, with a goroutine, in a channel), says that they
are different and that a message that entered is in one. It needs `ChannelInv`: a channel is closed by the
one call that took it from `paused`, and is empty when its goroutine ends. Order and `Flush` hold for a
single user only: `UserInv` describes its phases (before, during, at the end of a pause) and says that what
entered is what was sent, then what is stashed, then what the user holds. `resumeWorker` is the number of
goroutines that still have to call `Done` (`OwingInv`), so `Flush` waits only for those; and a channel that is
full while its own user writes to it is the one that is paused, which only that user could empty.

*Registry.* `AddProducerIsSound` is the lemma about lists: what is added ends before the first duplicate, so
a list without duplicates stays one and loses nobody. (`MinExists` makes that first duplicate exist; it is
proved from the well-foundedness of `<`.) A producer is attached to all it names in the step that configures
it, and streams only grow afterwards (`Grows`). `LinkIsAcyclic` is the switch of `LinkDependencies`: a closed
set that has the dependencies of the parent and not the child stays closed, and turns every proof that
somebody did not depend on itself into a new one. `Linked` says that two producers are ordered or wait in
`links` to be looked at.

*Files.* `StartedInv` says that exactly the wanted files before the walker's position were started, and that
the position is not below a directory that was passed over: directories nest, so a jump over one cannot end
inside another. `BatchInv`: what runs and what the walker may still start is at most the concurrency; the
budget is only filled up when nothing runs. `CountsInv` gives each counter as a sum over the files of what
their goroutines have counted. A sum is the number of pairs <<file, 1..n>> (`SumOf`), so that one step
changes one summand (`SumChanged`); that the fold of the model computes the same (`TotalIsSum`) is proved by
the smallest set for which it would not. The walker reads the metrics when nothing runs, so nothing is
half counted.

*Consumers first.* The wait group is 1 exactly while the walker has counted itself and not left
(`WaitInv`), and the walker's goroutine is started once. When main passes its wait the walker is therefore
before its first step, which `unseen` remembers, or gone for good (`WalkerStaysAway`); and then nothing reads.

*Shutdown of the process.* `CommandInv` says that main has at most one command to send to each plugin, and which;
`StopInv` that consumers are told to stop before producers, once, and that every producer has got its command, or will,
when main waits for them. `CountedInv` counts the producers in the wait group. So a wait group that is not zero
has a producer with a command to take, or the walker or a file, which wait for nobody; and main can send, or has
nothing left to send. `LockInv` says how often a request has the read lock of the metrics at each of its steps: a
writer that waits has a request that goes on, except for one that asks for its second lock behind it (`Stuck`).

*Buffer of the reader.* `WindowIsStream` is only true where the indices are in order, so the two are proved
together (`BufferInv`). Where messages are cut does not matter: the steps ask for a frame of natural numbers
within the window. The writer's steps only add to the wire (`WriterOnlyAdds`).

*Accounts of the writer.* `Accounted` needs to know which messages come next: `BatchesLeft` says that the
batches left are the last ones of all, so the first of them shares no message with those that are done
(`BatchesEnd`), and `WriterInv` that nothing else is on the wire. A lost connection stays lost, so the batch that lost
it is the only one that can be on the wire in part and handed back. `Ends` is what NoWriter, Write and WriteFails
have in common; `EndKeepsWriterInv` does the accounts from it once. How many messages a write of so many bytes
holds is `WholeMessages`: the buffer grows with every message (`FilledGrows`), so all bytes are all messages
and no bytes none. `Filled` is a recursive function: that it satisfies its equation is proved by the smallest
length for which there is no such function, as is every other induction here (`Smallest`).

*What the reader finds.* `FirstFrame` is about the four framings: if what is in the window starts as the
bytes of a message do (`Begins`), as far as it goes, then `checkComplete` finds that message when all of it is
there, and else nothing, or runs out of the buffer inside a length (`Frames`). It is put together from a lemma
for each framing; those for lengths show that the digits or bytes that are read are the ones that were
written (`DigitsRead`, `BinaryReads`), also when only the first of two digits is there.

*Writer, wire and reader.* `WireLayout` says where every message that was written begins and ends on the wire
(`Offsets`), that behind the last there is at most the start of one, and that only if the connection is lost
(`Rest`), and that the reader has parsed up to the end of a message (`Position`). A write keeps it because the
buffer holds the messages one behind the other (`FilledHolds`) and those written as a whole are the first ones
(`WholeAreFirst`); the reader keeps it because the window is the stream (`WindowIsStream`), so what it looks
at is the start of the next message (`NextMessage`, `ThisFrame`). With what was received (`Taken`) this is the
inductive invariant `StreamInv`: a message delivered is the next one written (`DeliversNext`), which is `Receive`
of the channel. A write adds to what can be delivered or changes nothing of it (`DeliverableGrows`): `Send` or a
stutter. A panic is `Break`; every other step stutters.

*Nothing is left behind.* `WaitsForMore`: a reader that is going to read has less than the next message in its
window, or that one is empty. The reader keeps it because no frame means just that (`MoreIsMissing`); the writer,
because it adds messages only while the connection lasts (`OnlyTheLivingAdd`), when there is no part of a message
in front of them. All messages end before `arrived` (`OffsetsRise`), so one that is written and not received
is in the window of a reader that has read everything.

*Ends of a message.* The actions of `Enqueue` have few shapes as far as one message is concerned: it moves on
(`Moves`), is dropped, goes to a route, or leaves with the goroutine (`Leaves`, `LeavingSettles`). `FlowInv` says
that a message has one goroutine until it leaves; `EndsInv` that a message in flight is untouched before the
filter has decided, and settled when it is gone.

*Rate.* Two goroutines that find no record for a stream make one each, and the later one replaces the other,
so what a stream lets pass is bounded by its records. A goroutine is able to make a record for a stream
(`Able`) while the stream has none, or after it has seen so; making one takes an ability and no step gives one,
so there are never more records than pairs of goroutines and streams (`CreateTakesAbility`), nor more for one
stream than goroutines. The records' streams are a ghost function (`Owned`), and a message that passes in the
first second uses one of the grants of its stream (`Grants`, pairs of a record and a number up to the limit).

*Sample.* The counter is the number of tickets drawn up to whole groups (`CountInv`), because a subtraction takes
off a whole group; so what a goroutine computes from the counter is its place in the group, even if the counter
it subtracts from is not the one it added to. Each goroutine that is about to subtract has made the counter a
group larger (`InBounds`), which bounds it from both sides.

*Round robin.* `InTurn`: after n messages on a circle of L producers, those up to place n % L without the head are
one ahead. One step gives the next place one more (`NextTurn`, `NextRemainder`). That an index which has wrapped
around cannot come back to zero without a panic is part of the invariant: the index -1 is no multiple of two or
more producers, so the step that reaches it panics, and a panicked stream promises nothing.

*Routes.* Only a goroutine that finds an unbound route changes the list, and then it is alone (`Alone`). `WalkInv`
says that the message has been sent to the places before the one looked at; `ListInv` that no route is in the list
twice and none that exists is missing, where the last place does not count between overwriting a route with it
and cutting it off (`Kept`); `DoneInv` that a message which is done has left only existing routes in the list, so
that no route can come into being behind it. `PassInv` says that what a filter has stopped has not passed.

Out of the prover's reach and left to TLC: everything under fairness (`AllStop`, `ImplementsBatch`,
`ShutdownCompletes`, `FuseRecovers`, `ProcessedIsSent`, `ImplementsChannel`, `ExitEndsProcess`),
`SearchFindsDependencies`, which runs the search as it is written (`SearchIsExact` is about any solution of
its equation), and whatever rests on recursive definitions: the formatters, the parser and the trie. Of `ImplementsChannel` and `ImplementsBatch`, `ReaderIsAChannel` and
`BatchKeepsPromises` prove what may happen; that all messages come out in the end stays with TLC. Of
these and of `ShutdownCompletes`, `ProcessedIsSent` and `ExitEndsProcess`, `NobodyWaitsInVain`,
`NothingIsLeftBehind`, `NothingGetsStuck`, `FlushComesToAnEnd` and `ShutdownGoesOn` prove that somebody can go
on until nothing is left; that everybody does, and not for ever, stays with TLC.

## Plan

Done: `Dependencies`, `MessageBatch`, `Pipeline`, `Fuse`, `Registry`, `Stream`; then `Delivery` with
`Filters`, `Reader` and `Wire` with the refinement of `Channel`, `Metrics`, `Files` and `Startup`, the
parsers and formatters; the contents and the close of the message batch, the pipeline, the fuse, the
stream, the registry, the files consumer, the order of the shutdown, the accounts of the
writer, the delivery, the refinements of `Batch` and `Channel` (but for their liveness) proved.

To model next: the roll command and the ticker in `Pipeline`, with a `Batch` behind the message
loop; the log consumer's stream in `Startup`.

To prove next: that what `Batch` and `Channel` promise is inherited by the models that will use them, a
producer with its batch first. Every invariant and action property the runs check is proved, except those that
rest on recursive definitions, and so is, for the batch, the stream, the wire, the pipeline and the shutdown,
that who waits waits for somebody who can go on.

## Not modelled

The four formatters for collectd (they rename fields of one document into another), listening and
stopping of the metrics server, the writers of the log package and the switch between them, the ticker
loops, the statistics of the main loop, instantiation of plugins by reflection, command line flags,
`StopListener` and the other wrappers of the operating system, the assertion library of the tests
(`shared/expect.go`), generated protocol buffer code, and everything below `vendor/`. Time is not
modelled: a timeout may strike whenever the code waits, and windows end when they like.

## Running

    tlc -workers 2 -config MCPipeline_shutdown.cfg MCPipeline
    tlapm MessageBatchProofs.tla
