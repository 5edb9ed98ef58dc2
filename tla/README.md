# A TLA+ model of breutil

breutil is a header-only C++20 utility library (`src/breutil/`). This directory
holds TLA+ specifications of its stateful parts, TLC configurations that check
them on small instances, and TLAPS proofs for every value of the constants.
`PROJECT.json` lists components, runs, mutants, the map from definitions to
source lines, findings, hazards and theorems.

## 1. Inventory

| Component | State | Operations | Interaction | Hard behaviour | Correct when |
|---|---|---|---|---|---|
| BlockQueue (`block_queue.hpp`) | queue, capacity, closed flag, two wait sets | Push, timed Push, TryPush, batch Push, Pop, timed Pop, Peek, TryPop, batch Pop, Clear, SetCapacity, Close, Flush, NotifyAll | threads through one mutex and two condition variables | lost wakeups, timeouts racing notifications, notifications outside the mutex, a batch that releases the mutex | a bounded FIFO channel; nobody sleeps beside work; Close frees everybody |
| ThreadPool (`thread_pool.hpp`) | task queue, two counters, stop flag, wait sets | constructor, Enqueue, worker loop, WaitAll, destructor | clients, workers and tasks that submit tasks | notify after unlock, counters, draining at destruction | every accepted task runs once; WaitAll and the destructor wait for it |
| Timer (`timer.hpp`) | m_Stop, the thread | AsyncWait, Cancel, Wait, destructor | a thread and a condition variable | Cancel racing the timeout | at most one late call, prompt destruction |
| MultiTaskTimer (`timer.hpp`) | priority queue of due times | Add, Run | several runners | an earlier task added while runners sleep | due order, nothing forgotten |
| SignalManager (`os/signal.hpp`) | two handler tables, the sigwait thread, signal masks | notify, stop, stopAll, reset, ignore, wait, destructor | clients, the background thread, the kernel | join under the mutex, signals in flight during a restart | tables agree; stop is final; handled signals are taken |
| Buffer (`buffer.hpp`) | vector, read and write index | Append, EnsureWritableBytes, HasWritten, Prepend, Retrieve*, Shrink, FindCRLF, FindEOL, moves | none (sequential) | grow or compact, stale bytes, size_t arithmetic, use after a move | a queue of bytes in bounded storage |
| AsioIOContextPool (`net/asio_io_context_pool.hpp`) | contexts, work guards, round-robin index | constructor, GetIOContext, Stop | threads that run contexts | unsynchronised index, contexts without a guard | the index comes back into the pool; given handlers run until Stop, where a guard keeps the thread |
| TCPSession, callbacks (`net/tcp/tcp_session_impl_v1.hpp`) | socket, timers, write queue, stopped flag | Start, Stop, Send, read and write handlers | asio callbacks, the server's callbacks | handlers queued across Stop, timers | messages whole and in order, no pending operation for ever, a stopped session is let go |
| TCPSession, coroutines (`net/tcp/tcp_session_impl_v2.hpp`) | socket, write queue, flags | Start, Stop, Send, read and write loops | a strand | Stop between a loop's test and its operation, a peer that does not read | what is posted is written, or the loops end |
| TCPServer (`net/tcp/tcp_server.hpp`) | acceptor, session set | Start, Stop, accept and disconnect handlers, Send, Broadcast | sessions, contexts | Stop racing accept | stopped sessions leave the set; nothing waits for itself |
| TCPClient (`net/tcp/tcp_client.hpp`) | one timer, attempts | Connect, ConnectAync | resolver, sessions, callbacks | timeout racing success, attempts that share the timer | every attempt is answered |
| UDP (`net/udp/`) | socket, receive chain, callbacks | Send; Start, Stop, AddMessageCallback | the network | datagrams lost, repeated, reordered; two Starts, one buffer | a started server goes on receiving |
| Message header, encoders (`net/net_header.hpp`, `binary_io.hpp`, `encoding/`) | a header | fill, parse, reset; encode, decode | none | sign bits, padding | inverse of each other |
| IP addresses (`net/ip.hpp`) | none | text, bytes and integers of addresses | none | zero runs | inverse of each other; accepts the valid forms, and one more colon |
| Config (`config.hpp`) | tree of keys with type, default, validator, callbacks | Register, Set, Get, Has, Reset, NotifyChange, ToJson, FromJson | callbacks under the mutex | half-applied import, conversions on the way through JSON text, callbacks that throw | values always valid; round trip |
| Ini, Settings (`ini.hpp`, `settings.hpp`) | sections of keys; defaults | load, Save, Set, Remove; layered getters | files, other threads | load that fails half way, two looks of a getter | round trip; a getter answers what some layer held |
| Flag (`flag.hpp`) | declarations, values, positional arguments | Add, Parse, Get, Narg | the process (exit) | which argument is a value | a command line is divided as a reader does |
| JSON (`json/`) | a value | accessors, generator, lenient passes, parser | none | passes before the parser, decimals | what is written is read back, doubles rounded |
| Strings, numbers (`string_util.hpp`, `strconv.hpp`) | none | split, join, trim, replace; parse, format, quote | none | overflow at every width, escapes | agree with their references |
| Command execution (`sys_lin/execute_command_lin.hpp`) | a child process | run with timeout | kernel | timeout racing exit | not modelled |
| Host information, time, enums, logging, tests, build | none | | | | not modelled |

## 2. Modules

`BlockQueue` models every mutating operation. A call is issued, then each
critical section is one step; a thread whose predicate is false joins
`condConsumer` or `condProducer`, and a notification, a spurious wakeup or
`Timeout` moves it to `readyConsumer` or `readyProducer`, from where it competes
for the mutex again. `Close` and `NotifyAll` notify outside the mutex, so each
notification is a step. Items carry producer, call and index. The constant
`Ops` selects which operations the clients use. `BoundedChannel` is the abstract
specification: a FIFO of bounded capacity that can be closed.

`ThreadPool` models clients, workers (`ready`, `condVar`, then `pc` through
popped, running, ran), `Enqueue` with its later `EnqueueNotify`, the two
counters, `WaitAll` and the three parts of the destructor. The destructor starts
only when no client is inside a call, as C++ requires of an owner; tasks may
still be queued, running and submitting.

`Timer` models the owner, the thread and the synchronous `Wait`; the moment at
which an interval ends is left open. A second `AsyncWait` ends the process
(assignment to a joinable thread), which the model keeps in `terminated`.

`MultiTaskTimer` has a clock, runners and tasks with due times. `RunTest`, the
test of `_tasks.empty()` without the mutex, is a step of its own.

`SignalManager` models the API calls, which hold `mutex` while they join the
background thread, and that thread's loop: test of the flag, sigwait, look-up
under the mutex, callbacks outside. `Raise` is the kernel: a signal goes to a
thread that does not block it, or stays pending for sigwait. Masks are per
thread and inherited. `reset` and `ignore` take one signal per call.

`Buffer` gives each operation as an operator on the record of the three members
and applies it to buffers that can be moved into each other; differences of
sizes are taken modulo `Word`, the range of size_t. A buffer that was moved from
may be used like any other; bytes that are written to it end the process, which
the model keeps as a call `crash` (see section 4). `called` is a history variable:
the last call with its arguments. `ByteQueue`, the abstract specification, says
what each call with these arguments does to the readable bytes, and nothing else
may happen to them.

`TCPSession` models the session with callbacks: one thread runs its handlers,
`Start` runs on the accepting thread, `Send` and `Stop` on any. Every call into
Asio is a step, so `Stop` (flag, timers, socket, callback) interleaves with a
handler that is about to arm a timer or start a read. A `Send` tests the flag and
posts later: its step is the post, which may come when the session is closed by
now. An operation is pending,
then done with a result that cannot be recalled. Concurrent use of a socket by
`Stop` and a handler is formally a data race; its outcomes are taken to be those
of the calls in some order. `TCPServer` composes sessions with accepting, the
table of sessions and the server's `Stop`, whose steps run one session at a
time. Asio and the peer are external: they complete or fail operations at will.

`IOContextPool` has the constructor with its guards, one thread per context, and
GetIOContext split where the code does not synchronise: read, write back, test
and reset, use. `TCPClient` has the attempts of one client; the handler of a
connect refers to a session and callbacks that are gone when it runs, so it does
what it says or sets `misused`, after which nothing is claimed. `CoroSession` is
the other TCPSession, its loops as steps on a strand. `UDP` composes client,
network and server; the reactor writes the server's one buffer before the handler
runs. An exception of a callback, or of `std::regex` for an ill-formed expression,
would pass do_receive by and end the reception; it is left out.

`Config` is the tree as a function from keys to nodes; export and import are
conversions: a leaf double becomes an int, a double beside children is rounded as
`std::to_string` does, a bool beside children becomes an int, and `Readings` is
what the lenient parser may make of the strings of the text. Doubles count
quarters, and the text keeps halves. The import takes the members in some order
and may throw in the middle. How callbacks are called has no state in the model.
`Settings` has Ini and Settings over the text of a file, with the getters of
Settings as two steps; `during` notes the moments a getter has lived through, each
with whether the file had the key and what the layers answered. `Flag` has
declarations, the loop of Parse and the scan of Narg. Parse is one step per turn
of its loop (`at` is the argument it stands at): help, a word, a flag with or
without its value, a refusal, the end.

`Text`, `StrConv`, `JsonText`, `Codecs` and `Ip` are operators over sequences of
character codes or tokens. They are recursive where the code loops (recursive
functions in `Text` and `Codecs`, which proofs reach) and have no state; widths
(64 and 32 bits, 8 groups, bytes of 256, the largest int, the decimals of a double)
are constants, so that instances reach every boundary.

`MCParts`, `MCStores` and `MCNet` put components that share nothing beside one
another: a variable chosen at the start says which of them a behaviour is about,
and the others keep their initial values, so that the states are those of the
components one by one. They extend the modules of the components, so that a run
checks the very definitions that the theorems name. `MCParts` has the buffer,
JSON values, headers, the two timers, and the inputs of the conversions, typed
one character at a time. The other `MC*` modules add symmetry sets. Definitions
under a comment that begins "Mutant" are faulty variants of the definition that
follows; nothing else uses them.

`BlockQueueProofs`, `ThreadPoolProofs`, `SignalManagerProofs`, `TCPServerProofs`,
`PartsProofs` (Buffer, both timers, Base64 and hexadecimal), `NetProofs`
(IOContextPool, UDP, TCPClient and CoroSession), `ConfigProofs` and
`SettingsProofs` (Settings and Flag) hold the inductive invariants, lemmas and
theorems of section 5.

## 3. Runs

| Run | Instance | Shows |
|---|---|---|
| `queue_channel` | 2 threads, all 14 operations, capacities 1 and 2, batches of 0 and 2, pops of 0 and 2, 2 push calls each; 0.8M states | the queue refines the channel; batches are prefixes; Close leaves no sleeper |
| `queue_live` | 3 threads, capacity 1, Push, timed Push, Pop, batch Push, Close; 108k states | no wakeup is lost; sleepers are served; Close releases everybody |
| `queue_peek` (violation) | 3 threads, Push, Pop, Peek | finding 1 |
| `pool` | 2 workers (threadCount 0), 2 clients, 3 tasks; 104k states | exact counters, no lost wakeup, each task once, WaitAll and the destructor wait and end |
| `signal` | 2 clients, 2 signals, signal lists {INT} and {INT, TERM}, 2 registrations, 1 signal sent; 292k states | tables agree and stop is final (`RegistrationsHold`), masks, delivery, return of calls |
| `signal_restart` (violation) | 1 client, 1 signal | finding 2 |
| `signal_wait` (violation) | 1 client, 2 signals sent | finding 3 |
| `parts` | 2 buffers with kPrependSize 2, lengths to 1, at most 2 readable bytes; timer with 2 cancels and 1 wait; 2 runners, 3 timer tasks, delays 0 and 2, clock to 3; JSON values of 2 entries and 2 levels, ints of two digits, doubles written with 2 decimals; every input up to the lengths in `MaxInput`; 201k states | calls on a buffer do what their arguments say, in sound storage; late calls, prompt destructor, firing; due order; round trips and reference definitions |
| `stores` | keys `a` and `a.x`, 5 validators, 6 values, 2 documents and every own export, 1 listener; 2 cells of a file, 2 values; 3 arguments out of 9, 2 declarations; 301k states | values stay valid, export restores what the text can carry; saved files are read back, getters are layered; command lines are divided as a reader does |
| `net` | pools of 0 to 2 with 2 callers and 3 handlers; 2 connect attempts; 2 datagrams, 2 Starts, 1 callback; 2 messages and 2 frames; 149k states | the index comes back, handlers given to guarded contexts run; attempts are answered; the server receives; posted messages are written unless the peer does not read |
| `tcp_sessions` | 1 session, 3 sends, timeouts; 691k states | messages whole and in order; the table is never the last owner |
| `tcp_live` | 1 session, 1 send, timeouts; 71k states | sends and reads end; closed sessions are let go |

Some properties are conjunctions of what belongs together, each part with its own
comment: `CountersAreExact`, `NoLostWakeup`, `RunExactlyOnce` and `PoolFinishes` of
the pool, `RegistrationsHold` and `QuietCallsReturn` of the signals,
`StorageIsSound` of the buffer, `TimerKeepsTime` and `TasksRunInTime` of the
timers, `PendingOperationsEnd` of the sessions, and `EncodersRoundTrip`,
`JsonRoundTrip` and `StringsAgree` of the conversions.

Bounds. Lost wakeups need two sleepers on one condition variable and a third
thread: hence three threads, or two workers and two clients. A batch longer than
the free space, and a capacity below the current size, are in `queue_channel`. One
signal in flight meets every point of a restart (a second one would let findings 2
and 3 stop a wait before it returns); two signals and two registrations let
registrations share signals and lose them one by one. With three tasks on two
workers a task waits in the queue while both run, and a task may submit another.
The buffer's lengths (one byte per call, two readable), reserve and initial size
are large enough that it grows, compacts with and without consumed space, and
prepends below `kPrependSize`; the other buffer is as constructed or moved from
while one is worked on, since buffers share nothing. A delay of 0 added while a
runner sleeps on one of 2 is the earlier task. Sessions share only the table, the
accepting thread and the loop of `Stop`, so one session meets every interleaving
that its own state can tell apart; three sends fill the queue behind a pending
write. Two callers of GetIOContext lose an increment and a reset; two connect
attempts share the timer. `queue_live` leaves SetCapacity out: that a capacity
below the size loses no wakeup of a producer is shown by `ImplementsChannel` in
part and by the theorem `ProducerWakeupNotLost` for all operations. In `tcp_live`
there is one send, so none is queued behind a pending write; `SentIsKept` covers
those. The conversions work locally: integers of 5 and 3 bits with numerals of
four characters cross every limit in bases 2, 10 and 16, Base64 needs one block of
four, addresses of 3 and 6 groups have several runs of zeros, and strings that
look like comments, quotes and commas, or end in a backslash, stand in for all
strings. Doubles have as many decimals as are written, one more, so that they are
rounded, and an exponent. The numerals are compared with a grammar of their own
(`Numerals`), prefixes included. The documents of `stores` have a value of a wrong
type, one that its validator refuses, a null, a `__value` and an unknown key.

Fairness. A thread inside a call, a worker, a runner and the background thread
are weakly fair: the operating system schedules runnable threads, and a mutex is
held for one step. `Timeout` and `Tick` are weakly fair since time passes. No
fairness is given to clients (nobody has to call), to spurious wakeups, or to
signals, nor to the network. The queued handlers of a session are strongly fair,
since its thread is busy with others in between and an io_context serves its
queue in order; a timer is weakly fair while it is armed, and a read that
completes calls it off before it arms it again. `WaitDone` is strongly fair: it
needs the mutex, which other clients may take in between, and mutexes do not
starve a waiter for ever. In `net`, the threads of contexts and the strand run
what they have, the resolver and the system's connect end, a Stop that has begun
ends. Nothing is assumed of the peer of a coroutine session: it may never send, and
never read. `ArmedTimerFires` assumes in its own
statement that intervals end.

`CHECK_DEADLOCK FALSE` is set where the system may stop: a destroyed pool, timer
or manager, a process that has ended, timer tasks that are all done, a stopped
server whose sessions are closed, bounds that are used up. The queue never stops.

## 4. Findings

1. `queue_peek`: Peek absorbs the `notify_one` of a Push and leaves the item, so
   a thread in Pop sleeps on beside it.
2. `signal_restart`: every API call joins the background thread with `m_mutex`
   held; a thread that has just taken a signal waits for that mutex. Both hang.
3. `signal_wait`: the handler of wait sets its promise at every signal until the
   caller has removed it; the second signal ends the process.

Disagreements between a comment and the code, noted without a run of their own:

- `signal.hpp:192` speaks of a global mask, but `pthread_sigmask` changes the calling
  thread's only. `HandledSignalDoesNotKill` says what follows: a signal with a
  handler kills through a thread that made no API call since the handler was
  registered, and, while the registering call is still at work, through the
  background thread that it is about to replace.
- `signal.hpp:215`: no thread is started without active signals; the wakeup signal
  is always active.
- `config.hpp:457`: a callback is called when the value of its key changes. Only Set
  calls callbacks; FromJson, Reset and Register change values silently. No property
  is left to state about listeners beyond two adjacent lines of Set.
- `config.hpp:588`: FromJson passes over keys that are not registered. It makes nodes
  for them and stores their values (`Loaded`).
- `config.hpp:590`: FromJson calls the validator for every value. A `__value` is
  stored without it (`Entry`).
- `flag.hpp:5`: `--param=value` is not supported. Parse strips two dashes as it does
  one and takes the value (`--n=1` is among the arguments of the run).
- `tcp_session_impl_v2.hpp:284`: the write has a timeout. Its timer is set and
  cancelled but never awaited: a peer that does not read stalls the write loop for
  ever, which `PostedIsWritten` has to allow for (`[]Writing`; without it TLC finds
  the stall).
- `buffer.hpp:175`: a buffer that was moved from has an empty vector and indices at
  `kPrependSize`, so that `WritableBytes` wraps around and bytes that are written go
  through a null pointer, although moving is declared as supported.
- `thread_pool.hpp:38`: WaitAll forbids other threads to submit; nothing does.
- `timer.hpp:101`: m_Stop tells whether the timer expired; a one-shot timer that has
  fired leaves it false.
- `block_queue.hpp:22`: a defaulted move, although the mutex cannot move.

Behaviour the models keep as it is, which a property is therefore stated around:

- `ParseInt` tests its limit after an accumulator that wraps: numerals beyond the
  unsigned range may be accepted (`StringsAgree` speaks of those within it). It
  negates the least int64 (`strconv.hpp:183`), which is undefined; compilers wrap,
  which gives the right value, and the model does the same.
- ParseInt and ParseUint refuse "0" in base 0: the digit is taken for the prefix of an
  octal number and no digit is left (`strconv.hpp:143`, `:222`). `StringsAgree`
  names this numeral as the only exception.
- `ToBytes` accepts an IPv6 address with one colon too many behind its last group
  (`ip.hpp:301`); `EncodersRoundTrip` names this exception.
- The generator writes doubles with `std::to_string`: six decimals are kept, and
  infinities and NaN give a text that the parser refuses. `JsonRoundTrip` is up to
  this rounding.
- The lenient JSON passes, which are the default, take `\"` and a backslash at the end
  of a string by rules of their own: after a string with a backslash in front of a
  quote or of its end they take strings for code, and cut what looks like a comment
  or a trailing comma out of them. Strict mode is not affected. `JsonRoundTrip` and
  `SavedIsRestored` name the combination. Keys of Config are assumed to be ordinary.
- Config's export makes an int of a leaf double and of a bool beside children, and
  rounds a double beside children to what the text keeps, and import stores a
  `__value` without its validator: `Portable` and `RegisteredIsUsable` name the keys
  they speak of, each exemption being one that TLC shows to be needed.
- A required flag whose given value equals its default counts as missing; Narg
  takes values of flags for positional arguments when there are none.
- Ini writes values unquoted: `SavedIsReadBack` is about plain values.
- The index of the context pool may pass beyond the pool while calls overlap; a
  pool of size below two has a context without a guard, whose thread may have
  returned before anything is given to it: such handlers are never run
  (`asio_io_context_pool.hpp:55`), and `GivenIsRun` names this as the one exception.
- ConnectAync without a timeout ends its own session at once, a second ConnectAync
  cancels the timer of the first, and the connect's handler uses references whose
  objects may be gone. The caller still hears of its attempt, if only by
  `on_disconnect`.
- Two Starts of UDPServer share one buffer: with two, what a callback is given may
  be a later datagram.
- The read timeout of the coroutine session has no effect either.

## 5. Proofs

The `*Proofs` modules hold theorems for every value of the constants. Where a
module names assumptions (`ASSUME` in `BlockQueue`, `ThreadPool`, `Buffer`,
`SignalManager`, `TCPServer`, `TCPSession`, `Flag`) TLC evaluates them on its
runs; `MCStores` does the same for `Proper`, the assumption of the theorems about
Config. `PoolPositionIsInside` assumes that the sizes of pools are naturals.
`ConfigSpec`, `IniSpec`, `FlagSpec`, `PoolSpec`, `UdpSpec`, `ClientSpec` and
`CoroSpec` are the specifications of components whose runs are in `MCStores` and
`MCNet`.

BlockQueue. `TypeCorrect` comes first. `PlacementInvariant` says that a thread in
one of the four sets is inside a call of that side, in one of them only, and that
a single-item call holds one item. `NoLostConsumerWakeup`, that a sleeping
consumer implies as many consumers on the way as there are items, is inductive
only together with it: a push adds one item and one consumer on the way
(cardinality of a disjoint union), a pop that takes an item removes one of each,
and a thread goes to sleep only on an empty queue. It needs that no consumer call
leaves items alone (`TakersOnly`), which is what finding 1 is about.
`NoLostProducerWakeup` is the mirror image with free slots and needs no
condition. `ClosedWakesSleepers` is inductive as it stands once types are known.
`QueueImplementsChannel` maps each action to a step of the channel or to a stutter.
`BatchAcceptedAsPrefix` rests on `BatchInv`, which ties what a pushing thread
still holds to the last item of its call in the queue.

ThreadPool. `UnfinishedIsExact` and `ActiveIsExact` are proved with
`WorkerPlaces` (a worker is at the wait loop, asleep or on its way but not both,
or holds a task), each action moving at most one worker into or out of the counted
set; they give that the subtractions do not leave the naturals, so `TypeCorrect`
rests on them too, and together they are `CountersExact`. `NoLostTaskWakeup`
counts notifications that Enqueue has yet to send as on the way;
`NoLostWaitAllWakeup` follows from the test under the mutex; `WakeupNotLost` is
both. `TaskRunExactlyOnce` and `WaitAllReallyWaits` add `TaskInv`: every accepted
task is in one place, the queue, a worker's hands or the finished tasks. With the
counters exact, a count of zero then says that all tasks are finished.

Buffer. `BufInv` says of each buffer that its indices are ordered, inside the
storage if it owns one and equal if not, that it holds no more than the clients'
bound, and how large its storage can be. From it differences of size_t are plain
differences (`SizesDoNotWrap`), which gives `StorageSound`.
`BufferImplementsByteQueue` maps a buffer to its readable bytes and keeps `called`,
so that every step has to be the one that the call with its arguments stands for:
lemmas on what copies do to a vector show that making space, compaction and Shrink
leave the readable bytes as they are, that the bytes of Append, HasWritten and
Prepend are the client's, and that the line that is taken is the first one. A report
of bytes for which EnsureWritableBytes was just called is shown not to be refused.

SignalManager. `SigInv` has the agreement of the two tables, who may hold the
mutex across steps (the caller in the join), and `Masks`: a client that made a call
since a signal has its handler (`aware`) blocks it, a caller in the join blocks every
signal that is handled, and the background thread blocks what it was started to
wait for, which are all handled signals whenever nobody holds the mutex.
`RegistrationsAlwaysHold` and `HandledSignalIsSafe` follow: a handled signal finds no
thread to kill but a client that is not aware, or, during the call that registers it,
the old background thread.

TCP. `ServerInv` is about each session by itself: an outstanding async_write
implies `_is_writing` and is of the front of the queue, and wire, unwritten queue
and posts are together what was sent. It is proved per operator of `TCPSession`
(each a lemma on one record) and lifted to the server's steps. `OwnerInv` says
that a session in the table is closed, being read from, or the newcomer that
handle_accept has not yet started; `TableNeverLastOwner` follows.

Timers. `AtMostOneLateCall` needs that the flag stays set after Cancel
(`CancelLasts`) and that a late call leaves the thread where it can only find the
flag set (`LateIsLast`). `EarliestIsWatched` is proved with `MultiInv`, which also
gives that the task due first is taken first; that it is eventually run is left to
TLC.

Network. A position past the end of the pool implies a call that has still to
test or reset it (`PoolInv`), although increments and resets of racing calls are
lost. For the UDP server, each Start has exactly one receive, completion or
running handler (`OnePerStart`), and with one Start the buffer is what the handler
was given (`BufferIsFresh`).

Three theorems are the safety that liveness properties of `net` rest on; TLC
checks that what they keep possible also happens. `ClientDoneIsTold`: an attempt
of TCPClient is over only when its caller was told (for `AttemptIsAnswered`). It
needs `Answered`: a connect in progress has a session that can still be stopped,
and whatever closed that session or aborted the connect has spoken, so that the
handler that passes over an abort leaves nobody waiting. `CoroSuspendedForOne` and
`CoroWrittenOnce` (for `PostedIsWritten`): a loop of the coroutine session waits
for exactly one operation or turn on the strand, from Start until it ends, so that
no Stop loses it and no two writes are under way; and no message is written twice.
`CoroInv` has the first for each stage of a loop (`LoopsWait`) and, for the
second, that a message is in one place on its way: not sent, posted, queued, being
written, on the wire (`Placed`).

Config. `Proper` says what keys, validators, values and documents are: the names
of the exported format (`__value`, `__non_serializable`) only end a key and are
not registered, a validator allows its default and only values of its type, and
entries above others are objects. The code leaves the first two to its caller; the
last is what a JSON document is. `TreeInv` is that the tree is closed under taking
parents and that a registered leaf holds a value its validator allows: a value
taken from a `__value`, which no validator has seen, is in a node with a child.
Nodes are never removed, so this survives an import that
stops half way: `FailedKeeps` shows that what was stored by then is closed under
taking parents. `ExportIsDocument` shows that an export can be imported, and
`ReadingIsDocument` that so can all that the lenient parser may read from its text.
`ConfigSavedIsRestored` compares these entries with the tree: the rounding leaves a
double beside children alone if it has no more decimals than are written
(`InnerIsExact`), and a portable tree exports no strings that are garbled
(`ExportedStrings`).

Settings. `SettingsGetIsLayered`: what a getter returns is what the layers answered
at one moment of its call, or the empty text of a key that was in the file and then
was not, the one trace that a getter of two steps leaves of a change in between.
`GetterInv` says that a getter that has found the key has noted that moment and the
present one, which every action that replaces the file's map keeps. The proof
refused an earlier statement, that the empty text is returned only when the layers
changed their answer: it held in the run for the sole reason that the default there
differs from all values of the file.

Flag. `FlagParsedAsRead`: when Parse returns, there is a division of the arguments
into flags, values and words such that each argument has the role its neighbour to
the left gives it, each declared flag has the last value that it was given, or its
default, and the words are the positional arguments in order. `FlagInv` has the
same for the arguments before `at` (`ReadUpTo`), with the argument at `at` not
taken as a value; a turn of the loop extends the division by one or two arguments,
and lemmas say that the roles before it do not change what is said of them.

Encoders. `Base64RoundTrip`, `Base64IsCanonical` and `HexRoundTrip` are about byte
strings and texts of every length, where `EncodersRoundTrip` tries the short ones.
No induction is needed, since the encoders work group by group: `EncodeByGroups`
and `AcceptedByGroups` say what a group of the text is, and arithmetic on numbers
of 24 bits (`DigitsOf24`, `DigitsAreRead`, `BytesAreRead`, `BytesOf24`,
`SpareBits`) that four digits and three bytes are the same number. That an accepted
text is the only one of its bytes is where the rejection of set spare bits is
needed.

Only model-checked: everything that must eventually happen (fairness is out of the
prover's reach); `JsonRoundTrip`, `StringsAgree`, `SavedIsReadBack` and the
integers and headers of `EncodersRoundTrip`, which say what recursion and folds
over a sequence compute and would need induction over it (and `JsonText` and
`StrConv` have RECURSIVE operators, which the prover does not take); and the
findings, which are counterexamples.

## 6. Plan

What is modelled is checked, and its safety is proved but for what section 5 names.
What could follow:

1. The Linux command execution: fork, pipes, the timeout and waitpid.
2. TCPServer: Start after Stop, and the end of the server under its sessions.
3. Proofs: that messages of the coroutine session do not overtake each other.

## 7. Not modelled

Host information and time formatting query the operating system or the standard
library; logging, enums, the test framework and the build support keep no state.
Of floating point numbers, ParseDouble and FormatDouble of `strconv.hpp` and the
doubles of `ini.hpp` (written with `std::to_string`, line 235) are not modelled;
JSON doubles are, with their decimals as a constant. Command execution is mostly
calls of the operating system and is left for later. Windows and macOS variants
wrap the same calls. Exceptions thrown by memory allocation are left out, and so
are those of user callbacks and of `std::regex`, except where the code relies on
them (Push on a closed queue, a promise set twice, a listener of Config that
throws). Reentrant misuse is left out: a task that calls WaitAll, a signal handler
or a listener that calls the API. Benign reads (Size, Empty, counters) are left
out. So are, for TCPServer, Start after Stop, concurrent calls of Stop, and the
end of the server while sessions still hold its address in their callbacks. README
modules that the tree does not contain (crypto, database and others) have no code
to model.
