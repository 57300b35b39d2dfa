# Verification of boost_test

TLA+ models of the program's own code (`src/src/util`, `src/src/prj_exec1`, `src/example`), TLC
runs of them on small instances, and TLAPS proofs, for every value of the constants, of every safety
and action property the runs check. Paths are given from the directory that holds `src/` and `tla/`.

    cd tla
    tlc -config TimeoutProvider.cfg TimeoutProvider.tla    # one run
    tlapm TimeoutProviderProofs.tla                        # one proof module

## 1. Inventory

The repository holds about 1200 lines of its own and two vendored libraries; it has no design
document, so what the code promises is read from its comments, its names and its test.

| part | state it keeps | operations | what makes it correct |
|---|---|---|---|
| `with_timeout` token and `timeout_provider` (`util/asio_timeout.hpp`) | timer, `parent` slot, `timeout` signal, `last_fired` | construct, `operator()`, `arm`, `fire_total/partial/terminal/all`, binder, destroy | each operation completes once; its timeout is never lost and escalates; the client's own cancellation gets through; no callback outlives the provider |
| `as_result` (`util/asio_as_result.hpp`) | none | wraps a handler, turns `error_code`/`exception_ptr` into a result | behaves as the handler it wraps, its associated objects included |
| `StacktraceDumper` | signal dispositions, the dump file | install, `_signal_handler`, `show_last_dump` | a crash leaves one whole dump; the next run reports it once; handling a crash ends |
| `prj_exec1` `main`, `terminate_handle`, `App` | where the run is | start, run, catch, terminate, exit | reports before it runs, flushes before it ends |
| `init_log` and spdlog's file sink, registry, `periodic_worker` | stdio buffer, sink lock | log, flush each 3 s, flush at exit | a logged line reaches the file |
| `dump_helper` (Windows) | `.\dmp`, `.\dump`, dump files | `GenFilePath`, `GenDump`, `SnapshotMem`, `ExceptionFilter` | a fault leaves a dump |
| `dump_helper` `PrepareCore` (Linux) | process limits | one call | - |
| `async_connector` example | io_context, resolver, sockets, timer | `async_connect`, three handlers, `run_context` | every host is accounted for, or a timeout ended the run and closed all |
| `async_connector_co` example | one provider per coroutine, all on one io_context | resolve, one connect per endpoint, `run()` | a timeout ends its own connect and no other; `run()` returns when each has logged; no handler outlives its coroutine |
| `echo_server` example | acceptor, one coroutine per connection | accept, read, write, stop | what comes back is what was sent |
| error values (`error.hpp/.cpp`, `exception.hpp`) | none | message, condition, format, `throw_with_trace` | a failure never reads as success, however it travelled |
| `program_location` | none | `readlink` | each program finds its own dump |
| unit test, build files, libressl, Boost | - | - | - |

Interactions: `main` calls `init_log`, then `StacktraceDumper`, which reads and removes the dump
file its own handler wrote in an earlier run and reports it to the log sink. The system calls the
handler and `terminate_handle` in the middle of anything. The token is called by asio through
`async_result::initiate`; timer, operation and client meet in the executor's queue, and the
client's cancellation arrives through a slot that `arm()` fills. `as_result` sits between the two
in `async_connector_co`.

Hard behaviour: a timer's expiry and an operation's completion race in one queue and cancellation
recalls neither; one timer serves operations that follow one another and three stages of one
operation; callbacks hold `this`; signals nest and interrupt holders of locks; the log is buffered
while the dump it reports is deleted; directories, writes and closes fail one at a time.
`PROJECT.json` lists each hazard at its line, with the properties that look for it.

## 2. Modules

| module | models | proofs |
|---|---|---|
| `TimedOperation` | abstract: what the token promises to one client | |
| `TimeoutProvider` | `asio_timeout.hpp`, with the slot hidden by `as_result`; refines `TimedOperation` | `TimeoutProviderProofs` |
| `CrashReporter` | `main`, `terminate_handle`, `init_log`'s sink, `StacktraceDumper`, over several runs | `CrashReporterProofs` |
| `AsyncConnector` | `example/async_connector.cpp` | `AsyncConnectorProofs` |
| `EchoServer` | `example/echo_server.cpp` | `EchoServerProofs` |
| `DumpHelper` | Windows half of `dump_helper.cpp` | `DumpHelperProofs` |
| `AsyncConnectorCo` | `example/async_connector_co.cpp`; each coroutine refines `TimeoutProvider` | `AsyncConnectorCoProofs` |
| `ErrorValues` | `error.hpp`, `error.cpp`, the results `as_result` makes; operators only | |
| `CompletionTokens` | `with_timeout` and `as_result` wrapped around each other, with `ErrorValues` | `CompletionTokensProofs` |
| `SharedDump` | `program_location` and `StacktraceDumper` in several processes | `SharedDumpProofs` |

### TimeoutProvider

One provider (either constructor: `emit_all`), and one client that starts up to `MaxOps`
operations through it, one after the other. `ready` is the executor's FIFO queue, run by one
thread as every program of the repository does; a handler is one atomic step.

| code | action or variable |
|---|---|
| constructors 13-43 | `Init` |
| `init_wrapper`, `initiate` 123-162, `arm` 60-72 | `Initiate`, `Arm` |
| lambda `parent.assign` 63-65 | `forward` (it is in the slot), `ParentEmits` (it is called) |
| `fire_*` 74-102 | `FireTotal`, `FirePartial`, `FireTerminal`, `FireAll` |
| `if (!ec)` 68, 79, 90 | `SkipAborted` against the `Fire*` |
| binder 107-118 | `RunBinder` |
| destructor 45-49 | `Destroy`; a handler run after it is `FireDangling`, from which nothing is known (`life = "ub"`) |
| `as_result` associators 173-193 | `Slot`: the slot is seen unless the inner token is `as_result` |

Asio is modelled by what the code relies on: `cancel()` and `expires_after()` complete an
outstanding wait with `operation_aborted` and cannot recall one that is already queued
(`TimerQueues`, `TimerExpires`); `emit` reaches an operation that is pending and honours one of
the emitted bits (`Cancels`). `honours` is any set of bits, so an operation may ignore them.
Durations are abstracted: an outstanding wait may expire at any moment, which covers every value
of the three durations, zero included. The wrapped handler may clear the client's slot when it
runs, as the coroutine handlers of asio do, or leave it (`keep`).

`child`, `adapted`, `requested`, `asked` and `result` are history that the properties need. An
operation that honours only `total` may lose its timeout: a late `fire_partial()` of an earlier
operation re-arms the timer for the terminal stage. That is why `TimeoutStillComing` and the
promise of `TimedOperation` are about operations that honour `terminal`.

### CrashReporter

`dump` and `logged` are the two files and survive a run; everything else is the process. The main
thread (`pc`), the signal handlers on its `stack`, the flusher of spdlog and `Kill` interleave.

| code | action |
|---|---|
| `main` 35-64 | `Launch`, `InitLog`, `InstallHandlers`, `ShowLastDump`, `RemoveDump`, `RunApp`, `Exit`, `Caught` |
| `terminate_handle` 16-33 | `Terminate`, `AppTerminates` |
| `_signal_handler` 12-25 | `ResetDisposition`, `MakeDirectory`, `OpenDump`, `WriteDump`, `RaiseAbort` |
| `periodic_worker` loop | `FlushLog` |
| delivery of SIGSEGV, SIGABRT at any point | `Crash`, `Deliver` |

`show_last_dump` is two actions because a crash between the log call and `remove()` leaves
different files. `ShowLastDump` does not look whether the dump could be opened or read, as the code
does not: then the report is empty, nothing goes into `buffered`, and `RemoveDump` takes the file all
the same. A file system error thrown inside the handler crosses a signal frame, which C++
leaves undefined: the model lets it reach the catch of `main` or `terminate_handle`. `locked` says
what the interrupted thread held: the heap lock stops the handler at its first allocation, the
sink lock stops `terminate_handle`. A dump is its run and whether it is whole; a path, a trace and
a log line are not modelled.

Premises: one crashing thread, one instance of the program at a time, and a flush that succeeds.
`main` returns 0 after an exception; the exit status is in no property.

### AsyncConnector

The object after `async_connect` (`Init`), the resolver thread that takes one name at a time
(`ResolveEnds`), the network (`ConnectEnds`), the timer, and the handlers in the order the
io_context queues them. `HandleTimeout` is the lambda 17-31: `Cancel` (one lookup may already be
in the system and is not cancelled), `Close`, then `stop()`, or a `close()` that throws in the
middle. `Return` is `run()` coming back, stopped or `Idle`. `in_time` is history: the lookups and
connects that were through before the timer expired.

### EchoServer

One step per resumption of a coroutine. `listen()` shares nothing with `echo()`, and an `echo()`
nothing with another, so the completion of an operation and what the coroutine does with it are
one step. `AcceptFails` keeps the client in the backlog when descriptors are gone, and drops a
connection that was reset while it waited.

### DumpHelper

Threads that fault, a clock of seconds, and the end of the process. A thread comes to `GenDump` as an
exception nobody handles (`ExceptionFilter`), or through the handler of SIGSEGV, which the C runtime
keeps per thread, or of SIGABRT (`SegvHandler`, `Abort`), whose `SnapshotMem` raises an exception of
its own. `CREATE_ALWAYS` with share mode 0 is `CreateDump`. What follows is `Return`: from the filter
`EXCEPTION_EXECUTE_HANDLER` ends the process; from `SnapshotMem` the handler goes on to
`raise(SIGABRT)`, which is handled once more if it is the first, and ends the process if not.
Whatever the other threads are doing then, stays as it is on disk. Filter and handlers are installed
when the model begins. The name always fits the buffer it is given, so the `false` return of
`GenFilePath` is left out.

| code | action |
|---|---|
| `ExceptionFilter` 64-68, `_signal_handler` 12-15 | `ExceptionFilter`, `SegvHandler`, `Abort`, each with `GenFilePath` 17-33 |
| `GenDump` 36-37, 46-48 | `CreateDump` |
| `GenDump` 38-48 | `WriteDump` |
| the return to the system, or to `_signal_handler` 24 | `Return` |

### AsyncConnectorCo

The coroutines of `async_connector_co` share one queue of handlers, and the provider of each lives
in its frame. This is the composition of `NEndpoints` copies of `TimeoutProvider`: `Token(e)` maps
the slice of the state that belongs to coroutine `e` to its variables, and `EachIsAToken` says
that every step is a step of each copy or leaves it alone. A copy sees of the common queue only the
handlers of its own coroutine (`Mine`), each as the handler of `TimeoutProvider` it is (`Seen`).

| code | action |
|---|---|
| `main` 51-59 | `Resolve`; a name that does not resolve throws before anything is spawned |
| `async_connect` 12-20 | `Start`: builds the provider and awaits the connect, which arms it |
| binder, then 22-34 | `Resume` |
| the end of the frame 35-36 | `Leave`; the handlers wait until it is through |
| `async_wait` lambda | `SkipAborted`, `FireAll`, and `FireDangling` once the frame is gone |
| `io_ctx.run()` 60 | `Return` |

The provider is built with the constructor of two arguments, so its handler is `fire_all()`, and a
connect honours what it emits. From `FireDangling` nothing is known, and the run stops there.

### CompletionTokens and ErrorValues

A token is a stack of wrappers around `use_awaitable`, of which `async_connector_co` uses
`timeout(as_result(use_awaitable))`. The templates allow every order, up to one `as_result`: there is
no `result_signature` for the `void(result)` it asks for (`Tokens`). `WrapTimeout` and `WrapResult`
build the handlers from the inside out, as the nested initiations do. A signal reaches the
operation along the lambdas the providers have put in one another's slots (`Reaches`), which an
`as_result` outside of them interrupts. `CallBinder` and `CallResult` are the handlers called from
the outside in. The stages of a timeout and its races are in `TimeoutProvider`; here a wait
expires and fires in one step and the operation honours what it is sent.

`ErrorValues` names an error code by its enumerator and an exception by what can be caught of it.
`message`, `retrive_error_msg` and `AsResult` are the functions of the code; `OutcomeKept` takes
what the coroutine is resumed with through them.

### SharedDump

Up to `NProcesses` processes, started in order but running side by side, on the files of two
programs in one directory. `DumpPath` is `program_location` with what Linux puts in `/proc/self/exe`: the
path, the first 1024 bytes of it, no link at all, or the path with ` (deleted)` after the executable
was replaced (`Replace`). `Look`, `Report` and `RemoveDump` are the three uses of the name in
`show_last_dump`; `OpenDump` and `WriteDump` those of the handler. A file is its creator and the
dumps written since it was truncated, so that a write to a file removed meanwhile is lost and two
writers leave a mixture. `met` and `crossed` are history: which processes were alive together, and
which of them were about the files together, one with a dump to show (between `exists()` and
`remove()`) and the other showing one too or in its handler. Crashes come after `show_last_dump`, and file operations succeed: the others
are in `CrashReporter`. What readlink does is fixed for a whole behaviour, and a replaced executable
shows in a whole path only.

## 3. Runs

| run | bounds | shows |
|---|---|---|
| `timeout_provider` | 2 operations | no timeout, fired stage or client cancellation is lost; stages escalate; the token implements `TimedOperation!FairSpec` |
| `crash_reporter` | 3 runs | a handled crash leaves this run's dump whole, an orderly run reported what it found, a dump is forgotten in the windows named and no other, handling ends, a report reaches the log |
| `async_connector` | 2 hosts, 2 endpoints | a stop closes every socket, silence means a timeout, what came in before the timer expired is handled, the timer ends the run |
| `echo_server` | 2 clients, 1 descriptor, 3 bytes, buffer of 2 | order, no stale bytes, loss only by short writes, the backlog is served |
| `dump_helper` | 3 threads, 3 seconds | for every second in which a `GenDump` returned a whole dump remains, unless the process ended in the middle of it |
| `connector_co` | 3 endpoints | the timeouts of the coroutines do not mix, `run()` ends and everything is logged, each coroutine refines `TimeoutProvider` |
| `completion_tokens` | 4 wrappers | which signals reach the operation, no timer is left, the outcome says what happened, an outermost `with_timeout` ends it |
| `shared_dump` | 3 processes, 2 programs | whose dumps a program reports, and what it takes to lose one or report it twice |
| `timeout_stale`, `timeout_slot`, `dump_missing`, `connector_co_dangling` | as small as the case needs | the findings below |

Why the bounds are enough. Two operations are what it takes for a handler of one to meet the next;
a stale handler carries only its operation's number and the timer only one wait, so a third
operation meets nothing new - and the theorems hold for every `MaxOps`. Three runs let a dump be
left, be found, and be found missing; the theorems hold for every `MaxRuns`. Two hosts make one
lookup wait for another, and two endpoints make a `close()` stop between two sockets. With one
descriptor the second client meets the accept error; three bytes and a buffer of two give a long
read followed by a shorter one, which is when a stale byte could show. Three threads give a
second that two share while a third has its own.

Three coroutines give one whose timer fires, one it must not touch and one that has ended. Four
wrappers put `as_result` between two pairs of nested timeouts. Three processes let one leave a dump
while another shows it and a third comes before or after; two programs are what a wrong path can
mix up. `Symmetry` permutes the two, which nothing tells apart.

`MaxOps`, `MaxRuns`, `NHosts`, `MaxEndpoints`, `MaxBytes`, `MaxOpen`, `LastSecond`, `NEndpoints`,
`MaxDepth` and `NProcesses` are the only bounds. No run switches deadlock checking off: every module names its own end (`Ended`).

Fairness. `TimeoutProvider`: the executor runs what is queued and time passes (`RunHandler`,
`TimerExpires`); neither the operation nor the client has to do anything. `CrashReporter`: the
scheduler runs the main thread, a handler, and the flusher thread. `AsyncConnector`: the clock and
the io_context; the network may stay silent for ever. `EchoServer`: the io_context resumes a
coroutine whose operation is through, and a client hangs up some day - without that a client that
stays connected keeps the only descriptor and nothing is owed to the next. `AsyncConnectorCo`: the clock and the
thread in `run()`; the network may stay silent. `CompletionTokens`: the initiation, the handlers and
the clock, not the operation and not the client. `SharedDump` states none: a process may stop anywhere.

Every property of a passing run has a mutant in `PROJECT.json`: a definition with a plausible bug
(a dropped guard, a missing reset, a swapped order) under which the run finds the property
violated. The mutants stand before the definitions they change and are marked `Mutant`.

## 4. Findings

1. `asio_timeout.hpp:114-115`, "cancel the time, we're done!": `cancel()` does not recall an expiry
   that is already queued. The handler then emits a cancellation after its operation is over, or
   into the next one, which may be aborted at once (`timeout_stale`).
2. `asio_timeout.hpp:127`, "we need to capture their cancellation slot": around `as_result` there is
   no slot to capture, because its handler forwards only executor and allocator. In
   `async_connector_co` the coroutine's cancellation never reaches the connect (`timeout_slot`).
3. `dump_helper.cpp:23-28` makes `.\dmp` and writes to `.\dump`: if that is missing, `ExceptionFilter`
   ("generate dump file", line 69) leaves nothing and says nothing (`dump_missing`).
4. `asio_timeout.hpp:66`, again against "cancel the time, we're done!": in `async_connector_co` the
   provider dies with the coroutine that its binder resumes, so if the connect completed in the pass
   of the reactor in which the timer expired, the queued handler reads a destroyed provider
   (`connector_co_dangling`).

Limits that the passing properties name rather than hide:

- a `with_timeout` inside an `as_result` times nothing out (`SignalsReach`);
- a dump written after the executable was replaced lies where the next run does not look
  (`EarlierIsConsumed`), and where `readlink` fails or cuts the path programs share a file
  (`ReportsOwnProgram`);
- a dump is lost if the process dies with the report in its buffer, if a crash before `remove()`
  truncates it, or if `show_last_dump()` cannot read what it removes (`ForgetsOnlyInWindows`);
- handling a crash hangs where the signal interrupted a holder of the heap's lock, or, after a
  `create_directories()` that failed, of the sink's (`CrashEnds`);
- of two threads that fault in one second the one that is refused the file may end the process while
  the other is still writing it, and neither leaves a dump (`SecondKeepsOne`);
- a `close()` that throws in the timeout handler leaves `run()` to the network (`TimeoutEndsRun`).

## 5. Proofs

`TimeoutProviderProofs`, from `MaxOps \in Nat`: `Spec => []P` for `TypeOK`, `TimeoutStillComing`,
`FiredIsDelivered`, `ParentIsHeard`, `NoDanglingForward`, `Escalates`, and `Refinement`, that
`Spec` implements `TimedOperation!Spec`. None of the properties is inductive alone. `IInv` adds
what they lean on: an operation that runs has a number (`Started`), no wait and no completion is of
an operation newer than the current one (`OlderOps`), the queue holds at most one completion of an
operation, only while that operation is queued, and an aborted one answers a request it honours
(`OneCompletion`), the slot of a connected client has been taken (`SlotIsTaken`), and a slot that
holds the lambda belongs to `parent` (`ForwardIsParent`), which is why the destructor clears it.
Each conjunct has a lemma with one step per action. `Refinement` needs `OneCompletion`: the binder
maps to the abstract `Finish`, so it must come once, and aborted only when a cancellation was
requested.

`CrashReporterProofs`, from `MaxRuns \in Nat`: `TypeOK`, `ConsumedBeforeRun`, `HandledCrashIsOnDisk`,
`OrderlyRunReports` and the action property `ForgetsOnlyInWindows`. `IInv` says of the stack that its
handlers are of different signals and that the topmost, once past its first line, has its signal
no longer installed (`StackOK`): so no handler is entered twice, a nested one is never returned
from, and at most two exist. The other conjuncts say what the topmost handler has made of the
file (`OpenedIsCut`, `DumpedIsWhole`) and what the main thread has made of the dump it found
(`NotYetShown`, `Shown`, `Consumed`, `RunningOwn`). `ForgetsOnlyInWindows` tells dumps of earlier runs
from this run's own, so it needs which of the two is where: what was found and what is buffered is
earlier (`Earlier`), and this run's own dump was written by a handler that is still on the stack, or
no handler can come any more (`OwnIsHandled`), which is why only a nested handler truncates it.

`AsyncConnectorCoProofs`, from `NEndpoints \in Nat`: `AbortIsOwnTimeout`, `ReturnLogsAll`,
`NoTimerOutlives`, `TypeOK`, `EachIsAToken` and `KeepsThePromise`. An abort that is logged was queued first, so `IInv`
says the same of the queue (`AbortsAreFired`, through the lemma `Queues` about what each step
appends); nothing is spawned before every name is resolved (`NotYetSpawned`), and a coroutine logs
before its frame goes (`ResumedHasLogged`). A second invariant, `QInv`, says that no two handlers of
one kind are queued for one coroutine (`Unique`) and where the coroutine and its wait are while a
handler is queued (`Placed`); `TypeOK` follows from it. `TokensRefine` is the refinement, one lemma
per action, and needs besides only that a provider has not fired before its coroutine begins
(`NotYetFired`). The lemmas `MineAppend`, `MineTail` and
`MineStarts` say what appending to, or taking from, the common queue does to the queue one copy
sees: the handler at the head is the head of its own copy's queue and leaves the others as they are.
`PromiseKept` carries the abstract promise to where the token is used: seen through its copy of
`TimeoutProvider`, each coroutine is a `TimedOperation`. It is proved from the steps and not from
`Refinement`, whose hypothesis would be the `Spec` of each copy; `AbortsAreFired` is what makes an
abort an answer to the coroutine's own provider.

`CompletionTokensProofs`, from `MaxDepth \in Nat`: `NoTimerLeft`, `OutcomeKept`, `SignalsReach` and
`TypeOK`. The handlers are called in order (`InOrder`), those called have cancelled their timers
(`CalledIsCancelled`), and what is carried is `AsResult` of the ending once an `as_result` has been
called, which happens at most once because a second one does not compile (`TokenShape`,
`CarriedIs`). For the signals `LInv` adds which slots hold a lambda, handler by handler and at every
moment of the initiation (`LinkedIs`), and who emits (`EmittedOK`). A signal reaches the operation
if no `as_result` is outside of where it starts (`ReachesOperation`), and then the operation does not
stay pending; so whatever was emitted while it does has an `as_result` outside of it.

`AsyncConnectorProofs`, from `NHosts, MaxEndpoints \in Nat`: `TypeOK`, `StopClosesAll`,
`SilenceIsTimeout`, `InTimeIsLogged`. The centre of `IInv` is `QueueOK`: the queue holds exactly one
handler for each operation that is due, be it a lookup, a connect or the timer, and no other. With
`SocketsOK` (every socket ever opened is in `_sockets`, once) it makes each handler run once and
`Close` reach every socket. The rest keeps the log: what is done has its line, and a
host that is resolved either has an error line or has started a connect (`ResolvedIsLogged`,
`ConnectedIsLogged`); `run()` returns for one of two reasons, and nothing moves afterwards
(`ReturnedIdle`). For `InTimeIsLogged` a second invariant, `InTimeOK`, follows an outcome through the
queue: it has been handled, or its handler is queued, and before the timer's once that is queued too.
Since the queue is run in order and only the timer's handler stops it, none is left behind.

`EchoServerProofs`, for any set of clients, from `MaxOpen, MaxBytes \in Nat` and a buffer that is not
empty: `TypeOK`, `EchoesInOrder`, `OnlyShortWritesLose`. Neither of the last two is inductive: `Data`
says that the buffer is a stretch of what has been read, and that while it is being written all
that went back lies before it; `Whole` says of a connection without a short write that nothing
before that stretch is missing. `BacklogOK` ties the queue of the acceptor to the clients in it.

`DumpHelperProofs`, for any set of threads and `LastSecond \in Nat`: `TypeOK`, which contains that an
open file has one writer, and `SecondKeepsOne`. The two are inductive together: a thread is refused a
file only while another writes it, and a file that is not whole and not being written has no
returned `GenDump` but one whose `MiniDumpWriteDump` failed. The end of the process changes no file.

`SharedDumpProofs`, for any set of programs and `NProcesses \in Nat`: `TypeOK`, `ReportsOwnProgram`,
`OnlyCompanyDisturbs`, `EarlierIsConsumed`. The argument is about who can be where. Of two processes
that never met the earlier had ended when the later began (`Order`). A dump, an opened file and a
looked-up name lie on the path of the program that made them (`DumpsWhere`, `OpenedWhere`,
`NamedWhere`), which are equal for two processes of a program unless an executable was replaced. A
process that no other overlaps with writes to the file it opened, since nobody is there to remove it
(`OwnFile`). Two processes that are about the files at one moment are recorded as such (`Windows`), so
of two that are not, the writer of a dump had ended when the other reported it. So what a process
removes it has reported (`Removing`), a dump it reported is gone from there afterwards
(`ReportedOver`), nothing earlier is left where it looked (`Consumed`), and a dump that is gone was
reported or overlapped (`NotLost`, `NotTwice`).

Three recursive functions are reasoned about, `Aborted` in `AsyncConnector`, `Reaches` in
`CompletionTokens` and `Mine` in `AsyncConnectorCo`. That such a function is what its equation says
is an induction. The library's theorems for it take a predicate as an operator, which the provers
cannot instantiate; the lemma `SetInduction` has the predicate as a set of numbers instead, and
follows from the well-foundedness of `<`.

TLC and TLAPS checked the same definitions, and TLC the inductive invariants before they were
proved. The bound on the length of the stack of `CrashReporter`, which TLC enumerates, is a theorem
here (`TypeCorrect`).

Only model-checked: the liveness properties (`CrashEnds`, `ReportReachesLog`, `TimeoutEndsRun`,
`BacklogIsServed`, `RunEnds`, `EndsByTimeout`) and the fairness half of `Implements`, which are
beyond the prover. The four properties that are violated have a run and, of course, no theorem.

## 6. Not modelled

libressl (nothing of it is called), build files, `PrepareCore` (two calls that set limits),
type aliases and headers. Formatting, log levels and patterns, and the contents of traces.
Executors with several threads: no program here uses one. `default_error_condition`, one constant
for every code, which nothing compares with, and `throw_with_trace`, which nothing calls.

## 7. Plan

1. Done: the token, its abstract promise and its composition with `as_result` and with other
   coroutines; the crash reporter, alone and beside other processes; the examples, the minidump
   helper, the error values; proofs of every safety and action property, and of the
   refinements, the promise of `TimedOperation` for each coroutine included.
2. `CrashReporter` with a second thread that crashes while the first is in the handler.
