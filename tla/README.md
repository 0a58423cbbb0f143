# A verification project for the basedpython debugger

`bpd` debugs a Python program with an *agent*, a native module loaded into the
program's own interpreter, and an *engine*, the process the user talks to. The
agent hooks `sys.monitoring`, holds the threads of the program inside their
callbacks, and answers the engine's requests about them; one TCP connection
joins the two. Front ends (a command line, a DAP adapter, an MCP server) drive
the engine. Most of what can go wrong does so between threads and processes: the
program's own, the agent's three (the connection's reader, the answerer for a
program with nothing held, the writer of the trace stream), the children a
program forks, the engine on the other end and the client of the engine. What is
left is in computations over the interpreter's data whose every input nobody
tries: which lines of bytecode may run twice, which table moves a frame.

This directory models both in TLA+, checks them with TLC and proves the most
important of them with TLAPS.

| file | what it is |
| --- | --- |
| `World.tla` | stopping the world, pausing, and the LINE event that catches a running thread |
| `World_proofs.tla` | theorems about `World` for every set of threads, and about `Breakpoints` for any files, sets and trees |
| `Control.tla` | the control connection: what is held, requests and answers, both ends |
| `Control_proofs.tla` | theorems about `Control` for every number of threads, stops and requests, and its refinement of `Holding` |
| `Holding.tla` | what `Control` promises, with no messages in it |
| `Fork.tla` | the agent's reader and answerer around `os.fork()` |
| `Fork_proofs.tla` | theorems about `Fork` for every set of forking threads and any number of requests, and about `Child` for every set of processes and threads |
| `Child.tla` | what a forked or exec'd child inherits, gives up and opens |
| `Stream.tla` | the bounded stream of trace records, the flush of a stop, the end of the program |
| `Stream_proofs.tla` | theorems about `Stream` for every capacity and set of threads |
| `Steps.tla` | steps, restarts of frames and unwinds, against the interpreter's masks and `DISABLE` |
| `Steps_proofs.tla` | theorems about `Steps` for any threads, code objects, lines and depth of frames |
| `Breakpoints.tla` | the registry of code objects and the set of breakpoints bound into it |
| `Replace.tla` | putting the code of edited files into the process: the plan of a replacement, its refusals, what goes on running |
| `Rerun.tla` | which lines of bytecode a restart, a reset or an unwind may run again, against an interpreter |
| `Linetable.tla` | the location table that a frame is moved through, in its bytes |
| `Staging.tla` | the caches of staged agents: publishing, clearing, kills, both platforms |
| `Staging_proofs.tla` | theorems about `Staging` for every set of launches, clears and entries |
| `Script.tla` | the executor of debug scripts, against a program that goes on |
| `Adapter.tla` | one DAP connection: the client, the two threads that serve it, the session |
| `Adapter_proofs.tla` | theorems about `Adapter` for every client, thread, file, link and number of stops |
| `Server.tla` | the MCP server over a program and its children |
| `Server_proofs.tla` | theorems about `Server` for every set of programs and any number of calls |
| `MC*.tla`, `*.cfg` | instances for TLC |
| `PROJECT.json` | components, runs, the source lines of every definition, mutants, hazards, theorems |

## The system

Paths below are under `crates/`; a bare file name is in `bpd_agent/src/`.

| component | its state | its operations | with whom, how |
| --- | --- | --- | --- |
| stop-the-world monitor and pause (`world.rs`, `pause.rs`) | `PARKING`, `PAUSING`; under a mutex: who asked, who is parked, who was native; a condition variable each way | stop, park, release, let_go; request, arm, claim | called by held threads and by line callbacks; sets events through `refresh_events` |
| stop protocol (`stops.rs`, `session.rs`) | the registry of held threads, a mailbox per stop | enter, next, leave, route, resume, step, restart | held threads wait on mailboxes; the reader posts to them |
| callbacks (`lib.rs`) | what a location may be disabled for | on_line and its siblings | called by the interpreter |
| unheld answerer (`unheld.rs`) | a queue, the answer in flight, the thread | answer, answer_requests, stand_down, resume_answering | fed by the reader, needs the GIL |
| connection (`attach.rs`, `own_thread.rs`) | the socket behind a lock, the reader thread, a wakeup pair | attach, send, read_requests, stand_down, resume_reading, detach, reattach | the engine's other end |
| fork handlers (`forks.rs`, `cells.rs`) | counts of forks under way, in each of the above | before, after_in_parent, after_in_child | `os.register_at_fork` |
| engine session (`bpd_engine/src/lib.rs`, `launch.rs`) | the stops it holds, rebindings to return, the process, the sessions of children | ask, send_and_wait, wait_for, interrupt, launch | sends requests, reads answers and announcements off one socket each |
| steps, restarts, unwinds (`steps.rs`, `restarts.rs`, `unwinds.rs`, `armed.rs`) | what each thread has armed | arm, offer, land, disarm | callbacks, resume |
| instrumentation (`events.rs`, `code.rs`) | the interpreter's event masks, the code objects known | watch, restart_events, register, adopt | everything that arms |
| trace stream (`stream.rs`, `ui_trace.rs`) | a bounded queue with three counts, the writer thread | watch, push, write, flush, stand_down, finish | the audit hook feeds it, stops wait for it |
| breakpoint table (`breakpoints.rs`, `conditions.rs`) | breakpoints, their bindings and hit counts | set, bind, hit | line callbacks, loading of files |
| code replacement and jumps (`replace.rs`, `bytecode.rs`, `linetable.rs`, `inplace.rs`, `bpd_core/src/jump.rs`) | none of its own | plan, apply; judge a line; move a frame | a held thread |
| inspection (`frames.rs`, `values.rs`, ...) | handles that live as long as a stop | read frames, values, sources, tasks | a held thread |
| agent staging cache (`bpd_engine/src/agent.rs`, `cache.rs`) | files | stage, publish by rename, sweep, clear | concurrent launches and clears |
| scripts and queries (`bpd_engine/src/launch/*.rs`, `bpd_core`) | a tree being walked, its transcript and budgets | run | the engine session |
| session model (`bpd_core/src/session.rs`) | data types the front ends share | address a request, refuse it | every front end |
| DAP adapter (`bpd_dap`) | what was announced, references, the breakpoint set, requests put off | one handler per request, the turn of the loop | an editor, the engine |
| MCP server (`bpd_mcp`) | a debuggee kept between calls, children to tell of | one handler per tool | an assistant, the engine |
| command line, release, editors | little | I/O | the user |

What is hard, and what makes each correct:

* **World.** A thread decides to sleep while another wakes everyone; two stops
  want the world and end in either order; setting events can fail in the middle
  of a release; the global LINE event is computed from flags read a step before.
  Correct: no parked thread is forgotten, the world lasts exactly as long as some
  stop that asked for it, what an answer says runs is what runs.
* **Control.** Nothing on the wire says which request a message answers, while
  other threads announce stops, resumes, rebindings and pauses between a request
  and its answer; a thread is registered, announced and routed to at three
  different moments. Correct: an answer belongs to its request, the engine and
  the agent agree on what is held, nothing is posted to a thread that left.
* **Fork and Child.** CPython counts threads at `os.fork()`, so the agent takes its
  own off first, from inside a handler that holds the GIL, possibly in several
  threads at once, possibly while an answer needs that GIL. The child wakes up with
  the memory of a process whose threads were anywhere. Correct: no request is lost,
  no fork hangs, and a child is a session of its own or as it would be without bpd.
* **Stream.** A bounded queue loses records by design and must say so; a stop
  must not be reported ahead of the records before it; the end of the program
  must account for the rest. A writer waits for two things at once and is stood
  down by forks.
* **Steps and instrumentation.** `DISABLE` is process wide, what is armed is per
  thread, a frame's address is used again. Correct: no location another thread
  needs stays disabled, and a step is over when the frame it was asked in is.
* **Breakpoints.** Files load while sets change, a condition runs the program's
  code in the middle of a hit, a replacement puts new code objects where the old
  were. Correct: what was said to be bound is where it runs, and acts when due.
* **Jumps.** A frame is run again from the start of a line whose operands are on a
  stack nobody can put back. Correct: the second run makes the same call as the
  first, or says what differs; a move lands where it was sent.
* **Staging.** Several launches publish the same file, one may be killed half way,
  and a clear looks at the cache at any of these moments.
* **Scripts.** A script drives one thread while others stop and the program ends.
  Correct: a step starts where the one before it landed, the script's own
  breakpoint is gone when it ends, and it ends.
* **DAP and MCP.** Announcements and answers in an order a client accepts, handles
  that die with the stop they belong to, a stop meant by number in one process and
  held under the same number in another.

## What is modelled, and how

Every definition of a model is mapped to its lines in `PROJECT.json`. A lock that
is taken and given back around assignments is one step; a wait on a condition
variable is a step that gives the lock up and enters a wait set, and a step that
leaves it after a notification; a read of a flag and the call it decides are two
steps wherever another thread can get between them. `FreeThreaded` says whether
the interpreter has a GIL: with one, a thread in the middle of a callback excludes
the others until it waits, detaches or returns. A request and its answer are two
messages in `Control`, whose subject is what comes between them, and one step in the
modules of the front ends, after everything that was ahead of the answer is read.

### World

`pc[t]` is the place of a thread: in Python, in a C call, in `park` (push, check,
sleep), held, in `stop_the_world` (store, refresh, set, arrivals, record, giveUp)
or on its way out of a stop (leave, letGo, notify). `parking`, `pausing`, `asked`
(the requesters, with how often each asked), `native`, `parked`, `lock` and
`waiting` are the statics of `world.rs` and `pause.rs`; `line` is the LINE bit of
the interpreter's global mask. `RefreshRead` and `RefreshSet` are the two halves
of `refresh_events`, `RefreshFails` the call raising. `LocalLines` are threads that
run a code object with a breakpoint: they see line events whatever the global mask
says, and `Hit` decides before world and pause are looked at, as `on_line` does.
`Pausers` are the threads `pause::request` starts. `letGo` and `orphaned` are
history: who was let run since the world was stopped, and that a requester is left
whose stop is over.

Left out: which breakpoint is hit, steps, the other events, and the timeout as a
number (`Arrivals` may give up on targets at any moment they have not parked).

### Control and Holding

`registry` and `mailbox` are those of `stops.rs`; `at[t]` follows a thread through
`session::stop` (entering: registered, not announced; held; answering; restarting).
`reader` is the reader routing one request; `unheld` and `answering` the queue of
`unheld.rs`; `pausers` the threads a pause starts. `requests` and `messages` are
the two directions of the socket. The engine is `engine`, `asked`, `held`,
`rebinds` and `carried`, through `ask`, `send_and_wait` (`KeepAside`,
`TakeAnswer`) and `wait_for`. Requests stand for their kind: `census` for all that
are about the process, `stack` for all that are about a stop, and `restart`,
`resume`, `resumeAll`, `step`, `setBreakpoints`, `pause`, which the code treats
each in its own way. Messages carry a serial number of the request they answer
that no code reads; the properties are stated with it.

`Holding` has three variables: the stops in force, those the client knows, the
last number. `KeepsPromise` is that `Control`, with the registry and the engine's
list for the two sets, implements it: a stop is never let go before it was known,
is never learned of after it ended, and the stops of one resume go together.

Left out: the contents of answers, the handshake, an engine that goes away, and
the order of requests from several clients (the engine has one).

### Fork and Child

In `Fork`, `reader` and `answerer` are the two threads, `socket` the kernel's buffer,
`inHand` the request read and not routed. The reader's `running`, `idle`, `forking`
and its wakeup byte, and the answerer's `queue`, `in_flight`, `stopping`, `running`,
`forking` are variables. `pc[f]` follows a forking thread through both `before`
handlers, the fork and both `after_in_parent` handlers; `gil` is held, on a build
with one, by a forker throughout except where `unheld::stand_down` detaches. An
answerer that has taken a request needs the interpreter to answer it. Stops are
left out, so every request goes to the unheld answerer.

`Child` has a process per member of `Processes`, with its memory, its descriptors and
its threads. A fork copies the memory, and one thread, at any moment of the others:
between taking and giving back the writer's or the registry's lock, half way through
`send`, holding the world, parked. `Handles` are the steps of `after_in_child` and of
`reattach`, or of an exec'd child that is entered through `children.rs`: closing what
was inherited, abandoning the cells, connecting or giving up. The engine reads each
connection to its end. A child has one thread in the model. Left out: the trace
stream of the child, and a reader's thread that cannot be started (`SpawnFails`, see
the findings).

### Stream

A record is the number of its push. `queue`, `dropped`, `pushed`, `delivered` and
`stopping` are `Outbound`; `wanted`, `running`, `forking` are `Writer`, with the
mutex around it (`writerLock`, which a stand-down keeps while it joins) and the
wakeup byte. `writer` goes around `write_records`, `pc[t]` through the hook, the
flush and report of a stop, the stand-down of a fork and `finish`. `written` is the
last record on the wire, `target[t]` what the flush of a thread waits for. Between
the stand-down and the fork the thread may be `standing`: the next handler gives
the interpreter back when an answer is in flight, and with it the forks of two
threads overlap even with a GIL.

Left out: the child's `abandon`, failures of the operating system (they end the
process), a detached process, and the platforms without a wakeup pair.

### Steps

The program is any program: a thread begins lines, calls, returns and raises as it
likes, in the code objects of `Codes`, some of them a library's. `session` is what
the agent has armed for each thread (`step`, `restart`, `unwind`, and the registry
`interest` of `armed.rs`) with the interpreter's masks, global and local, and the
locations that returned `DISABLE`. A callback is one step, as on a build with a GIL,
and what a held thread is let go with is `asked`. A frame's number is its address: a
later frame gets the lowest that nothing refers to, so a stale frame can be mistaken
for a new one. `OperationIsKept` says that at most one of step, restart and unwind is
armed for a thread, that it refers to frames that are there, and that where a step
landed is where it was asked to land; `StepIsNotMissed` is the reference definition:
no line begins that the step should have stopped at. `asked` has, with what was asked
for, the lowest depth its thread has been at since (`low`): a frame above that with a
library's frame below it is one a library called back (`CalledBack`). A step over or out
may run through such a frame and whatever that calls in turn; a step in may not.
`StepIsNotMissed` is about all the rest.

Left out: generators and coroutines, templates and tasks, parked threads (`World`),
errors inside a callback, the free-threaded build, and lines and frames numbered 0
(`steps.rs:254`, `steps.rs:427`: code without lines, a step without a frame). The stop that an
exception nobody catches makes in `on_py_unwind` (`lib.rs:1003`) is left out of `Unwind` too: a step
asked for there never lands (see the second list of findings). Whether a frame may be
restarted or left is a guard here; `Rerun` is about what it must say.

### Breakpoints

`code` is the registry of `code.rs`: files known, the roots of each, those seen whole.
A resolution, from the set to what is sent, is one step under the GIL; a condition
runs the program's code, so anything may happen between two breakpoints of one hit.
`set` has the plans, the sites they are armed at and those that acted, `instr` the
interpreter's local events and forgotten locations, `count` the hits, `told` what the
client was told last. `Start` is the start of a code object, which may be one that nobody
knew, `ReplaceCode` a replacement that `Adopt`s a new tree, and `Due` the plan of a hit that
runs next.

Left out: names of a file other than one, the entry stop, what a breakpoint that acts
does to the thread (`World`), frames that go on in replaced code.

### Replace

A file is a text that compiles to a tree of code objects (`Tree`), does not compile, or is
not there. `compiled` has every tree the process compiled, `held` and `frames` its functions
and frames by the code they run, `seen` what the registry of `code.rs` knows. A replacement
is one step: `Compare` walks the two trees as `bpd_core/src/replace.rs` does (lining up or
pairing by name, what blocks, what is orphaned or ambiguous), `Check` asks the heap as the
agent does, and one refusal refuses every file. `tables`, `mapped` and `build` are the source
maps of the agent, of the engine and of the disk. `Import`, `Calls`, `Makes`, `Returns` and
`Forgets` are any program. `kept` and `spared` are history: files of which a replacement left
code alone, frames it told of. Only `MCReplace` shares a run with `Breakpoints`;
`ReplaceCode` there is the step of `adopt`, here a replacement is the whole request.

Left out: literals other than by identity, what an edit says in source text, threads of the
replacement (the interpreter's lock is held throughout), retries of a heap walk.

### Rerun and Linetable

`Rerun` writes a code object an instruction at a time, any that a compiler can write
over the alphabet of `MCRerun`, in a frame of any kind. The first half is the analysis of
`bytecode.rs`: which instructions a line may hold to be run again, what the call before
which a frame is rewound took, which names it stores, what an unwound frame runs
on its way out. The second is an interpreter, symbolic in its values: `CallIsMadeAgain`
runs a permitted line, lets the call return, runs the rest, goes back and compares the
operands of the second call with those of the first, and `MovedWithoutTrace` runs the
tail of an unwound frame and the head of a reset one.

`Linetable` has the bytes of a location table, the doctored table of `linetable.rs`, and
threads that install it, move and put it back. `LandsWhereSent` reads the table that is
installed as the interpreter does.

Assumed: straight-line execution inside a permitted span, a call on the line its callee
is loaded on, a line that begins with an empty stack of its own. Left out: saturation of
the entries of a table at 32 bits.

### Staging

An action is what one call of the file system does: of a launch (`agent.rs`: look, make
the directory, write a temporary, rename it over the entry), or of `bpd cache clear`
(`cache.rs`: describe, then remove what was described). An entry is a directory named
by a digest, and `files` pairs it with what is in it, among that the torn module of a
full disk. Any launch may be killed or refused by the disk between any two calls, and
whatever earlier processes left is an initial state. On windows a file in use can be
neither replaced nor removed.

### Script

`Script` walks a tree of steps against a program of two threads: `todo` is the stack of
steps left, `doing` what the step being run waits for, `records` the transcript, `spent`
and `late` the budgets of steps and time. `at`, `wire` and `history` are the program. A
request is one step with its answer, and what is on the connection by then is read aside.
Left out: the values of steps, requests the agent refuses while it is there, and a
rebinding in the place of an answer (a finding of `Control`). `Script` and `Staging` are
parts of the engine that share nothing; `MCScript` puts them in one run, a behaviour of
which is of one or of the other.

### Adapter

`Read` is the thread that reads the client, `loop` the thread of `run`: `pc` is where it is
in a turn, `hand` the request it handles, `then` what follows. Every command of the
adapter is in `Commands`; those that differ only in what they read are handled by the
same operators, with a reference or a thread that must resolve. `handles` are the stops
at which references that still resolve were minted, `byFile`, `wants` and `unarmed` the
breakpoint set with its links, `untold` the stops whose event is not written. The engine
is what the adapter sees of it: `line` the announcements it has not read, `held` those it
has. A request asked of the session is answered (`Ask`), which announces what was read ahead of
the answer, or refused (`Refused`), which does not: any request may be refused by whoever was
asked. What the agent refuses to nobody, the arming of a set or a setting, the stop of the
world and the resume that begins the program, fails only when the program is over, or under
`Fails`. A program whose main thread is done while others are held says so once or more
(`Finishing`), and the loop announces then. `told` counts the events that `announce` writes; `goto` and `restartFrame` write another
`stopped` for a stop that was told, when a frame moved under it (`adapter.rs:3447`,
`adapter.rs:3323`). Left out: what an answer contains, the transports, `startDebugging`, and a
`Finishing` taken for an answer, which is a finding of `Control`.

### Server

A tool call is a list of dispatches (`todo`), between any two of which the programs go on:
they stop, fork a child that connects, log, die. `attached` and `held` are `Debuggee` of
`launch.rs`, with the addressing rules of `bpd_core/src/session.rs`; `joined` is what is
to be told of with the next answer. `seen`, `believed` and `unsure` are the client: what
it was told, and that a call of its failed half way. Stops are numbered by each program
for itself. Left out: contents, breakpoint sets, the wire (`Control`).

## What is checked

| run | instance | shows |
| --- | --- | --- |
| `World_gil` | 3 threads, each may hit a breakpoint, 1 pause, restarts, failing set_events, GIL, fairness | `NoLostWakeup`, `WorldIsReleased`, `WorldIsKept`, `NoneIsPassedBy`, `ParkedRunsAgain` |
| `Control_both` | a program of 1 thread asked anything but a pause, with an interrupt and an end; one of 2 threads asked by name; 3 stops, 3 requests, 1 rebinding, a kill, fairness | `OwnAnswer`, `ViewsAgree`, `NothingIsLost`, `KeepsPromise`, `AskIsAnswered` |
| `Fork_many` | 2 forking threads, 3 forks, 3 requests, GIL, fairness | `RequestsKept`, `OwnThreadsKeepOff`, `NothingHangs` |
| `Child_many` | a process, what is forked or exec'd from it and from that, 2 threads, stopped worlds | `ChildIsItsOwn` |
| `Stream_gil` | 2 threads, queue of 1, 4 records, 2 stops, 2 forks, GIL, fairness | `GapsAreSaid`, `StopFollowsQueue`, `EndAccounts`, `WriterIsOff`, `FlushReturns` |
| `Steps_many` | 2 threads, 3 code objects, one a library's, a breakpoint, an ask, a pause, raised exceptions | `OperationIsKept`, `StepIsNotMissed` |
| `Breakpoints_gil` | 2 threads, 2 files, sets with hit counts and one that waits, a replacement; a class with a method that makes functions, in 3 texts, 2 edits, 4 compilations | `ArmedIsReached`, `ActsAsAsked`; `RunsWhatIsOnDisk` |
| `Rerun_lines` | every code object of 3 instructions and every ordinary one of 5; every table of 2 entries | `CallIsMadeAgain`, `MovedWithoutTrace`, `LandsWhereSent` |
| `Staging_script` | 2 launches, a clear, both platforms; 5 scripts, 2 threads, 5 stops, fairness | `LaunchStands`, `OnlyWhatWasDescribed`; `TranscriptIsTrue`, `OwnIsTakenOff`, `ScriptEnds` |
| `Adapter_launch` | every way to start, configure and end, 2 requests outstanding | `OneAnswer`, `ArmedIsAsked` |
| `Adapter_requests` | every request about a program, 2 threads, 3 stops, fairness | `ClientIsCurrent`, `NothingIsOwed` |
| `Server_many` | a program and its child, 2 stops each, 6 calls of any tool, fairness | `ActsAsMeant`, `JoinedAreTold`, `ReturnedIsTold`, `CallReturns` |

Where two modules share a run they have nothing to do with each other: a behaviour is of
one of them, and the other's variables stay as they are.

Some properties are conjunctions of two that are about one hazard, each of them a
definition of its own in the module: `NoneIsPassedBy` (`NoThreadEscapes`,
`LineWhileWanted`), `NothingIsLost` (`NothingStranded`, `RebindsAreKept`),
`OwnThreadsKeepOff` (`ReaderIsOff`, `OneAnswerer`), `NothingHangs` (`ForkReturns`,
`RequestsAnswered`), `ChildIsItsOwn` (`OneWriter`, `WholeOrBare`, `ChildIsFree`),
`OperationIsKept` (`OneOperation`, `InFlightIsLive`, `LandedWell`), `ArmedIsReached`
(`ArmedIsOffered`, `BoundIsRun`), `ActsAsAsked` (`ArmedInTurn`, `ActsOnce`), `CallIsMadeAgain` (`SameCall`, `DisturbedIsTrue`),
`MovedWithoutTrace` (`ExitsReturn`, `UnwindIsQuiet`, `ResetIsAFreshCall`), `LaunchStands`
(`StagedStays`, `LaunchesAgree`), `ClientIsCurrent` (`TellsOnce`, `ReferencesAreHeld`),
`NothingIsOwed` (`StopIsTold`, `RequestIsAnswered`).

Each property has a mutant of the model, written next to the definition it changes ("A
mutant: ..."), with the kind of mistake the code could have made; the property fails for
it. Most parts of a conjunction have one too, in the module.

The types (`TypeOK` of each module, or `BreakpointTypes` and so on), `StopIsAnswered` and `LineOnlyWhileWanted` of
`World`, `HeldIsRoutable` of `Control`, `LoneForkIsClean` and `HandlersPair` of `Fork`,
`TakeFindsOne` of `Stream`, `OnlyWhatIsArmed` of `Steps`, `Settled` of `Breakpoints`,
`ChildGoesOn` of `Child` and `TableIsPutBack` of `Linetable` hold on these instances as
well (`ChildGoesOn` on one child), and are not run.

### Bounds, and why they are enough

* Three threads in `World` are a stop, a second stop that wants the world too, and
  a thread that parks: every argument in `world.rs` is about at most these.
  `MaxAsks = 1` because a second request of the same stop breaks the release (see the
  findings); the inductive invariants of the proofs were also checked with two.
* Two threads in `Control` give a message of one between the request and the
  answer of the other; three stops let a thread stop again while the other is
  still held; three requests let one be answered late and the next be asked.
* Two forking threads overlap in every order, and a third fork comes after or
  during either; three requests are one in each of the answerer, the reader and
  the socket. Two names for answering threads are one more than the code may use.
* A grandchild is forked by a child that is a session of its own, by one that is not
  and by one that was exec'd; two threads put one of them anywhere when the other forks.
* A queue of one overflows with the second push, and four records are one in the
  writer's hand, one queued and two that drop others.
* In `Steps` a second thread disables what the first needs, and frames three deep make a
  caller's caller. Two lines, two calls and two asks were checked as well, one at a time
  (up to 5.1 million states).
* Two edits and four compilations in `Replace` are a file put in, edited and put in again:
  what the first replacement did to the registry is what the second looks through. A function
  that makes a function is as deep as the walk's cases go; `MaxHeld` and `MaxFrames` only say
  whether there is one. `Reimports` and `Forgives` switch two findings.
* In `Breakpoints` two hits are what a hit count of two needs, two files what a chain does.
* Three instructions make every pair of a store and a read around a call; five make a call
  of an operand that was moved. Six were checked too (0.9 million code objects). Table
  entries jump by more than one byte holds and by less, to both sides; three entries were
  checked too.
* Two launches meet at every call of the file system, and a clear between. Every step of a
  script occurs alone and inside a branch or a loop; five steps exhaust the budget
  in some scripts and not in others.
* Two stops of two threads are what `Adapter` needs for one to go while the other is
  told of, and for one to be read by a request about the other; three were checked with the life of a session too (15 million states). A
  second request under way is all that overtaking is about.
* Six calls in `Server` are two waits, two steps and what goes wrong after them; three
  stops with five calls were checked too.

Threads, and ids of requests, are interchangeable; symmetry is used with invariants and
action properties only, never with liveness. Deadlock is not checked where the program
may end, the client may stop asking and the instance runs into its bounds; that nothing
gets stuck is what the liveness properties say instead. `Adapter` checks it: the end of a
connection stutters and nothing else does.

### Fairness

Fairness is assumed of threads that the operating system schedules and of nothing
else. In particular no client has to ask or resume, no thread of the program has
to leave a C call, reach a line, announce, stop or fork, and no pause has to be made.
Weak fairness stands for a thread whose next step stays possible: a held thread that has
a command, the agent's reader and answerer, the engine's read loop (`Control`, `Child`,
`Script`), the two threads of the adapter, the one of the server, a script's clock.
Strong fairness is used where a step needs a lock or the GIL that others take and give
back again and again (`World`, `Fork`, `Stream`): the mutexes are futex based and the
GIL forces a switch on request, neither lets a waiter starve for ever. The engine is
assumed to read the socket where a property waits for a write (`Stream`).
`CallReturns` leaves out a program that logs without a pause (`Chatty`, see the findings).

## Seen while modelling

Where the code does otherwise than one of its comments or docs says. The first list has a
behaviour that TLC finds with the definitions here, on the instance named; the second was
read off the code while it was modelled.

Found by TLC:

* **The world is never released** (`WorldIsReleased`, `MaxAsks = 2`; `world.rs:152`).
  `stop` pushes a requester for each request, `release` removes one entry with each
  resume. A stop asked twice, and resumed once, leaves an entry and every parked
  thread asleep until the next stop comes and goes.
* **Held and native at once** (`HeldIsNotNative` of `World`; `session.rs:530`). The threads
  to wait for are chosen before the wait; one that reaches a breakpoint meanwhile is
  counted as held and as running native code in the same answer.
* **The world without a GIL** (`FreeThreaded`). `let_go` stores `PARKING` without the mutex
  (`world.rs:120`); a stop that asks between the removal of the last entry and that store
  loses the world it was promised (`WorldIsKept`). Two refreshes interleave and leave LINE
  as the older one read it (`session.rs:78`).
* **A rebinding is taken for an answer** (`OwnAnswer`, `TableAsks`; `launch.rs:2328`).
  A file that loads while a breakpoint set is being sent announces
  `BreakpointsResolved`, which is also what the answer looks like.
* **The end of the program is taken for an answer** (`OwnAnswer`, two threads and
  `Finishes`; `launch.rs:2290`). `send_and_wait` has no arm for `Finishing`: it is
  returned as the answer, and every later request gets its predecessor's. This is why
  `Control_both` lets only the program of one thread end.
* **A resume of everything overtakes an announcement** (`ViewsAgree`, `RunAsks`;
  `stops.rs:374`). It takes a thread that is registered and not announced; `Resumed` goes
  out before `Stopped` and the engine holds a running thread.
* **A second fork does not wait** (`AnswererIsOff` of `Fork`; `unheld.rs:248`). It finds the
  handle taken and forks while the first still waits, with the GIL given back, for
  the answer in flight.
* **A stop ahead of its record** (`StopFollowsRecords` of `Stream`; `stream.rs:163`). A
  record dropped from a full queue is counted as delivered while an older one is in the
  writer's hand; the flush reads the count and does not wait for that one.
  `StopFollowsQueue` is the part of the promise that holds.
* **The stream without a GIL** (`FreeThreaded`). A record announced when the program ends
  may be neither written nor counted (`EndAccounts`); a watch turned on while `finish`
  writes the rest starts a second taker of the queue, which `stream.rs:397` and
  `stream.rs:563` rule out (`GapsAreSaid`).
* **A step into a callback** (`StepsIntoCallback` of `Steps`; `steps.rs:283`). `go_on_entering`
  sets entering and does not restart the locations, so a function whose start was
  switched off is stepped over (`steps.rs:449`, `docs/development/stepping.md:370`), and with
  it whatever it calls of the program's own.
* **A restart that is never caught** (`RestartIsCaught`; `restarts.rs:23`). `rewinding` sets
  entering without restarting the locations; another thread may have switched the
  callee's start off. And **a restart that outlives its caller** (`RestartIsLive`;
  `restarts.rs:318`): the rewound line raises before its call.
* **A bound breakpoint that nobody runs** (`BoundIsRun`, a tree in which a function did not
  change; `replace.rs:375`). The replacement adopts the new tree and the function keeps its
  old code; the breakpoint is on the new one.
* **Code that a replacement leaves behind** (`RunsWhatIsOnDisk`, `Forgives = FALSE`;
  `replace.rs:375`, `code.rs` on `adopt`). `Facts::identical` does not look at nested code, so a
  function left alone goes on making closures of the old body; the next replacement looks
  for holders of the tree that was put in, and what the first left alone runs an older one,
  so it is neither found, replaced nor told of; of what was dropped only the code object
  itself is looked for, not what it holds.
* **A file loaded twice** (`RunsWhatIsOnDisk`, `Reimports = TRUE`): when bpd saw one of two
  loads (the other before it attached, or in an evaluation of its own), the functions of the
  other are neither found nor replaced, and nothing refuses.
* **`threads` before a launch** (`ConfigurationIsThere` of `Adapter`, `Patient = FALSE`;
  `adapter.rs:1800`) panics.
* **A stop read by a refused request** (`RefusedReadIsTold` of `Adapter`, on the instance of
  `Adapter_requests`; `adapter.rs:3763`). A second thread's stop is on the connection when a client
  asks for what the agent refuses. `send_and_wait` moves it to `held` (`launch.rs:2315`) and returns the
  refusal (`launch.rs:2325`); `ask` returns with it before it announces, though `adapter.rs:622` says that it
  announces whatever it read on the way. A look finds nothing new on the connection, so the
  stop is told only with the next stop, answered request or `Finishing`, to a quiet client never.
  `StopIsTold` is the part of the promise that holds: of every stop that no refused request has read.
* **An agent that fails what it never refuses** (`Fails = TRUE` of `Adapter`). An arming that fails
  (`ui_trace.rs:132`) returns out of `arm_what_was_held` with the rest unarmed, and a program that is let
  go then does not have what its client was told (`ArmedIsAsked`; `adapter.rs:1244`). A stop of the world that
  fails leaves the others noted and untold (`TellsOnce`, and `StopIsTold` with it; `adapter.rs:3651`).
  `OneAnswer`, `ReferencesAreHeld` and `RequestIsAnswered` hold.
* **A link to a breakpoint that is gone** (`ChainsAreCurrent`, `Links`; `adapter.rs:4892`):
  `link` relinks the file that was replaced, and another file's `after` keeps the dead id.
* **A stop told before the configuration is done** (`NothingBeforeBegun`; `adapter.rs:600`):
  the look of a quiet slice does not ask whether the program was begun.
* **Requests that are never answered** (`FarewellAnswers`; `adapter.rs:185`,
  `docs/development/dap.md:964`): after a refused launch, what the client sends in the
  farewell.
* **bpd's own stray** (`StraysAreNotOurs` of `Staging`; `cache.rs`, the doc of `Stray`). The
  temporary of a publish lies in the cache's root, for ever after a kill: clear reports it as
  not put there by bpd and refuses.
* **A step that fails after its thread was let go** (`StepIsAnswered` of `Server`;
  `docs/development/mcp.md:520`): with two sessions open and only the stop named, the wait
  after the resume is refused. And with a client that goes on with what it believed
  (`Resyncs = FALSE`), **the wrong program's thread** is let go next (`ActsAsMeant`).
* **Stops of a program that is over are listed** (`OverHoldsNothing`; `server.rs:965`): `held`
  is never cleared when a connection ends.
* **A deadline that passes unseen** (`CallReturns`, `Chatty`; `server.rs:8`): it is looked at
  only when nothing is there to be read.
* **A child that waits for nobody** (`WorldHasAHolder` of `Child`, `Worlds`; `forks.rs`). The
  state of `world.rs` and `PAUSING` are not among what a child gives up: a fork with
  the world held parks the child for ever, and one while a parked thread has the
  mutex hangs it.
* **A child half open** (`ForksCleanly`, `SpawnFails`; `attach.rs:669`): when the reader's
  thread cannot be started after the handshake, the writer and the descriptors stay.
* **A call made again with other operands** (`CallIsMadeAgain`, `Rewrites`; `bpd_core/src/jump.rs:618`):
  in `f(a, (a := b))` the names stored *before* the call are not looked at.
* **A deleted parameter** (`MovedWithoutTrace`, `Deletes`; `bytecode.rs:1354`): the reset means to
  refuse it, but the instruction that deletes names nothing.
* **A doctored table that stays** (`LandsWhereSent`, `TableIsPutBack`, two threads, `Warns`;
  `linetable.rs:148`): a move made while another gives up the interpreter reads the doctored
  table as the real one and puts it back for good.

Read off the code:

* Connection: a stop that ends by restarting a frame returns without the refresh that its
  comment says every end makes (`session.rs:450`); a pause sent past a waiting engine
  and a pause asked for are answered with the same message.
* Steps: a step asked for from a stop in `on_py_unwind` never lands.
* Breakpoints: a second copy of a loaded file never triggers a rebind, nor does one
  after a partial load (`code.rs:84`); `fired` is never cleared, though `breakpoints.rs:63`
  says with the set; arming what waited announces nothing (`lib.rs:552`); a chain through
  an id that is not in the set is reported as waiting; `code::register` expects a root that
  `adopt` may have dropped (`code.rs:108`).
* Replacement: `pair_by_name` takes the kind of the old code only; an audit hook of the
  program runs between the walk of the heap and the writes. A remap takes breakpoints on
  `.by` lines that the new map no longer covers out of the agent's set without a word to the
  client (`bpd_core/src/replace.rs:140` has them reported); the engine keeps the map of
  whichever session replaced last, for every session (`launch.rs:540`); a restaged build
  replaced without a remap compiles through the old table.
* Restarts: the tail of an unwound frame is not asked about its namespaces
  (`restarts.rs:304`); the rewind sets the caller's line without binding its unbound names
  first (`restarts.rs:204`).
* Adapter: a second launch in a live session ends it; a disconnect while a launch is
  in progress ends nothing, and the launch is answered after `terminated`; `terminated`
  may be written twice, and `exited` after it.
* Staging: clear may take away a module that was republished over a torn one it described;
  a clear between the directory and the publish makes a launch fail; an entry that goes
  between the listing and the look is an error.
* Server: `attached` is never shortened, so once a child joined `terminate` never clears the
  session (`server.rs:763`) and `launch` is refused for ever; the wait for a killed child may
  outlast the deadline; a held child that joined is refused as running until a wait
  reads its stop; the note of a timeout says that nothing was held while listing what is;
  `requested` is replaced before the ask and is one for all sessions.
* Children: `DebugChildren{on: false}` asked of an exec'd child panics, its channel was never
  set; a child that is half armed when it fails stays connected with the tool claimed;
  a child forked while a pause is asked for pauses.
* Scripts: another thread can stop at the script's own breakpoint, under an id the client
  does not know; a stop read aside while the set is put back is never a landing; a
  connection that ends in a script loses the transcript (`script.rs:45`); an arming that is
  followed by a refusal leaves the script's breakpoint in the set (`script.rs:458`).

## What is proved

Eight modules hold theorems and their proofs, `World_proofs` and `Fork_proofs` about two
components each. What a theorem assumes of the constants beyond the types is written in its
`ASSUME`, and is listed here with the reason it is needed; where the assumption is dropped,
TLC has the counterexample, which is among the findings above. An invariant that a theorem
rests on was checked with TLC on the small instances before it was proved. Each has a step
lemma with one case for every action.

`World_proofs`, for any set of threads and pausers, any `LocalLines`, and
`Restarts` and `Fails` either way:

* `TypesHold`: `Spec => []TypeOK`. `TypeOK` is not inductive, because `GiveUp`
  takes a request back and the count must not fall below zero; `Types` adds
  `AskerIsListed`, that a thread on its way to an answer is listed.
* `NoWakeupIsLost`: `Spec => []NoLostWakeup`, on both builds. `Wakeup` adds that the
  mutex is held exactly between the push and the wait (`LockIsHeld`) and that only
  sleepers are in the wait set. This is the argument for the lock `let_go` takes.
* `ReleasedWhenAskedOnce`: if `MaxAsks <= 1` then `Spec => []WorldIsReleased`, on both
  builds. It rests on `AsksOnce`: with one request per stop nothing is orphaned. The
  first finding shows that the assumption cannot be dropped.
* `KeptWithGIL`: if there is a GIL then `Spec => []WorldIsKept`, for any `MaxAsks`.
  `Kept` says that nothing is listed while the last to leave lets the world go,
  which only the GIL makes true, and that whatever is listed past the store of
  `PARKING` has it up.
* `NoneIsPassedByWithGIL`: if there is a GIL then `Spec => []NoneIsPassedBy`, for any
  `MaxAsks` and wherever `set_events` fails. `Armed` follows LINE through the two halves of
  a refresh: one callback is between them at a time, it writes what the flags are, and
  while LINE is off in a stopped world somebody is on the way to set it or to give up.
  `Caught` follows a thread: told of a stopped world, it is listed as native, was let go
  since, or does not run.

The second half of `World_proofs`, about `Breakpoints`, for any files, trees, sets of
breakpoints and threads (the two modules share no name):

* `BreakpointsAct`: `BreakpointsSpec => []ActsAsAsked`, with no assumption but
  `BreakpointsAssumption`. `InTurn` follows an id from the plan that acts, through the hit it acted
  in, to the set of those that fired: whatever is armed, in a hit or has acted waited for
  nothing that has not acted. `OnePlan` says that a request has one plan, and that a
  breakpoint no set leaves out keeps it, which is why its count is one; `Counted`, that the
  count of a plan has passed its hit once it has acted.
* `ArmedLinesAreOffered`: `BreakpointsSpec => []ArmedIsOffered`. A resolution restarts every
  location, and what is forgotten between two is a line that nothing is armed at
  (`SitesAreReal`).
* `BreakpointsAreReached`: if `Ordinary` then `BreakpointsSpec => []ArmedIsReached`. `Known` says
  that what runs of a file was made by its module, and is known when the file is known
  whole; a step either resolves the set against what it leaves registered (`Anew`) or leaves
  what is armed as it was, and then no more of those files runs (`AsItWas`). `Ordinary` is
  that a file is compiled to one module, that what a code object holds is of its file, and
  that a replacement makes every function anew. The first and the last are findings above (a
  second copy of a loaded file; a function that did not change); the second excludes code whose
  `co_filename` a program rewrote.

`Stream_proofs`, for any finite set of threads, any capacity above zero, and
any number of records, stops and forks:

* `WriterIsStoodDown`: `Spec => []WriterIsOff`, on both builds. The property is not
  inductive; `StoodDown` adds that the mutex is held by the thread that joins, that
  `forking` is the number of threads between their handlers (`ForksAreCounted`, with
  the cardinality lemmas of the library), that there is a running writer only while
  that is zero, and that whoever joins found nobody through a stand-down of their own.
* `EveryGapIsSaid`, `TakeAlwaysFindsOne`, `StopsFollowTheQueue`, `TheEndAccounts`,
  `TypesHold`, with a GIL. `Ended` says that the end is Main's, that nothing is
  announced once it has begun and that the writer is off while the rest is written;
  only the GIL makes it true. `Accounted` is the bookkeeping: the queue is the newest
  records in order, every record is delivered, in flight or queued, and every record
  was taken, dropped since the last that was taken, or is queued. `Aimed` says that a
  stop about to be reported has had what it waits for delivered. From these
  `StopFollowsQueue` is arithmetic: `delivered + Len(queue) <= pushed`. The record in
  flight is the term missing from it, which is the finding about a stop ahead of its
  record.

`Fork_proofs`, for any finite set of forking threads, any number of requests and forks, and
both builds:

* `ThreadsKeepOff`: `Spec => []OwnThreadsKeepOff`, with `TypesHold` and
  `HandlersAlwaysPair`. `StoodDown` says for the reader and for the answerer apart that
  the count of forks is the number of threads between their own two handlers, that
  there is a reader only while that is zero, and that every answering thread is the one
  in `running` or is being joined. That the two counts are of different sets of threads is
  why the handlers must undo each other in the order they do.
* `NoRequestIsLost`: `Spec => []RequestsKept`. The property is inductive given `StoodDown`
  and `InHands` (a request is in the hand of a reader that routes or of one answerer that
  has taken it); every step either moves the head of one place to the end of the next or
  nothing, and the lemmas are about concatenation.

`Staging_proofs`, for any launches, clears, entries and roots, and both platforms:

* `StagedStands`: `Spec => []LaunchStands`. `Placed` says what is true at each call of a
  launch: its entry is there between `mkdir` and `rename`, and holds a whole module from
  then on; `KeepsAway`, that a clear that spares what this bpd stages has none of it left to
  remove. It needs `OneModule`, that an entry never has a whole and a cut module, and
  `StagedAssumption`, that the entries are all there can be.
* `OnlyTheDescribedGoes`: `Spec => OnlyWhatWasDescribed`, an action property, and `TypesHold`.

The second half of `Fork_proofs`, about `Child`, for any set of processes and threads (`Fork`
and `Child` share no name, so that one module may extend both):

* `ChildrenAreTheirOwn`: if `~SpawnFails` then `Spec => []ChildIsItsOwn`. The invariant is
  one per process and thread: `Fits` says what the memory of a process is for each place
  its thread can be at, from the copy a fork makes (`Inherits`) through what the
  handlers have given up (`Given`) to a session (`Sane`) or nothing of one (`Plain`).
  A fork is the hard step: what is copied is the parent's at *any* place of its other threads,
  and the copy fits because the one thread it keeps was in python. With a reader's
  thread that does not start a child is left half open, the finding above.

`Control_proofs`, for any number of threads, stops, requests and rebindings, and a process
that may be killed at any moment:

* All of it assumes `AsksByName`: nobody asks `resumeAll`, breakpoints are not set in a
  program that announces rebindings, no pause is sent past the engine, and the program does
  not finish. Each of these is a finding above, a message that carries no request
  and is taken for one that does; the assumption names exactly the sessions in which that
  cannot happen.
* `Inductive`. Nothing on the wire says what a message answers, so the invariant has to. At
  most one request is on its way, and it is at one place (`OnTheWay`, `OnlyAt`): in the
  socket, with the reader, in a mailbox, with a held thread, with the answerer, with a
  pauser, or answered on the way back; once (`Once`). What was let go and the engine has
  not heard of is held up behind exactly that request (`Leaves`), a stop is told of once
  and only while it is in force (`Telling`), and a thread is in the registry when
  what is posted to it needs it there (`Registered`, `Woken`, `Posted`). A killed process
  whose messages were read (`Dead`) is the other case.
* The step from the code's actions to the invariant's terms is made once: `MovesStep`
  shows that every action, with what the invariant adds to its guard, is one of the
  forms of `Moves`, and each part of the invariant is proved to be kept by those.
* `AnswersAreOwn` (`OwnAnswer`), `ViewsComeToAgree` (`ViewsAgree`), `NothingGetsLost`
  (`NothingIsLost`, with a count of the rebindings at each place), and `PromiseIsKept`:
  `Spec => KeepsPromise`, the refinement of `Holding` for every value of the constants. Each
  form of `Moves` is a step of `Holding` or leaves its variables alone.

`Steps_proofs`, for any set of threads, code objects and lines, whichever of the code is a
library's or the launcher's, any breakpoints, and any depth of frames:

* `TypesHold`, `MasksHold` (`OnlyWhatIsArmed`), `OperationsAreKept` (`OperationIsKept`) and
  `NoStepIsMissed` (`StepIsNotMissed`), from one invariant, `Inductive`.
* One half of it is about sessions, and no program (`Kept`): a thread has one operation,
  an entry of the registry exactly then (`One`), and the operation knows all the code that
  entry watches (`Tidy`), which is why what a release puts back is enough; the masks are
  what the registry wants. Every operator on sessions has a lemma that says what it makes of
  one thread and that it keeps this.
* The other half is about one thread (`Fit`), and speaks of the other threads in one place
  only, what they have switched off: while anything is armed every line is offered (`Offering`),
  and while a step goes on with entries every start is (`In`). `Stepping` says that a step
  is armed until it lands or its thread has left, in a frame that is there, and hears of that
  frame. `In`, `Over` and `Gone` say which frame that is for each kind: the one it was asked
  in while that is there, a function of the program's own that was just entered, or the
  frame the thread came back to. `Restarting` follows a restart from the forced return to the
  first line of the new frame, `Unwinding` an unwind by what is above its target and
  not forced out yet. `Landed` and `Seen` are the two properties.
* `Moves` puts the halves together: if one thread moves, what it has fits, and it switches
  nothing off that another waits for (`Forgets`), then the invariant is kept for all. Each
  action is then about one thread.
* No assumption but `StepsAssumption`. That a stale frame number is never taken for a new
  frame is not assumed: it is proved that there is always an address nothing refers to.
* The proof changed the model: what a library's callback may hide was first told by the
  innermost two frames alone, which holds of three frames and fails of four, where the function
  called back calls another one.

`Server_proofs`, for any set of programs and children, any number of stops and calls, with
programs that die, fork and log at any moment:

* A stop's number does not name it, since every program counts for itself, and the addressing rules
  find a session by number. `Inductive` says why they find the right one at each phase of
  a call: `Alone(p)`, that a call that named no session is about the only one that holds
  anything; `Waiting`, that it waits for that one; `Returned`, that a stop that ended a
  wait is still held there and is the only thing left to read. `Connections` ties what the engine
  takes to be held to what each agent holds, `OneIsKnown` says that a client that names no
  program knows of the only one.
* `EverySessionIsTold` (`JoinedAreTold`) and `EveryStopIsTold` (`ReturnedIsTold`, an action
  property), for every value of the constants.
* `NobodyElseIsTouched`: if `Resyncs` then `Spec => []ActsAsMeant`. `Sure` says that a client
  that was told of no failure takes nothing to be held that is not, or is not being let
  go by its own call. Without `Resyncs`, a client that goes on from what it believed after a
  call that failed half way lets the wrong program's thread go, which is a finding.

`Adapter_proofs`, for any ids of requests, threads, files, links between files (`After`), any
number of stops, of settings and of references, and any subset of the commands:

* `Inductive`, and from it `AnswersOnce` (`OneAnswer`) and `ReferencesStayHeld` (`ReferencesAreHeld`),
  whatever the agent refuses or fails to do; and if not `Fails`, `ClientsAreCurrent` (`ClientIsCurrent`)
  and `AskedIsArmed` (`ArmedIsAsked`), which an agent that fails an arming or a stop of the world
  breaks (a finding).
* `Requested`: a request that is owed an answer is at one place, the connection, the queue, what
  was set aside or the hand, once there, and none that was answered is at any (`Owed`, with
  `NoTwice`). `Placed` says what holds at each place of the loop, and `Configures` that a
  client finishes its configuration once: without it the program would be begun twice.
* `Stopped`: a stop that was read is held by the session, noted (`announced`), to be told
  (`untold`) or told, in this order. An announcement nests in the questions that the
  telling of another stop asks (`Ask`), so the argument is about `Announcing` as one step: what it
  adds to `untold` is in neither `untold` nor `told`, and what it forgets is in `handles` no
  more. What a refused request reads is held and not noted (`HearsStops`, `RefusedStops`), and waits for
  the next announcement. `EntryIsMain` keeps a program that is not begun from `Finishing`. `Resolved` keeps the stop that an answer in hand is about noted until its references
  are minted, which is what a handler that asks twice could break.
* `Tabled`: the agent's table is the client's but for what is named in `unarmed`, `kept` or on the way
  to be armed, so that a program is let go with both empty and the two equal.
* `Served` is what every handler does to the request, the loop and the stops, whatever it asks; the
  thirty handlers are shown to be such steps, and the invariant is proved for those.

The assumptions used are those the modules make of their constants (`WorldAssumption` and so
on: sets of names are disjoint, bounds are numbers, forking threads are finitely many, a
capacity is above zero).

Only model-checked:

* liveness, about which the prover can say nothing: `ParkedRunsAgain`, `AskIsAnswered`,
  `NothingHangs`, `FlushReturns`, `ScriptEnds`, `NothingIsOwed`, `CallReturns`;
* `Script`, which walks its tree with a recursive operator, and `Rerun`, `Linetable` and
  `Replace`, which compute over sequences and trees by folds and recursive functions: the
  installed provers can say nothing of what such a definition computes for every input.

## What is not modelled, and why

`PROJECT.json` lists every component with its status. Pure reads of the
interpreter (inspection), start-up and I/O (entry, command line, release tooling), the
bytes of a message and thin clients (editors) have no interleaving of their own, or a
data domain TLC cannot enumerate in a way that says anything. What is left of the
components that are modelled partly is named there.

## Plan

1. Done: `World`, `Stream`, `Control` with `Holding`, `Fork`, `Child`, `Staging`, `Server`,
   `Steps`, `Adapter` and `Breakpoints` with their proofs; `Replace`, `Rerun`, `Linetable`, `Script`.
2. Candidates for modules: the source map, the queries over a session.
