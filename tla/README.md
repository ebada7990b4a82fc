# Specifications of naclfs

naclfs lets a Native Client program use POSIX file calls in a web page.  The
application runs on a thread of its own; everything that touches the browser
(PPAPI) runs on the main thread.  An application call therefore crosses to the
main thread and sleeps until its answer is there, an asynchronous browser
request is turned into a synchronous call, and what the user types has to wake a
reader that sleeps in `read(2)`.  These TLA+ modules model that machinery, TLC
checks it on small instances, and TLAPS proves its main safety properties for
instances of every size.

Run `tlc -config X.cfg M.tla` for the runs below and `tlapm P.tla` for the proof
modules.  `PROJECT.json` has the runs, the mutants each property catches, the
source lines of every definition, the hazards and the theorems.

## The system

| component | state | operations | talks to |
|---|---|---|---|
| `FileSystem::Delegate` (`filesystem.cc` 45-323) | class-wide `mutex_`, `cond_`; `callback_` of each delegate; an `Arguments` record in the caller's frame | `Open` ... `CloseDir`, `Call`, `Proxy`, `Switch` | posts to the main thread; calls the delegate's `XxxCall` there |
| `FileSystem` (325-612) | `descriptors_`, `cwd_`, `mutex_` | `Open` ... `GetCwd`, `HandleMessage`, `CreateFullpath`, the descriptor table | delegates; `PortFileSystem::HandleMessage` |
| `PortFileSystem` | static `buffer_`; `blocking_`, `id_`, readable/writable of each port | `Open`, `Read`, `Write`, `Fcntl`, `HandleMessage` | overrides the public methods, so runs on the *calling* thread; `NaClFs::PostMessage` |
| `Html5FileSystem` | static `filesystem_`; `waiting_`, `querying_`, `offset_`, `file_info_`, `file_io_` of each delegate | `OpenCall` ... `CloseDirCall`, `Initialize` | the browser's FileSystem, FileIO, FileRef |
| `Html5FileSystemDir` | `entries_`, `offset_`, `read_` | `ReadDir`, `ReadDirNext`, `Rewind` | the browser's ReadDirectoryEntries |
| `NaClFs` (`naclfs.cc`) | `single_instance_`, its own `mutex_`, `cond_` | `PostMessage`, `Log`, `HandleMessage` | the page |
| `NaClFsInstance` (`naclfs_crt.cc`) | the application thread | `Init`, destructor, `HandleMessage` | creates and joins the thread |
| host page (`html/naclfs.js`) | `_out_buffer`, `_err_buffer` | `handleMessage`, key handlers | the instance, by messages |
| `wrap.cc` | saved IRT pointers | one wrapper per system call | `FileSystem` |

What is hard here: two threads and two condition variables waited on once each
without a predicate; pointers to stack frames handed to the message loop; a
handler that is entered again for every completion and finds its place from
flags that outlive the call; a mutex used as a semaphore between threads; a
vector shared without a lock; requests that fail or are refused half-way through
a chain.  `PROJECT.json` lists these hazards line by line.

What makes each component correct:

- *Delegate*: a call returns unless its request was refused unseen, and with its own result;
  nothing in the message loop refers to a frame that is gone; signals are neither lost nor
  short in number.
- *standard input*: a FIFO pipe unless a read and a `push_back` use the vector at once; no read
  sleeps on a byte; a blocking read brings one.
- *path names*: a path resolves to where walking it would lead; `cwd_` is a directory.
- *files*: every chain ends; flags do not leak into the next call; success means the
  thing exists; the cached size and the first offset are right.
- *PostMessage and page*: a write returns after its bytes are sent, its message is
  alive when it is read, and the page shows the lines it is sent, once and in order.
- *directory streams*: a stream lists what the directory held at one moment, each entry
  once a pass; no delegate outlives its stream and no readdir takes another's result.
- *descriptors*: where nothing uses the table during a `BindToDescriptor`, every delegate
  belongs to one descriptor or to one call that makes it; none is used after it is deleted;
  an `open` answers the slot of its own file; no slot is used twice.
- *instance*: the application finds stdin, stdout and stderr behind 0, 1 and 2; its calls
  and those of `Init` never overlap; the destructor's join ends unless the thread needs the
  main thread or sleeps in a read that only a key ends.

## Modules

### MainThreadCall

`Delegate::Call` posts `Proxy(&arguments)` holding the class-wide mutex and sleeps
once on `cond_`; `Proxy` runs the operation and signals unless the handler set
`chaining`.  One action per step between scheduling points: `Call`, `LockMutex`,
`CallOnMainThread`, `CondWait` (atomic release and sleep), `Reacquire`, `Return`;
`SwitchFinishes` and `SwitchChains` for a Proxy whose handler ended or started a
request, `SwitchRefused` for one whose request was refused and which set `chaining` without
looking (`html5_filesystem.cc` 184-185, 547-549), then `ProxyLock`, `ProxySignal`,
`ProxyUnlock`; `BrowserCompletes`.  The operation itself is abstract: it chains at most
`MaxChain` times, and any of its requests may be refused.  `refused` is history: such a
request owes a signal that never comes (`Owed`).

- A pointer to an `Arguments` record is the identity of the call.  When the frame is
  gone the pointer may denote the stale record or the thread's next frame
  (`Pointees`), since frames of one thread reuse the same stack.
- The main thread's queue is a set: it over-approximates the message loop's order.
- `Spurious` allows `pthread_cond_wait` to return unasked, as POSIX does.

### BlockingRead, StdinPipe

`FileSystem::Read` loops while the delegate answers -2, locking `mutex_`, which the
constructor left locked and `HandleMessage` unlocks after each byte.  So `locked` is
a binary semaphore (unlocking a mutex another thread owns is undefined by POSIX; the
NaCl implementation lets it through, and the model takes that).  `CopyFront` and
`EraseFront` are separate steps because the main thread may append between them.
The vector is not protected, and a `push_back` that reallocates frees the array that a read
looks at.  So each use of it by a read may overlap the `push_back` (`Overlap`): `RacingCopy`
copies any byte, if there is one or not; `RacingStop` finds no byte though there may be one;
`RacingErase` begins an `erase`.  From then on `raced` holds, what the two leave in the vector
is arbitrary (`EraseTorn`, `PushTorn`, `Wreckage`), and the program may crash (`Crash`).
`ReadFile` stands for the whole `Delegate::Call` of a read of a file, whose answer
may be -2, the browser's `PP_ERROR_FAILED`.

`StdinPipe` is what standard input promises: until it breaks, the bytes delivered are a
growing prefix of the bytes sent; afterwards nothing is promised.
`BlockingRead` implements it under `delivered <- received, broken <- raced`: nothing but
the race, of `empty`, `front` or `erase` with `push_back`, breaks it.

### PathResolver

`CreateFullpath` as an operator (`Dropped` and `Pushed` split the path, `Turn` is one turn
of the erase-while-iterating loop with its iterator, `Normalized` the loop), and `ChDir`,
which resolves its path once to ask the browser and again to assign `cwd_`.  A path is the
sequence of what its slashes separate; the reference meaning is `Meaning`, a walk one
segment at a time.

### Html5File

The handlers of `Html5FileSystem` on one path, one action per entry of a handler:
`Initialize`, `OpenFile`, `Opened`, `Queried` (open and stat), `AskFile`,
`FstatAnswered`, `Transferred`, `MakeDirectory`; `Seek` and `Close` are one step.
Which entry runs is decided by `filesystem_`, `waiting_` and `querying_`, as in the
code.  The browser is external: each request has a `Complete...` action that answers
what PPAPI may answer.  `Failures` lets every request fail, `Refusals` lets it be
refused synchronously; where the code does not look at the return value, a refused
request is "lost".  `file_info_` is not initialised by the constructor, so a new
delegate has an arbitrary cached size.  `NOTAFILE` is what the code takes for a
directory.  `inflated` is history: the descriptors for which a write beyond the
cached end failed; `outdated` those of a file whose size another descriptor has changed
since they asked for it, which the code never learns.  `MaxSize` bounds sizes, offsets and
counts; writes that would pass it are not made.

### Output, LineConsole

`PortFileSystem::Write` wraps its bytes in a message; `NaClFs::PostMessage` crosses to
the main thread as `Delegate::Call` does, on a mutex and a condition variable of
`NaClFs`, but passes a pointer to the caller's message and never chains.  `Write`,
`LockMutex`, `CallOnMainThread`, `CondWait`, `Reacquire`, `Return` are the thread;
`PostFromMainThread`, `LockToSignal`, `Signal`, `Unlock` the main thread, which sends
its own messages at once (`MainWrites`).  A message that is no longer alive when the
main thread reads it may be anything.  Threads may overlap and `SpuriousWake` is always
possible: the history variable `disturbed` records that either has happened.  `Messages`
is what may be written and `MaxWrites` how often each thread writes.  `HandleMessage` is
the page: it appends to the buffer of the port, shows the complete lines and keeps the
rest.  A character is a letter or the newline.  `posted` and `accepted` are history.

`LineConsole` is what output promises: the page shows a growing prefix of the complete
lines of what it has been sent for a port.  `Output` implements it (`InLines`), disturbed or
not.  What it has been sent is what was written only while nothing is disturbed
(`SendsWhatWasWritten`): otherwise a write may return before the main thread has read its
message, and any message may go out in its place.

### Descriptors

`FileSystem::Open` ... `Fcntl`, `Stat`, `MkDir` with `CreateDelegate`, `BindToDescriptor`,
`GetDelegate` and `DeleteDescriptor`, and the early returns of their wrappers in `wrap.cc`.
`table` is `descriptors_` with `Null` where a descriptor was closed; `name` maps every
delegate that exists to its path, so its domain is what has been made with `new` and not
deleted.  No lock protects any of this, so each step between two accesses to shared state
is an action:

| call | actions |
|---|---|
| `open`, `stat`, `access`, `mkdir` | `New` makes the delegate, `Made` is its answer; an `open` goes on with `BeginPush` and `EndPush` (`push_back`) and `Bound` (`size() - 1`) |
| `fstat`, `read`, `write`, `lseek`, `fcntl` (`"use"`), `isatty` | `Use` looks the delegate up, `Used` is its answer |
| `close` | `Close` looks it up, `Closed` is its answer, `Delete` looks it up again and deletes it, `Clear` stores `NULL` |

A `push_back` takes time, and may free the array that others read or write.  A lookup
meanwhile (`Torn`) may find any delegate or none (`Found`); where another `push_back`, or
the `NULL` of a close, has met it, what it leaves of the table is arbitrary (`Wreckage`),
slots that were in use for long included.  A deleted delegate's address may be handed out
again, and what is called through one may answer anything.  `May` is what a method may
answer: the three ports exist, are terminals and cannot be made directories;
`Html5FileSystem` fails on the main thread.  `conflict` is history: has a use of the table
overlapped a `BindToDescriptor`, or a `close` another call on its descriptor?  Every
property speaks of behaviours before that: an `open` may overlap others while they ask their
delegates, and calls on other descriptors.  `MaxTable` bounds the table: an `open` that
would pass it is not made.

### Instance

`NaClFsInstance` composed with `Descriptors` (`Threads <- {App}`, and the standard paths
added to `Paths`, which are those of the application).  `CreateInstance`;
`OpenStandard` and `MainSteps`, the three `open`s of `Init`; `CreateThread`, the end of
`Init`; `HandleMessage`, a key; `Destroy` and `Join`, the destructor.  The application's
thread: `Log` and `Logged` (each wrapper logs first, and waits until the main thread has
posted that), `AppCalls`, `AppReadsOrWrites` (reads of stdin and writes do not log),
`AppStep`, `AppReturns`.  A step that the main thread has to serve (`NeedsMain`) needs
`life = "running"`: a main thread in `pthread_join` serves nobody.

The mutex of `FileSystem::Read` is here too: a read whose delegate answers -2 goes to `Sleep`,
where it stays until a key has unlocked `locked` (`Wake`).  That is a read of stdin that finds
no byte (`"reading"`), one of no bytes at all (`"peeking"`), which sleeps again after every
key, and one of a file that the browser answers with `PP_ERROR_FAILED`.  `typed` counts the
bytes in the buffer, and `MaxTyped` bounds it; a key that races a read leaves any number
(`Races`).  The crash this race may end in is `BlockingRead`'s.

### DirStream, DirListing

`FileSystem::OpenDir` ... `CloseDir`, the handlers behind them and `Html5FileSystemDir`.
The handlers run on the main thread, one at a time, so each is an action: `OpenDir` with
`FileSystemOpened` when the call starts the initialisation, `ReadDir` with `BrowserReads`
and `OnReadDirectoryEntries` when the entries are not there yet, `RewindDir`, `CloseDir`.
`delegates` and `dirs` are the objects that exist, `waiting`, `read`, `entries` and
`offset` their members; a stream stands for a delegate and its `DIR`.  `Change` is
anybody changing the directory.  A request may fail (`BrowserReads`) or be refused at once
(`Refused`); the refusal of `FileSystem::Open` is "lost", since `Initialize` ignores it.
Any number of threads use streams of their own.  Nothing but `Names` is bounded.

`DirListing` is what a stream promises: at one moment it finds the entries of the
directory, in some order; a pass gives each once and then NULL; `rewinddir` starts another
pass over the same entries; a `readdir` that has found nothing yet may fail.  `DirStream`
implements it (`ListsOneMoment`): the moment is when the browser reads, before the
completion has run.

## Runs

| run | what it shows | bounds and why they are enough |
|---|---|---|
| `call_one` | with the one thread `naclfs_crt.cc` creates, calls that are woken return their own results, no completion dangles and no signal is wasted, refused requests included | 2 delegates, 3 calls, chains of 3 (the code's longest: initialise, open, query): consecutive calls on the same and on different delegates, frames reused |
| `call_shared` | wake-ups are conserved when threads share `cond_`, spurious wake-ups included, and every call returns, but for one for each request refused unseen | 2 threads, 2 calls, 1 request: a stale completion meets a new frame and an overwritten `callback_` |
| `stdin` | FIFO order until the race, no missed wake-up, a blocking read brings a byte, and bytes are delivered | 2 byte values, 3 bytes, reads of 0 to 2: a read splits what was typed, or finds it short; the race hits empty and full buffers |
| `stdin_failed` | **violation**: a failed file read waits for a key | 1 port, 1 file |
| `path_one` | `CreateFullpath` is the walk; `cwd_` is a directory | all paths of up to 3 segments from {a, b, "", ".", ".."} against every `cwd_` of depth 2: two ".." in a row, at the front, past the root |
| `path_dots` | **violation**: a final "." is kept | 2 segments |
| `file` | flags, cached size, first offset, success codes and termination, with failures and refusals | 2 delegates, either or both of them descriptors of the file; size 2: short reads and writes, seeks before and beyond the end |
| `output` | undisturbed writes return in time with a live message; lines of what is sent come out whole, apart for each port, and in the end all of them; every write returns | 2 threads and the main thread, 4 writes in all, 2 ports, spurious wake-ups; a line over several messages, two lines in one, ports taking turns |
| `descriptors` | until a use of the table overlaps a `push_back`, or a close another call: delegates have one owner and are not used after they are deleted, `open` answers its own slot, no slot is used again | an application thread and the main thread, 3 delegates, 2 slots: two calls at once of any two kinds, on the same and on different slots, addresses used again |
| `instance` | the plugin never makes calls that overlap; 0, 1 and 2 are the standard descriptors; the join ends, or the thread is where only the main thread or a key can help it | 4 delegates, 4 slots: one file besides the standard descriptors, opened, failed or closed; two keys, so that an unlock is left over or a byte stays behind |
| `dirs` | one owner of each delegate, `waiting_` of the call, the listing of one moment, and every call ends | 2 streams, 3 names: listings of 0 to 3 entries in every order, while the directory changes |
| `opendir_other` | **violation**: `opendir` succeeds for what is no directory | 1 stream |

`CHECK_DEADLOCK FALSE` is set where the system may stop: a reader sleeps when the user types
no more, a racing read crashes, a lost request hangs its caller, and a destructor joins a
thread that waits for the destructor's own thread.

The three findings.  `filesystem.cc:393-394` says that -2 is for blocking and that the
lock belongs to `PortFileSystem`, but `Read` takes every delegate's -2 for it
(`OnlyPortBlocks`).  `filesystem.cc:552` says `''` and `'.'` are trimmed, but the last
segment is pushed unexamined at 548 (`DotsTrimmed`).  `test/naclfs_tests.cc:155-156` calls
`opendir("foo")` for a name it never made and prints that the call will fail, but
`OpenDirCall` makes a stream without asking the browser (`html5_filesystem.cc:488`,
`OpensDirectories`).

### Fairness

- `MainThreadCall`: weak fairness of each thread inside `Call`, of the main thread's steps
  and of the browser's completions: the scheduler runs both threads, the message loop runs,
  and PPAPI calls back every request it accepted, none that it refused.  No fairness of
  `Call`.  Weak fairness of taking the mutex is enough in the run because it is always given
  back and each thread calls finitely often.
- `BlockingRead`: weak fairness of the reader's and of the handler's steps, none of the
  user's.  The racing steps are the reader's; the end of a torn `push_back` is the handler's.
- `Html5File`: weak fairness of the handlers and of completions.  A request that was
  refused where the code does not look is never completed, so `CallEnds` excepts it.
- `DirStream`: weak fairness of completions, with the same exception for the refused
  `FileSystem::Open` of an `opendir`.
- `Output`: weak fairness of each thread inside `PostMessage`, of the main thread and of
  the page's event loop; none of `Write`.
- `Instance`: weak fairness of the main thread's own steps and of the application's
  thread as a whole, and strong fairness of `Log \/ AppReturns`: the application has an end,
  and between its reads and writes, which do not log, it comes at last to another call or to
  its return.  Nothing obliges the user to press a key or to leave the page, so `JoinReturns`
  excepts a thread that waits for the main thread, and one that sleeps in a read answered with
  -2, unless that is a read of stdin for which there is a byte.

## Proofs

`tlapm` checks every module below to the last leaf, for all values of the constants
under the named assumptions.

- **MainThreadCallProofs.**  `TypeCorrect` needs that a callback is assigned for every
  delegate in use, or a chained completion would carry no call (`TypeInv`).
  `WakeupsConserved` counts: each sleeper is matched by a distinct outstanding completion or
  by a request refused unseen, each having its own `id`; the invariant `CountInv` also
  orders steps and completions so that chaining replaces one completion by one.
  `SignalsNotWasted` assumes no spurious wake-ups and derives that the main thread, holding
  the mutex, finds somebody asleep.  `OneCallerSafe` assumes one thread and no spurious
  wake-ups: then exactly one completion is about, or was refused, while the caller sleeps
  and none otherwise, and it points into the live frame.  Neither assumption can be dropped:
  the code waits without a predicate.
- **BlockingReadProofs.**  `TypeCorrect` and `NoWakeupMissed`, which hold with the race;
  `ReadBrings`: a wake-up that brought no byte only sends the reader round its loop;
  `ImplementsPipe` rests on conservation: until the first race, received, then got, then
  buffer is what was stored, less a byte copied and not yet erased.
- **Html5FileProofs.**  `Inv` says, of each request, which call it serves and what it
  has established (a query is made only of a file that is there), and of each
  completion what the handler may conclude from it.  From it `TypeCorrect` (offsets and
  sizes in range whatever fails), `FlagsAreOfTheCall` and the action property
  `NoFalseSuccess`.
  The second half is about sizes.  `SizeKnown` is not inductive: between the completion
  of a write and the handler that raises the cached size, the size is behind.  `SizesRight`
  therefore speaks of `Settled`, what the cached size will be when the call is over.
  `StartsAtItsPlace` needs that a query that has answered has told the size (`OpensRight`),
  and both that the flags fit the request (`FlagsFit`).  `ChainsEnd` is the part of
  `CallEnds` that is not fairness: each entry of a handler sets `filesystem_` or a flag, or
  clears `waiting_` for `querying_`, so the entries still to come (`Entries`) go down.
- **PathResolverProofs**, for paths of any length.  `PathsResolve` has two loops under it.
  The splitting loop drops empty segments and "." except at the end, which is what a walk
  ignores.  The invariant of the erase-while-iterating loop is that the list is the walk of
  what the iterator has passed followed by what it has not reached: erasing a name with its
  ".." leaves the iterator before the next segment, so two ".." in a row are seen, and at
  the front the ".." alone is erased.  `TypeCorrect` follows for any number of threads.
  `CwdNamesDirectory` needs that `ChDir` resolves its path the second time to what the
  browser was asked about (`CwdInv`), which takes one application thread: another `ChDir`
  in between would change what the path is resolved against.  Assumed: "..", "." and the
  empty segment are no names (`NamesAssumption`).
- **OutputProofs**, for any number of threads and messages.  The crossing: a callback is in
  the message loop, or has posted and is about to signal, exactly while its thread waits
  (`Crossing`, `QueuedInv`, `MainInv`), all of it as long as nothing is `disturbed`.  From
  it `SentInTime`, `MessageNotDangling` and `SendsWhatWasWritten`.  `WakeupsConserved` has
  no such condition: a callback that has outlived its write is of an earlier number than the
  next its thread queues (`Numbered`), so each sleeper still has a callback or a signal of
  its own to come: this is the part of `WriteReturns` that is not fairness.  The page:
  `SplitConcat` says that splitting may be interrupted anywhere if what is left is put
  before what comes.  `PageInv` has a history, `sent`, of what had been sent before each
  message that is still on its way; the page has shown the lines of the first.  From it
  `TypeCorrect`; `LinesNotLost`, the part of `LinesShown` that is not fairness; and, since
  what was sent later only adds lines (`AcceptedBegins`, `SplitBegins`), the refinement
  `ImplementsConsole`.  It speaks of what the browser was given; with `SendsWhatWasWritten`
  that is what was written, while undisturbed.
- **DescriptorsProofs**, for any number of threads, delegates and slots.  As long as there
  is no `conflict`, the calls under way are `Apart` and every delegate is `Owned` by one
  slot or one maker; `Holds` ties what a frame points to to its slot, and `Place` ties
  where a caller stands to its call.  From it `DelegatesAccounted`, `NoUseAfterDelete` and
  `OpenAnswersItsSlot`; `TypeCorrect` counts the opens under way against `MaxTable` (`Room`,
  which needs the threads to be finitely many, `ThreadsAssumption`) and holds whatever
  conflicts; `DescriptorsNotReused` is of the same condition as the others.
- **DirStreamProofs**, for any number of streams and any finite set of names
  (`NamesAssumption`).  `StreamInv` says which call waits for which request and that a
  stream that has not been read is empty: so a completion, which appends, brings exactly
  what the browser read.  From it `TypeCorrect`, `DelegatesOwned`, `WaitingIsOfTheCall` and
  the refinement `ImplementsListing`.
- **InstanceProofs** composes.  `ImplementsDescriptors`: every step of the plugin is one of
  `Descriptors`, or leaves it alone, so the theorems of `DescriptorsProofs` hold of the
  plugin (they are instantiated, not proved again).  `OneAtATime` says that the main thread
  calls only before the application's thread runs; hence `CallsNeverOverlap`, and then
  `PluginDelegatesSafe`, the accounting of delegates without its condition.
  `StandardsStand` follows the table while `Init` fills it (`Growing`), and afterwards rests
  on that accounting: an address is used again only when no slot holds it (`Standing`).
  `BytesWake`: a reader that sleeps while its byte is there finds the mutex unlocked, since the
  byte came after it had looked (`Sleeping`): the part of `JoinReturns` that is not fairness.
  Assumed: the two threads differ, and the table has room for the standard descriptors.

Paths and lines are split by recursive functions, about which a proof needs induction.  The
two modules that need it derive what they use from the least element of a set of numbers
(`Least`, `Induction`) and show that the function which each recursive definition chooses
exists (`Recursion`, `FoldOf`).

Only model-checked: the liveness properties (`CallReturns`, `StdinDelivered`, `CallEnds` of
files and of streams, `WriteReturns`, `LinesShown`, `JoinReturns`), since TLAPS does not
prove liveness under fairness.  What they rest on is proved where it can fail: no signal is
short (`WakeupsConserved`, of both rendezvous), no byte is slept on (`NoWakeupMissed`,
`BytesWake`), no line is lost (`LinesNotLost`), no handler goes round in circles
(`ChainsEnd`).

## Not modelled

- Of `wrap.cc`, the conversions of `struct stat` and `dirent`, the saved IRT pointers, and
  the stubs `dup`, `dup2`, `telldir` and `seekdir`, which log that they are not implemented
  and change nothing (`dup` and `dup2` answer 0 all the same).  `Fcntl` of files and
  `GetCwd` change nothing either.
- The argument vector of the instance: it is written before the thread starts and freed
  after it has been joined.
- `Log` is one more caller of `PostMessage`, and the page shows its text as it comes.
- Build files, scripts and samples have no run-time state.
- One application thread is assumed in `BlockingRead` and `Html5File`, as `naclfs_crt.cc`
  creates one: several readers of stdin would share a binary semaphore that does not count.
  `DirStream` gives each stream to one thread.
- Memory leaks other than of delegates, and the errno values other than zero or not.

## Plan

Order of the work.  1-8 are done.

1. `MainThreadCall`: everything else rests on the rendezvous.
2. `StdinPipe`, `BlockingRead`: the second rendezvous, and the race.
3. `PathResolver`.
4. `Html5File`.
5. `LineConsole`, `Output`: the other condition variable, its message pointer, and the
   page's line splitting.
6. `Descriptors`: descriptors and delegates, and threads opening and closing at once.
7. `DirListing`, `DirStream`: `ReadDirectoryEntries`, rewind, and the life of the delegate.
8. `Instance`: thread start, messages, and the join in the destructor.
9. Generalisations: several readers of stdin; several callers of `Html5File` on their
   own delegates, with the initialisation under way in one of them; `Html5File` as the
   operation of `MainThreadCall`.
