# zenoh-flat-c: TLA+ specifications, model checking and proofs

zenoh-flat-c is a thin C layer over zenoh. Most of its Rust is generated; what the
repository itself decides is *who owns what*, *when callbacks may run*, *how its
example programs wait for them*, and *how headers and library stay in step*. That is
what these modules specify. Paths below are relative to the repository.

## The system

| component | state | operations | hard parts |
|---|---|---|---|
| callback delivery (`build.rs`, `src/gravestone.rs`, `include/zenoh_flat.h`, the handlers) | value places (trampoline frame, program's variables), the shared closure and its context, the program's handle | deliver, `z_<x>_take`, handler return, post-call drop, `z_<x>_drop`, `z_subscriber_drop` | several threads in one handler, drop of the handle during calls, gravestones |
| `z_get` rendezvous (`examples/z_get.c`) | mutex, condition, flag on main's stack; deadline | main's steps, `on_close`'s steps, reply handlers | lost and spurious wakeups, deadline against late answer, destruction under a callback |
| `z_sub_thr` statistics (`examples/z_sub_thr.c`) | `count`, `finished_rounds`, `start` | `on_sample`, declaring the subscriber, `drop_stats` | unsynchronised counters, round boundaries, a declaration that fails |
| handles of examples and tests | opaque pointers, payloads, strings, arrays, the blocks of the command line | calls that borrow, consume, give, and fail | early returns and exits, a list made anew with each value |
| command line (`examples/parse_args.h`) | `argv` with entries erased, config | `parse_opt`, `check_unknown_opts`, `parse_pos_args`, JSON lists | prefix matching, order, buffer lengths, `atoi` |
| build pipeline (`build.rs`, CMake) | two headers shared by all build trees, a library and cargo's record for each profile, each tree's option and programs | configure, build: generate, copy, write, compile, link | steps that fail with a warning only, builds refused or broken off, builds of two trees at once |
| queryable and get (`examples/z_queryable.c`, `z_get.c`) | each queryable's copy of the query, messages under way, the reply stream | reply, take, drop (finalizes), receive, hand over, timeout, on_close | answers given later, queryables that go away, replies kept back, late messages |
| scouting (`examples/z_scout.c`) | counter on main's stack | hello, on_close | who outlives whom |
| project-root probe, generated bindings, package metadata | none | | not modelled |

How they interact: the program hands closures `{context, call, drop}` and an on-close
closure to the library; the library's threads run `call` for every value, through a
generated trampoline that passes the value by *takeable* pointer and drops what is left
of it afterwards; when the last reference to the closure goes, `on_close` runs.
`z_get` blocks its main thread on that last event, `z_sub_thr` and `z_scout` keep their
statistics behind `context`. A query goes from `z_get` to every queryable that matches;
dropping the query finalizes its answer, and the reply stream ends when all have. The
programs are compiled against headers that `build.rs` writes into the source tree.

What makes each correct: a value has one owner at a time and is destroyed once; a
context outlives every call; a waiter is woken by completion and by nothing else, and
not for ever kept; a stream that ends of itself has lost no reply; counters say what they
are printed to say; every path through a program gives back what it acquired; headers,
library and programs are of one set of features.

## Modules

**`OwnedValue`** is the abstract specification of a value handed to a callback: it
starts with the library, may be lent to a callback, kept from there by the program, and
is destroyed once.

**`CallbackDelivery`** is the detailed one. `arg[t]` is the place in the trampoline's
frame of thread `t`, `kept[p]` a `z_<x>_t` variable of the program. `Take` moves the
value and leaves `Gravestone` (`src/gravestone.rs`); `TrampolineDrop` drops whatever the
place then holds; `DropContent` of a gravestone destroys nothing. `refs` counts the
handle and the calls under way; giving back the last one releases `context` and calls
`on_close`. `Pick` takes its reference *before* the handler is entered (`Invoke`), so a
handler may be entered after the program has dropped its handle. The trampoline and the
threads are generated or linked in from elsewhere: their actions are marked external
and follow `build.rs` (lines 136-149, 202-219) and what handlers and tests say of them.

**`CallbackDeliveryProofs`** holds its theorems.

**`GetRendezvous`** is `z_get.c`: one action per statement of `main` that matters, four
for `on_close`, two for the reply handler. The timed wait is split into giving up the
mutex (`Wait`), being woken (`CloseSignal`, `SpuriousWakeup`, `Expire`) and retaking the
mutex (`Relock`). Time is not a clock but what the code compares: `age` of the query and
ticks `left` to the deadline, both saturating where they no longer matter; `Jump` sets
CLOCK_REALTIME forward or back, `MaxJump` ticks in total. The library is of any pace and
may never call `on_close`; `late` records that the query was `Lag` past its timeout and
`on_close` had not returned. What main is promised then holds of behaviours that are not
late (`SignalAliveInTime`, `CompletionSeen`); the rest holds of all.
What is abstracted: the payload, the selector and what is printed; and the session and key
expression that main gives back, which are `ExampleHandles`' affair.

**`GetRendezvousProofs`** holds its theorems.

**`QueryReply`** composes the get with any number of queryables. `place[q]` is where a
queryable has its copy of the query (argument, taken out, dropped), `wire[q]` the
messages it has sent. `Answer(q)` is the handler of `z_queryable.c`, or, for queryables in
`Deferring`, a program that takes the query out "to answer later" as line 58 allows, in
the call or after it. `Crash` is CTRL-C at any moment, with the loss of any suffix of what
was under way. The get ends when all are finalized (`EndAllDone`) or is cut short
(`EndCut`: the timeout, or the session dropped). zenoh's part is marked external.
`z_get.c:119` leaves the consolidation to the library, and every reply has the query's own
key expression (`z_queryable.c:50`). So a reply that arrives is given to `reply_handler`,
or kept back (`held`, perhaps in the place of another that was), or left out if there is
another; what is kept back is handed over before `on_close` (`HandOver`), but may go with
a query that is cut short. Which of these zenoh does cannot be seen in the repository;
nothing is claimed that needs to know, and so `NoReplyLost` says that every reply has
*arrived* and that the handler was called at least once, not that it was given them all.

**`QueryReplyProofs`** holds its theorems.

**`BuildPipeline`** is `build.rs` and the CMake files. What headers, library and programs
can disagree on is the *mode*: with the feature `unstable` three functions take one
argument more. Build trees have an option and a build type, and go through `Bindings`,
`Header`, `Configure` (the three steps of `build.rs`), `Link` (cargo compiles the
library) and one `CompileOk` or `CompileFails` for each program. A step that panics ends
the build; one that only warns leaves the old header, or one without its macro. The
headers are shared by all trees, the library and cargo's record (`script`, `warned`,
`touched`, `linked`) by those of a profile, and cargo's lock is a profile's too. What
cargo is taken to know is little: the features of `build.rs`'s last complete run, and
whether the other profile has written a header since it began. `disturbed[t]` is an
observer: another cargo has run since tree `t`'s own began, or was running then. A header
that a failed copy cuts short is not told from the old one.

**`BuildPipelineProofs`** holds its theorems.

**`SubThroughput`** is `on_sample` with every access to a shared counter a step of its
own, for any set of threads. `sample` and `measured` record, beside the program's state,
over how many messages a printed rate was really taken (for `-n 0` one, `RoundLength`, see
finding 3); `overlapped` that two threads have been in `on_sample` at once. The claims
about rounds are made until then, `CountsNoMoreThanPrinted` always. `Declare` gives a
subscriber or fails, in which case `drop_stats` runs at once and main returns; the figures
it prints are left out, and so are the statements after main's endless loop, which cannot
be reached.

**`SubThroughputProofs`** holds its theorems.

**`ExampleHandles`** is an interpreter for the ownership skeleton of every main, handler
and test: a sequence of calls, each with what it borrows, consumes and gives, null
checks with the drops of their early return, exits with theirs, and jumps (a branch, a
loop) whose way is nondeterministic, as are failures and optional arguments. A failing call
has consumed what it consumes.

Each main but `z_scout`'s begins with its command line, block by block: the mode in quotes
(`ParseMode`), the list of endpoints for `-e` and for `-l` (`ParseJsonListConfig`: `newbuf`
replaces `buf` with each value, `json_list` beside it), the pairs of `--cfg`, the flag, and
the positional arguments (`ParsePosArgs`, NULL if there are too many).
`parse_zenoh_json_list_cfg` allocates one byte that it never frees (`parse_args.h:199`);
`NothingLeft` excludes that byte by name. What a process holds when it *exits* is not
counted, and so the exits of `parse_opt` for an option without a value are left out.
`InsertJson5` lends the config, see "Not findings" below.

**`ExampleHandlesProofs`** holds its theorems.

**`ParseArgs`** is the command line: `parse_opt` as a function from `argv` to `argv` with
entries erased and what was found, and one action for each kind of search the programs
make (help, an option with a value or a flag, the two kinds of repeated options, what is
left over). The option tables of all nine programs with a command line are data, in the
order of the calls. `result` holds the values by long name, `buf` the length of a list's
text and the size of the block made for it. Texts are abstracted to what `strncmp` and
`strchr` tell apart; a conversion or insertion that may refuse its argument does so
nondeterministically. Beside it stands the reference, which never searches: a reading of
the line (`Readings`) divides it into uses of options, which take one argument or two, and
words; there is at most one, which a reader finds from left to right. `ArgumentsAccounted`
says what can be said without it, and of every moment of the parsing: each recorded value
can be traced to arguments of its own (`PlacesAt`), in their order, and these are what is
erased. Short forms of a repeated option come before its long forms, in the code and in
`ValuesRead`. Left out: empty arguments and `-`, `--name=` with nothing after it, and the
block for `--mode`, which is sized in the same way (`parse_args.h:241`).

**`ParseArgsProofs`** holds the theorems on types, blocks and what is erased,
**`ReadingProofs`** those that compare with the reading.

## Runs

| run | module | shows | bounds |
|---|---|---|---|
| `takeable_delivery` | CallbackDelivery | one owner, destroyed once, context outlives calls, closed once and eventually, nothing stranded, refines `OwnedValue` | 3 values, 2 threads, 2 places: two threads in the handler with a value each, both taking, a third value pending or already kept when the handle is dropped |
| `handler_drops` | CallbackDelivery | *violated*: README's "the handler must `z_<x>_drop`" its argument | same |
| `get_rendezvous` | GetRendezvous | unless `on_close` is late, the completion state outlives it and main waits to the end; late or never, no lost wakeup, the flag not raced for, main ends | 5 ticks a second, timeout 9 (the worst rounding: 4 of 5 ticks lost), lag 3, clock steps 2: the largest sum for which the properties hold, 4 and 2 fail; 2 reply handlers |
| `get_late_close` | GetRendezvous | *violated*: an `on_close` after main gave up uses a destroyed mutex | same |
| `query_reply` | QueryReply | one finalization and last; unless cut short no reply lost, and with replies the handler called, however they are consolidated; the stream ends without its timeout | 3 queryables, one that may defer, 2 replies: one finalized, one gone and one answering at once, and a second reply behind the first; 643,000 states |
| `sub_thr` | SubThroughput | until calls overlap, rates are over `-n` messages (but for `-n` 0), no sample is unaccounted for and every round is printed, on whichever thread, and the program ends; overlapping or not, no round is counted that is not printed | 2 threads, `-n` in {0,1,2}, `-s` in {0,2}; 9 samples, enough for the largest: (2+1) * (2+1) |
| `sub_thr_rounds` | SubThroughput | *violated*: `-s` is the number of measurements, `-n` that of messages in each | 1 thread, `-s` 1, `-n` 0: the one counterexample shows both |
| `build_pipeline` | BuildPipeline | headers, library and programs agree, guarded programs compile | 2 trees that change mode and profile at will, a guarded and an unguarded program; two is what it takes for one build to come into another's, and more trees than profiles only repeat that; 4.8 million states |
| `examples_unstable` | BuildPipeline | *violated*: every program compiles in both modes | 1 tree |
| `example_handles` | ExampleHandles | no path of any program, its command line included, uses, loses or overwrites a handle or block wrongly | complete: a loop comes back to a state that was there before; 33,000 states |
| `parse_args` | ParseArgs | an accepted line was read as it is written, every value has its own arguments, no described line is turned down, no block is overrun | all lines of up to 4 arguments over 16: two words, an option of one program, one a common flag, list, pairs, help, in all forms; 4 is two options with values, the least for one to take the other's |
| `parse_args_prefix` | ParseArgs | *violated*: only `--flag` is taken for `--flag` | 1 argument, with names that go on and flags with a value |

CHECK_DEADLOCK is off throughout: every one of these programs may stop (all values
destroyed and the handle dropped; main exited; `exit(0)`; returned; the get closed and
all queryables gone), and in `BuildPipeline` somebody may always reconfigure, so that the
check would say nothing.

`InTime` in the proofs says in general what the bounds of `get_rendezvous` sample:
timeout, lag and clock steps together stay below the deadline's margin.

## Fairness

* `CallbackDelivery`: a call that has begun is entered, returns and is dropped, and
  undeliverable values are discarded (weak fairness for each thread and value). The
  handlers of the repository have no loops and do not block. Nothing makes the library
  deliver or the program drop its handle.
* `GetRendezvous`: main runs, time passes, and an `on_close` that was entered gets through
  its four statements. That the query ends or `on_close` is called is *not* assumed: the
  comment that `NeverHangs` checks is about that case.
* `QueryReply`: a queryable that runs goes on answering and drops the query (its handler
  has no loop, and a program that defers is bounded by `MaxReplies`); messages arrive;
  what is kept back is handed over, and the library closes a stream that is over. No
  timeout is assumed, and nothing of a queryable that is gone: `StreamEnds` excuses that
  case.
* `SubThroughput`: samples keep arriving and `on_sample` goes on; the benchmark's
  publisher puts in an endless loop. `Ends` excuses the failed declaration and overlap.
* `BuildPipeline` claims nothing that needs fairness: a build may be broken off.

## Findings

1. `README.md:10-11` asks handlers to drop their argument; handlers and tests rely on
   the contrary (`handler_drops`). `HandlerReturnDropping`, a mutant of
   `takeable_delivery`, shows the double free that following the README would give.
2. `z_get` destroys its completion state at the deadline although `on_close` may still
   come (`get_late_close`). It is safe only while the library's lag plus any clock step
   stays within what `GetRendezvousProofs` calls `InTime`.
3. `z_sub_thr` prints `-s` + 1 measurements; and for `-n 0`, "number of messages in each
   measurement", it measures one message each time (the first sample of a round is counted
   whatever `-n` says) and prints a rate of none (`sub_thr_rounds`).
4. `parse_opt` takes a flag with a value, `--no-multicast-scouting=a`, for the flag, and by
   the same comparison `--keyboard x` for `--key x`, where `check_unknown_opts` would have
   found an option that remains (`parse_args_prefix`; its trace is the flag).
5. `z_put`, `z_delete` and `z_pub` do not compile with the feature `unstable`
   (`examples_unstable`): `z_put.c:51`, `z_delete.c:49` and `z_pub.c:54` lack the `#if`
   that `README.md:105-106` says the examples have.

Not findings, since no document promises otherwise: `z_sub_thr`'s counters are not safe
for concurrent callbacks (what `~overlapped` is for), and two trees of different modes
must not be built at the same time (what `disturbed` is for). Nor is
`z_config_insert_json5`: its config is not `const`, and `README.md:15-16` says that "a
non-`const` `z_keyexpr_t*`" is consumed; it speaks of no other type, `parse_args.h` uses the
config again after every such call, and its lines 221-222 say that the caller then owns it.
`InsertJson5` follows that and lends the config. Were it consumed, every program with a
command line would use a dead handle; `LiveArguments` takes for given that it is not.

## Proofs

All theorems hold for every value of the constants, under the modules' `ASSUME`s and what
a theorem itself assumes (`InTime`, `~Undescribed`) only.

`CallbackDeliveryProofs`: from `DeliveryAssumption` (finitely many threads; the empty
place and the gravestone are no values). The properties are not inductive by
themselves: `Accounted` needs to know that a place about to be overwritten holds no
value, and `ContextOutlivesCalls` what `refs` counts. `IInv` therefore adds
`FramesInUse` (a frame's place is empty exactly while its thread is idle) and `Closure`
(`refs` is the number of threads in flight plus one for the handle, as a cardinality).
`Invariance` proves it; `TypeCorrect`, `OneOwner`, `DestroyedOnce` and `CloseIsLast`
follow. `Refinement` shows that `Init` maps to `OV!Init` and every step to a step of
`OwnedValue` or a stutter: `Invoke` is Deliver, `Take` of a value is Keep, the three
drops are Destroy, everything else (a take or drop of a gravestone too) stutters.

`GetRendezvousProofs`: from `RendezvousAssumption`. `MarginBounds` proves of the
code's `timeout / 1000 + 2` that it exceeds the timeout by more than one second and at
most two, hence `OneSecondIsCovered`. The invariant says who holds the mutex, that
`left + age` never falls below the margin less the clock steps so far
(`DeadlineAhead`), and so that main cannot expire before an `on_close` that is not late
has returned (`WaitsForClose`). `NoWakeupLost`, `FlagUnderMutex` and
`MutexComesBack` (the part of `NeverHangs` that is safety) need no assumption on the
library; `SignalOutlivesClose` and `WaitsToTheEnd` are conditional on `InTime`.

`QueryReplyProofs`: from `QueryReplyAssumption`. `NoReplyLost` is about the end only; what
makes it inductive is a balance kept all along (`Counted`): while the query runs, replies
arrived and under way are the replies sent, unless some were lost with a queryable, and
then its final message, which is behind them, was lost too. So a queryable that is not
awaited any more has nothing left (`Settled`), and a get that was not cut short awaits
nobody (`Ended`). Of what the library does with the replies, `Kept` says that once one has
arrived one was given or is kept back, unless the query was cut. `Stage` ties the place of
the query to how far the answer is; `FinalIsLast` is inductive with it. The lemmas on
`Append`, `Tail` and `SubSeq` are what of sequences is needed.

`BuildPipelineProofs`: from nothing but one cargo at a time in a profile. The record that
cargo keeps is what carries the invariant from one build to the next: where it names a
mode, nothing has warned and the other profile has not written, both headers are of that
mode (`OnRecord`), and while `build.rs` runs there is no record (`Underway`). A tree that
is not disturbed has written last (`Untouched`) and compiles what is linked (`Compiled`).

`SubThroughputProofs`: from `ThroughputAssumption` (finitely many threads). The
properties speak of the moments between two calls; what is inductive also says what
holds within one. `OneAtATime` does, for the one thread (`Alone`) that is in `on_sample`
before calls overlap: at each of its accesses, how far `count`, `finished_rounds`,
`printed` and `sample` are ahead of each other (`Between`, `Within`). Rounds have
`RoundLength` + 1 samples, a product of two variables' values that `RoundsGrow`
takes apart. For `NoneCountedUnprinted`, with any number of threads, each value of
`finished_rounds` that a thread has read and will write back must be no more than what is
printed or about to be (`ReadNoMoreThanPrinted`), counted as a cardinality. `OneRateMore`
and `NoneMeansOne` are the two halves of finding 3, for every `-s` and `-n`.

`ParseArgsProofs`: from `ParseAssumption`, `ProgramsAssumption` and `NullAssumption`. A
search only ever erases (`ParseOptErases`, `ParseArgErases`), so that an argument is at
every moment as it was given or erased, for lines of any length; and the two block sizes
computed by hand are enough for values of any length. Both are inductive together with the
types. `EveryArgumentAccountedFor` then goes through the account: what a successful search
erases (`ParseOptTakes`: one argument, or two when the value stands apart; the first
match is there because naturals are well-founded) was all there before the step, so the
new value's arguments are disjoint from all others' (`Taking`); since a search takes the
first match and looks for the short form first, what it leaves of the option comes after
what was taken (`Behind`), which puts the values in order. A search that finds nothing
erases nothing (`ParseOptTakesNothing`). `LeftOver` carries `check_unknown_opts`'s result
to `parse_pos_args`. It needs of the option tables that no name is both a flag's and a
valued option's and none has two short forms, which `OptionsAreNamed` proves of all nine
programs at once.

`ReadingProofs`: the two properties that compare with the reading, from the same
assumptions. `OneReading`: where a use in one reading is the first that the other does
not have, its name has a dash and is no word; so the other takes it for the value of an
earlier use, which the one reading has as well, and the two uses overlap.
`LineReadAsWritten` builds the reading from the account: the arguments that `Accounts`
says gave the values are uses (with what `Undescribed` adds this is false: finding 4),
what is left is the words (`AccountIsReading`), and of options that are not lists there
is one use at most, since each is looked for once (`RecordedOnce`).
`DescribedLineAccepted` goes the other way, from the reading to the parsing, and its
invariant is `Acceptable`: parse_opt has taken each use as a whole or not at all and no
word (`Whole`), and nothing is left of the options looked for so far (`Passed`). A
search then never finds a name at the end of the line, and after the last option only
the words are left. That no two options of a program share a name or a letter is proved
of the nine tables by giving each name its place (`Place`) and each letter its name
(`LongOf`).

`ExampleHandlesProofs`: no assumption; the constants are the program texts. An outline of
a text says before each statement which handles are held for certain and which besides if
a call has not failed (`Hold`); `Leads` says when a statement may be made and what it
leaves, whatever fails, and a jump may go where no more is needed (`Weaker`).
`OutlinesAreFollowed` shows that the interpreter never leaves an outline, and
`OutlinesAreSafe` that who follows one makes only live calls, overwrites nothing and
returns with nothing: this argument is about any text, loops and early returns included.
That every program has an outline is then a step per statement; the parts that several
share (those of the command line, `OpenAndKeyExpr`, `PrintZidArray`) are outlined once and
put together by `Chain`.

What the abstract specification promises is carried to the module that implements it:
`OwnershipMovesForward` (what is kept is not lent again, what is destroyed stays so)
follows from the steps of `CallbackDeliveryProofs`' `Refinement`.

Model-checked only: all liveness (`EventuallyClosed`, `NothingStranded`, `NeverHangs`,
`Ends`, `StreamEnds`), which needs fairness and ENABLED and is out of the prover's reach;
and the violations that the findings rest on. Every invariant of a passing run is a
theorem, and so is the refinement.

## Not modelled, and the plan

Done in this order: ownership and delivery, the z_get rendezvous, z_sub_thr, handles,
the command line, the build pipeline, queryables and their gets; then the proofs.

Cannot be settled from this repository:

* The width of `atoi`'s result, and a negative `-o`: `atoi` into a `uint64_t` gives a
  deadline some 10^17 seconds away and a negative timeout to the library. What
  `pthread_cond_timedwait` and zenoh make of these is their affair; `GetRendezvous` takes
  the timeout for a natural number.
* The counter on `z_scout`'s stack: safe if `z_scout_drop` waits for calls under way. It
  does not say so here; `ContextOutlivesCalls` is what the closure gives by itself.
* Where accessors' results (`z_sample_key_expr` and the like) are used after a take: no
  handler does.
* zenoh's consolidation of replies, and when it calls `on_close` after the last of them:
  `QueryReply` and `GetRendezvous` take from the library what `z_get.c` relies on, and
  state nothing as a property that only restates it.

Not planned: the generated Rust bindings (not in the repository), zenoh itself, the
project-root probe (a stateless lookup), shared memory (no prototype depends on it),
formatting and logging.
