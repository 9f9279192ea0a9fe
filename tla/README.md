# dxu-cpp in TLA+

This directory specifies, model-checks and partly proves the parts of
[dxu-cpp](../src/README.md) in which something can go wrong that a unit test
hardly reaches: the work queue and its threads, the storage of the small vector
and its exceptions, the clocks, and the functions that read and write texts.  Definitions are
translated from the headers under `include/dxu`; where this text or a comment
gives lines without a path they are lines of the header just named.

## 1. The system

dxu-cpp is a library of headers.  It starts no thread and does no I/O beyond
error messages; components meet in the programs that use them and through
direct calls.

| Part | State | Operations | Uses |
|---|---|---|---|
| `WorkQueue<T>` (`concurrency/work_queue.h:20-125`) | `queue_`, `done_`, `max_size_`, one mutex, three condition variables | `push`, `pop`, `setMaxSize`, `finish`, `waitUntilFinished` | std threads |
| `BatchWorkQueue<Array>` (131-170) | a `WorkQueue` and the atomic `size_` | the same, and `size` | `WorkQueue` |
| `SmallVector<T, N>` (`small_vector.h`) | `begin_`, `size_`, `capacity_`, inline storage, heap blocks | constructors, destructor, `push_back`, `emplace_back`, `clear`, `reserve`, `resize`, `assign`, `=`, `swap`, accessors | iterator facade, `std::allocator` |
| iterator facade (`lang/contiguous_storage_iterator_facade.h`) | none | `begin`, `end`, `front`, ... | `SmallVector` |
| `Slice` (`slice.h`) | a pointer and a length | searches, comparison, cutting, trimming, hexadecimal | |
| conversions (`conversion.h`) | none (`errno`) | `StrToInt`, `StrToInt64`, `StrToIntPair`, `StringToVectorInt`, `HumanReadableBytes` | `Slice`, `strtol` |
| clocks (`chrono.h`) | the static offset of `ClockOffset` | `NowMicros`, `NowMicrosSteady`, `NowNanos`, `NowNanosUTC`, `SleepMicros` | system clocks |
| time strings (`chrono.h`), formatting (`format.h`) | none | `TimeToString`, `Write3Digit2`, `WriteDigit2`, `ToEscapedString`, ... | |
| `EnvVarManager` (`env_var.h`) | the environment of the process | `GetString`, `GetBool`, `GetInt32`, `GetInt64`, `Set` | conversions |
| `release_assert.h`, `port/*`, `impl.h`, CMake files, tests | none | | |

What makes each part correct, and hard:

- **WorkQueue.**  Items leave in the order they came, none lost, none twice;
  `push` returns true exactly for the items that got in; a `pop` that returns
  false has left nothing behind; no thread sleeps that should be awake.  The
  critical sections are easy; the notifications are all sent *after* the mutex
  has been released, `finish` notifies three times in a row, the limit may
  change while writers are blocked, wakeups may be spurious and T may throw.
- **BatchWorkQueue.**  The count follows the queue.  It is changed outside the
  mutex, in an order of its own.
- **SmallVector.**  Each heap block has one owner and every block is freed; the
  elements constructed are those the vector says it has; the contents are those
  of a sequence.  The hard part is an exception between two constructions, and
  elements that move between inline storage, heap and other vectors.
- **Parsers.**  What is accepted is exactly what the notation means, a partial
  result is exactly the part before the error, a pair is two numbers or none.
- **Hexadecimal.**  What was encoded is decoded.
- **Slice.**  The searches agree with each other, at the ends, for empty and for
  invalid slices; comparison is an order; a cut takes what it should and leaves
  the rest.
- **Writing texts.**  A size fits its buffer and is off by less than one in its
  last digit, a time has every digit in its place although three numbers are
  converted in one multiplication, a list and a quoted string can be read back.
- **EnvVarManager.**  The first value set counts; words, numbers and errors each
  lead to the answer or to the default.
- **Clocks.**  Time does not run backwards, whoever initializes the offset and
  whatever happens between the two clocks being read.

`PROJECT.json` lists every part as a component and every hazard with its line.

## 2. Modules

```
WorkQueue ---- WorkQueueImplements ----> QueueContract
  |  \                \--- WorkQueueProofs (with Arithmetic)
  |   BatchWorkQueue ---/
  Pipeline ------------ PipelineProofs (with WorkQueueProofs)
SmallVector -- SmallVectorImplements --> VectorContract
                  \--- SmallVectorProofs
Slice -- Conversion -------------------> Numerals (with PowersOfTen)
  |  \      |  \--- ConversionProofs (with Arithmetic)
  |   \     |  VectorParser
  |    \    |     \--- VectorParserProofs (with ConversionProofs)
  |  HexCodec  EnvVar   Formats (with PowersOfTen)
  |       \      |        |
  |        \     |    FormatCalls (with Conversion)
  |         \    |      /
  SliceCalls -- TextCalls
                  \--- TextCallsProofs (with ConversionProofs)
Clocks -- ClocksProofs (with Arithmetic)
```

An arrow points at a module that is instantiated; a module whose name
starts with `MC` gives constants to TLC that a configuration file cannot write.
Definitions marked "Faulty variant" are mistakes one could make in the code.
Nothing uses them; each replaces the definition that follows it in a check that
the properties notice (the mutants of `PROJECT.json`).

### WorkQueue, QueueContract

One critical section, from locking or re-locking after a wait to unlocking or
waiting, is one action, because `queue_`, `done_` and `max_size_` are touched
only under the mutex.  Every notification is an action of its own, since all of
them are sent without the mutex.  `pc[t]` says where a thread is; the threads
that sleep on a condition variable are those at `pop_wait` (`reader_cv_`),
`push_wait` (`writer_cv_`) and `await_wait` (`finish_cv_`).  A notified thread
returns to `pop`, `push` or `await` and evaluates the condition of its loop
again.  `notify_one` wakes any one sleeper; `SpuriousWakeup` wakes one without
reason.  `MayThrow` allows `queue_.push` and the assignment in `pop` to throw;
`NDEBUG` decides whether a second `finish` aborts the process.  One item stands
for one call of `push`.  `fate`, `accepted`, `delivered` and `ended` are history
variables.

`QueueContract` is the queue without mutex, sleeping and notifications: every
method takes effect at one instant between its call and its return.
`WorkQueueImplements` maps a sleeping or woken thread to one that is still in
its method, and a thread with notifications to send to one that is about to
return.  The contract's progress conditions (`Served`, `Released`) say of the
abstract queue that items are taken while there are some and somebody wants
one, and that calls which nothing holds back return.  They are weak fairness
conditions with their enabling conditions written out.

### BatchWorkQueue, Pipeline

`BatchWorkQueue` adds `size` and, for each thread, what it still has to add
(`due`); `size` counts modulo `Word`.  `Pipeline` is the way the repository's
tests use the queue (`test/work_queue_test.cc:117-149, 198-236`): pusher loops,
popper loops, and a main thread that joins, calls `finish` and joins.

### SmallVector, VectorContract

The state is raw memory: `cells[b]` are the cells of the inline storage of a
vector or of a heap block, `Raw` where no element lives; `vec[v]` holds
`begin_`, `size_` and `capacity_`.  A member function is one action, since it
runs alone; inside it, each construction may throw, and `k`, the number that
succeeded, is chosen.  What the handlers then do is part of the action.  `type`
is the element type, chosen initially: whether its copies and its moves throw
and whether it can be copied, which selects between the code's paths
(`std::move_if_noexcept`, `kNothrowMovable`).  A constructor is a call on an
empty vector followed by `Destroy` if it throws, since it delegates to the
default constructor.  The memcpy path has the effect of moves that do not throw.
Allocation does not fail, destructors do not throw and arguments do not refer
to elements of the vector: small_vector.h:31-44 excludes these.

`VectorContract` has only sequences and says what an exception leaves.

### Slice, Conversion, VectorParser, Numerals

`Slice` and `Conversion` are operators, translated from the code.  A slice is a
sequence of characters, or `Invalid`; positions count from 0 as in the code.
`Strtol` stands for the C function; numbers are decimal, and the two types of
integers have the limits `IntLimit` and `LongLimit`: they hold the numbers from
-limit to limit - 1, and a number of the larger type is narrowed to the smaller
one modulo twice the limit (`Narrow`), which for 2^31 is to keep the low bits.  `VectorParser` is the loop of
`StringToVectorInt`, one round per action.  `Numerals` is the reference: it
takes a text apart in every possible way and keeps the ways that make sense, and
knows nothing of the code.  `PowersOfTen` has the one table that it shares with
`Formats`.

### HexCodec, EnvVar, Formats

More operators.  `HexCodec` works on bytes, since it computes with character
codes and their signs.  `EnvVar` is what the `Get` functions make of the value of
one variable.  `Formats` writes texts: `HumanReadableBytes` in integers, a size
being `n * 1024 ^ e`, with `Hundredths` as what `%.2lf` gives for such exact
values and `nul` as the index at which the buffer ends; `Write3Digit2` on a word
of two fields of 24 bits and one of 16, with carries between them; the escapes
of `format.h` byte by byte.

### Caller, SliceCalls, FormatCalls, TextCalls

All these functions have no state, so one kind of program exercises them: it
makes a call with arguments of its choice, and `call` and `out` hold the call and
its result (`Caller`).  A string that was just encoded may be decoded next, and
an environment variable (`env`, the only state) is set, perhaps once more, and
read.  `SliceCalls` has the functions of `Slice`, each checked against the
others; `FormatCalls` those of `Formats`, checked by reading the text back with
`Numerals`; `TextCalls` adds conversions, codec and environment and composes
everything.

### Clocks

The system calls of a thread are steps of their own.  `Tick` and `SetClock` are
the environment: time passes, and the real-time clock may be set once, between
any two steps.  The static variable of `ClockOffset` is initialized by the first
thread that gets there, in two steps, while others wait.  `result`, `best`,
`atCall`, `delay` and `stepped` are history.

## 3. Runs

| Run | Bounds | States |
|---|---|---|
| `queue_safety` | 2 writers, 2 readers, 1 tuner, 1 closer, 1 watcher, 3 items, limits 0, 1, 2; symmetric threads and items | 116,346 |
| `queue_implements` | 2 writers, 2 readers, one thread that tunes and closes, a reader that also waits for the end, 2 items, limits 0, 1 | 37,544 |
| `batch_count` | 2 writers, 2 readers, 2 closers, 3 buffers of 0, 1 and 2 elements, limits 0, 1, a 4-bit count; T throws, assertions on; symmetric threads | 353,365 |
| `pipeline` | 2 pushers of 2 items each, 2 poppers, limits 0, 1, 2 | 90,470 |
| `vectors` | N = 1 and N = 3, sizes to 2, room to 3, three throwing element types | 50,818 |
| `text_calls` | conversions of every text of up to 5 of 7 characters; every byte encoded; slices of up to 4 of 3 characters, targets of up to 2, positions to 5; about 1,700 sizes, 7,600 triples, 2,592 times; vectors of up to 4 of 6 numbers; every byte, and up to 3 of 15 bytes, quoted; about 440 values of a variable | 235,957 |
| `lists` | every text of up to 5 of 7 characters, 4 choices of marks | 226,829 |
| `clock_readings` | 2 threads, 2 calls, 5 ticks, real times 0 and 5, a second of 4 ns and a microsecond of 2; symmetric threads | 6,153,850 |

What they show:

- `queue_safety`: `FifoDelivery`, `PushVerdict` and `NothingStranded` are the
  promises of the comments at lines 48, 72-73 and of the name FIFO;
  `ReaderWakeups`, `WriterWakeups` and `WatcherWakeups` say, of every state,
  that whoever sleeps and should not has a notification on its way;
  `NeverGrowsWhenFull` is the limit, with `setMaxSize` lowering it under the
  current length.  Two threads of each role are what a stolen wakeup takes: one
  sleeps, one takes the item; two items and one item more keep a queue of limit
  1 or 2 full.
- `queue_implements`: refinement, and progress under fairness.  Fairness: every
  thread that is inside a method and can go on does so (`WF(Step(t))`), which is
  what a scheduler and `std::mutex` give in practice.  Calls are not owed and
  spurious wakeups are not relied on.  The contract owes progress to *some*
  caller, not to each: neither the mutex nor `notify_one` is fair.
- `batch_count`: the count is that of the queue but for adjustments under way,
  modulo 2^w.  A buffer of no elements is among them, for which nothing is owed.
  T throws in either place, and `finish` is called by two threads in a build that
  aborts; still every step of the queue is one of its contract, so nothing is
  lost and no verdict is false.  The wakeup invariants are not among its
  properties: see `throw_loses_wakeup`.
- `pipeline`: the assertions of the tests, each popper seeing the items of a
  pusher in order, and the two rounds of joins returning.  Here the loops
  themselves are fair: a program that runs its loops to the end.
- `vectors`: an exception at every construction of every member function, from
  every reachable pair of vectors, inline and on the heap.  Growth with one and
  with two live elements is enough to lose, leak or repeat one; a type whose
  operations throw may also complete each of them, so types that never throw add
  nothing.  The inline capacities lie on both sides of the sizes: the first
  vector moves to the heap with its second element, and the second one, which
  always has room inline, gets to the heap by taking over the first one's block,
  whose capacity may be below its own N.
- `text_calls`, `lists`: exhaustive over short texts.  Five characters hold a
  number, a mark, a signed number and a blank or separator, in any order; the
  options of `lists` include a blank separator and marks that clash.  The limits
  8 and 32 of `text_calls` let numbers of two digits lie below, between and
  beyond them.  `IntegersAgree` leaves out the two cases in which the code does
  not do what it says: see `strict_int`.  In `lists` the
  limits are 7 and 32: with a limit that is no power of two a number between the
  limits, which is narrowed, may come back with either sign, so that a count or
  the end of a range that was written negative may turn out positive.
- `text_calls` also: a target of two characters that overlaps itself fits into a
  slice of four at its start, inside, at its end and not at all; positions go
  beyond the end.  `SearchesFind`, `ComparisonsAgree` and `CutsAgree` are laws
  between functions: `find` is where `starts_with` holds, `rfind` mirrors it, a
  strip leaves neither more nor less; `find` of an empty slice from behind the
  first position is left out: see `FindEmpty.cfg`.  Sizes lie around every power of 1024 and
  every number of digits, where rounding adds a digit; each field of a triple
  takes every value while the others take the extreme ones, which is where a
  carry would show, and what stands between date and time of day is left out:
  see `TimeLayout.cfg`; strings of three bytes are enough for an escape to run into
  what follows it.
- `clock_readings`: two threads race for the initializer while time passes
  between its two readings and the real-time clock is set, also backwards.  Five
  ticks carry the seconds of a reading on, and the nanoseconds with an odd offset
  over the end of a microsecond, between two readings of `NowMicrosSteady`, which
  is where `SteadyMeasures` could lose one.

`CHECK_DEADLOCK FALSE` is set where the system really stops: after an abort, at
the end of the program of `pipeline`, after the call of `text_calls` and
`lists`, after the last call of `clock_readings`.

Bounds beside the constants: `MaxLen` (sizes of vectors), `MaxTime` and
`MaxCalls` (clocks).  Each item is pushed once, which bounds the queue.

Four runs show the code doing something else than its comments say:

- `throw_loses_wakeup`: two readers sleep, `push` wakes one, and taking the item
  throws (85).  The item stays queued, the only notification is used up, and the
  other reader sleeps beside the item with no call in progress, although `pop`
  "will block until data is available" (67-68).  While T does not throw,
  `ReaderWakeups` and `ContractServed` rule this out.
- `batch_size_wraps`: `push` adds to `size_` after the buffer is available
  (144), so a `pop` may subtract first, and `size()` returns nearly 2^w, though
  it is said to "count the number of elements in the queue" (128-129).
- `hex_signed`: slice.h:379 shifts a `char`.  Where `char` is signed the bytes
  from 128 on give a value outside the [0, 15] that `toHex` requires (354), and
  `ToString(true)` returns characters that are no hexadecimal digits (115).
- `strict_int`: the strict check (conversion.h:153) takes a Nul inside the slice
  for the end of the text, though strict means "no trailing content, etc." (16);
  and `StrToInt` casts what `strtol` returned to `int32_t` (165) without an
  error, where line 24 says "wrapper for std::strtol, return 0 if error".  The
  property asks that a call keep one of the two promises.  With limits of 8 and
  32 the text "11" followed by a Nul is read as -5, without an error: neither is
  kept.

Six more configurations show further disagreements, one invariant each, which
TLC finds violated.  The properties of the runs above do not cover these cases,
and none of them calls the documented result wrong.

| Configuration, module | Invariant | The code and what is said |
|---|---|---|
| `SteadyWraps.cfg`, `MCClocks` | `SteadyNeverBack` | the offset may be negative by less than a second, on a machine whose real-time clock starts at the epoch when it boots, since `ClockOffset` reads that clock first (chrono.h:77-78).  In the first nanoseconds of every second the sum of line 126 is then negative and is divided as a number near 2^64; the first reading after that is far below the one before, although the function reads this clock because "gettimeofday() is not monotonic" (124) |
| `SteadyEpoch.cfg`, `MCClocks` | `SinceSteadyEpoch` | `NowMicrosSteady` adds the offset between the clocks (126) and so counts from the epoch of the real-time clock, not "microseconds since the Steady Clock epoch" (21) |
| `ClockSet.cfg`, `MCClocks` | `CountsFromEpoch` | the offset is computed once (73), so after the real-time clock has been set `NowNanosUTC` is off by the step for good: no longer "nanoseconds since the UTC epoch" (27) |
| `FindEmpty.cfg`, `MCTextCalls` | `FindsLikeStrings` | `find` of an empty slice is 0 from whatever position it starts (slice.h:342); `std::string` answers the position, or `npos` behind the end, and slice_search_test.cc:13 says "try best to fit std::string behavior in corner cases" |
| `TimeLayout.cfg`, `MCTextCalls` | `TimeLaidOut` | `TimeToString` writes "YYYY/mm/dd-HH:MM:SS" (chrono.h:162), as its test expects; line 33 says "YYYY/mm/dd HH:MM:SS" |
| `StolenCapacity.cfg`, `MCSmallVector` | `CapacityAtLeastN` | a heap block that is taken over from a vector with a smaller N keeps its capacity (small_vector.h:370-372), and `capacity_`, which "must >= N" (542), is below N.  Nothing in the code relies on it: `Ownership` and `ImplementsContract` hold all the same |

`VectorDifferentN.cfg` repeats `vectors` without exceptions for sizes to 3 and
room to 4, 67,846 states, where the second vector fills its inline storage and
leaves it by itself.

## 4. Proofs

Each theorem is about a `Spec` that a run checks, with the constants left open;
all but three state a property of a run.  An invariant is proved by an inductive
one: `Init` implies it, every action keeps it, one lemma per action where there
is something to say, and it implies the property.  Every invariant of the
passing runs is proved.

Some proofs are about sums, digits and lists of any length.  The library's
theorems for induction and for recursive definitions take operators as
parameters, which the provers cannot instantiate.  `Arithmetic` takes another
way: induction is over a *set* of numbers (`NatInd`), and a function defined by
recursion is shown to exist, by induction on how far it is defined
(`IteratesExist`, `FoldsExist`, `SumsExist`), and is then known by its equations
(`TenIs`, `HornerIs`, `SumTakeOut`).

### Queues

`WorkQueueProofs` proves for every finite set of threads, in any roles, every
set of items and every set of limits in Nat:

| Theorem | Statement | Argument |
|---|---|---|
| `TypeCorrect` | `Spec => []TypeOK` | inductive: one step per action.  `TypeOK` says that a thread in `push` holds an item, without which `PushEnqueue` could queue anything |
| `Fifo` | `Spec => []FifoDelivery` | inductive with `TypeOK`: only `PushEnqueue` and `PopTake` touch the sequences (lemma `QueueSteps`), and moving the head changes no concatenation (`MoveHead`) |
| `FullNeverGrows` | `Spec => NeverGrowsWhenFull` | from `TypeOK` and `QueueSteps` |
| `NoneStranded` | `Spec => []NothingStranded` | strengthened to `Drained`: `ended` implies that the queue is finished and empty, which stays so because `PushEnqueue` needs `~done`; with `Fifo` nothing is missing |
| `Verdict` | `Spec => []PushVerdict` | strengthened to `PushesInProgress`: which thread holds which item, and whether it has been queued, as a function of where it is in `push` |
| `ReadersWoken`, `WritersWoken` | the wakeup invariants, assuming `~MayThrow` | inductive with `TypeOK`; they count threads, so the lemmas `GotoCounts`, `NotifyOneCounts`, `NotifyAllCounts` say how a step changes the counts |
| `WatchersWoken` | `Spec => []WatcherWakeups` | as above, exceptions allowed |
| `Implementation` | `Spec => ImplementsContract` | step by step, with `TypeOK` and `EmptyHanded`: who is neither pushing nor back from a `pop` holds no item, which makes the contract's `Return` and `Call` match |

The assumptions are those of `WorkQueue`: finitely many threads, limits in Nat,
`NoItem` is no item, `NDEBUG` and `MayThrow` are Booleans.

What a program that uses the queue needs is that it keeps to the queue's
protocol; then every theorem above is one about the program.

| Theorem | Statement | Argument |
|---|---|---|
| `BatchUsesQueue` | `BatchSpec => Spec` | every step of `BatchWorkQueue` is one of its queue or leaves it alone |
| `Balances` | `BatchSpec => []CountBalances` | strengthened to `Balance`: the count, plus what threads still owe or have added early, is what the queued buffers hold, up to a multiple of 2^w.  Lemmas of `Arithmetic` say how a sum over the threads, or over the positions of the queue, changes with one of its terms |
| `PipelineUsesQueue` | `PipelineSpec => Spec /\ []Program` | `Program` ties what a thread of the tests does next to where it is in the queue: a pusher only pushes, `Main` finishes once and after joining the pushers |
| `Ordered` | `PipelineSpec => []PushersInOrder` | `PipelineInv`: `QueueInv` (the queue's own invariants), `Feeding` (the items of a pusher entered the queue in the order of its range, none it has not got to) and `Dealing` (each delivered item is with one popper, and each popper has its items in the order of delivery) |
| `AllArrive` | `PipelineSpec => []NothingMissing`, assuming `~MayThrow` | `PipelineInv`, and `AllFed`: what a pusher has got to has entered the queue or is in its `push`; `QuitAtEnd`: a popper that has quit has seen the queue finished and empty, which `Drained` makes final.  An exception would end the test program, and the items of the tests, integers, throw none |

The ranges of the pushers have no item in common, and pushers, poppers and
`Main` are different threads (`ShareAssumption`, `RolesAssumption`), as in the
tests.

### Vectors

`SmallVectorProofs` proves for any finite set of vectors, any inline capacities,
values, element types and sizes:

| Theorem | Statement | Argument |
|---|---|---|
| `MemoryIsGood` | `Spec => []MemoryInv` | the inductive invariant: each vector points to its own storage or to a block of the heap that no other vector points to and that has `capacity_` cells; the cells in front are elements, those behind are raw; blocks of nobody have no cells; and as many elements are alive as there are cells in use.  The operators of the model take a memory and give a memory, so each has a lemma about good memories, and every member function composes them, once for returning and once for each place where it throws |
| `StorageTypeCorrect`, `StorageOwned`, `ElementsLive` | `Spec => []TypeOK`, `[]Ownership`, `[]Lifetimes` | from `MemoryInv` |
| `VectorsImplementContract` | `Spec => ImplementsContract` | call by call: the lemmas also say which elements a memory has afterwards |

`HeapAssumption`, more blocks than vectors, says that `std::allocator` does not
fail: a vector owns at most one block, and growing takes one more before the old
one is given back.  `std::bad_alloc` is not modelled.

### Texts

`ConversionProofs` has what the theorems below share: what the operators of
`Slice` and `Conversion` make of a text, and that `Numerals` makes the same of
it.  `TextCallsProofs` proves for slices, targets, texts and byte strings of any
lengths and all positions:

| Theorem | Statement | Argument |
|---|---|---|
| `Searches` | `Spec => []SearchesFind` | each search is shown to be the least or the greatest of the positions at which something holds (`FindIs`, `RFindIs`, `FindAnyIs`, `FindSliceIs`); two searches agree when the sets do |
| `Comparisons` | `Spec => []ComparisonsAgree` | `CompareIs`: `compare` is -1, 1 or 0 as one slice is `Less` than the other, which is decided by the first difference; `Less` is transitive and excludes its mirror image |
| `Cuts` | `Spec => []CutsAgree` | what stays of a strip or a trim is what lies between the first and the last character that stays (`CutsAre`, `MiddleIsCut`), in whichever order the ends are cut |
| `HexAccepted` | `Spec => []AcceptsHexOnly` | `DecodeIs`: all pairs are decoded when all characters are digits |
| `HexRoundTrip` | `Spec => []RoundTrip` | byte by byte (`ByteReadBack`), with the precondition of the property about signed `char` |
| `IntegersParsed` | `Spec => []IntegersAgree` | `StrtolIs`: what `strtol` finds is the longest beginning of the text that is a numeral.  It adds digit by digit, the reference adds up digits by their places: `HornerIs` says that both are the same.  Then what follows the number (`EndsWellIs`), the error code, and that a number the type holds is not narrowed (`IntegerAgrees`) |
| `PairsParsed` | `Spec => []PairsAgree` | `PairParsed`: there is one place at which a text is cut into two numbers, the first colon, since no number contains one; trimming the inner ends of the halves removes only what the reference calls blank (`TrimInside`) |
| `EnvironmentRead` | `Spec => []EnvironmentAnswers` | `LowerIs`: comparing with a word in lower case is being that word in letters of either case; `NumberOrIs`: the default is returned when the reference finds no number |
| `SizesWritten` | `Spec => []SizesShown` | `UnitIs`: the unit chosen is the largest the size reaches; `CentsAre`: the hundredths are the quotient, or one more; `SizeCut`: where the buffer ends, and so which digits are lost, follows from how many digits come before the dot (`WholeMore`, `DigitCount`) |
| `TimesWritten` | `Spec => []TimesShown` | `TensAre`: no field of the packed word carries into the next one, so one multiplication divides three numbers by ten; with `LowDigitsAre` the digits are those of the numbers |
| `ListsWritten` | `Spec => []ListsReadBack` | the digits of a number are read as that number (`DigitsOfIs`, `NumberReads`), and a list that is extended by a separator and a number has one part more (`PartsExtend`), with `FlattenIs` for a concatenation of any length |
| `QuotesRead` | `Spec => []EscapesReadBack` | the text is read piece by piece (`EscapedStep`, `PieceScanned`), each piece tells the character it stands for and is not the beginning of another one (`PieceTells`), and the pieces lie one behind the other (`LaidOut`); so two strings that are written alike are the same string |

`VectorParserProofs` proves for lists of any length, any separator and any set
of blanks:

| Theorem | Statement | Argument |
|---|---|---|
| `LoopEnds` | `Spec => []RoundsBounded` | `ParserInv`: the rounds so far and the characters left are no more than those of the text, because no part of a cut is longer than the whole and the splitter takes its mark with the part |
| `ReturnsMeaning` | `Spec => []ReturnsWhatIsMeant` | strengthened to `ListInv`: while the loop runs, the text falls into parts of which the last ones are the parts of what is left (`PartsStep`), the ones before have a meaning each, and `result` is these meanings one after the other (`FlatStep`).  `ElementSays`: what a part gives is the one thing it can mean, and an error when it means nothing |
| `AcceptsExactly` | `Spec => []AcceptsLists` | from `ListInv`: when the loop returns, the part at hand is the first one without a meaning, or there is none |

The assumptions on the constants are those of the modules, and each says what
holds of the code: slices are sequences of characters or the invalid slice, which is
none; blanks are finitely many; digits have the values 0 to 9, and digits,
signs, blanks and Nul are different characters (`CharactersAssumption`); the
range of `int32_t` is within that of `long` (`LimitsAssumption`); a colon is
nothing that is in a number; the value of an environment variable contains no
Nul (`TextsAssumption`); a mark that a caller of `StringToVectorInt` chooses is
nothing that is in a number either, but for the default mark of a range, `-`
(`OptionsAssumption`).  `FormatCalls` writes ASCII (`AsciiAssumption`); a size
`n * 1024 ^ e` is at most 2^64, with `n` below 2^30, so that a double holds it (`SizesAssumption`); times are
those a `struct tm` holds (`FormatsAssumption`).

### Clocks

`ClocksProofs` proves for every set of threads, every number of calls and every
scale and range of the clocks:

| Theorem | Statement | Argument |
|---|---|---|
| `MonotonicTime` | `Spec => []Monotonic` | inductive with `ClockInv`: all threads have got the same offset, and no result is ahead of the monotonic clock plus it, neither now nor when a call began |
| `TracksTime` | `Spec => []TracksRealTime` | from `ClockInv`: until the real-time clock is set the clocks keep their distance, which is the offset plus what the initializer took |
| `SteadyTimeMeasures` | `Spec => []SteadyMeasures` | from `ClockInv` and `MicrosExact`: a multiple of the divisor comes out of a quotient (`DivShift`), so each result is the quotient of reading and offset, and two quotients are as far apart as what was divided, to the divisor (`DivisionLaw`) |

They assume, besides the scales (whole microseconds in a second, none of them
zero), that no time reaches 2^64 nanoseconds, which takes 584 years: without it
`NoWrap`, that the sum of a reading and the offset does not wrap, is false.  The
same assumption is evaluated by TLC in `clock_readings`.

### Model-checked only

Progress under fairness: `ContractServed`, `ContractReleased`, `Joins`.  The
prover has neither `ENABLED` nor a rule for fairness here.  What these
properties rest on in every state, that whoever sleeps and should not has a
notification on its way, is proved.

## 5. Plan

Done, in this order: the queue and its contract, their proofs; the batch queue
and the pipeline; the vector and its contract; the parsers; the hexadecimal
codec; the clocks and their proofs; the searches, comparisons and cuts of
slices; sizes, lists, times and quoted strings; the environment; the exception
that loses a wakeup; the proofs of the batch queue, the pipeline, the vector,
the slices, the codec and the loop over lists; the proofs of the parsers, of the
environment and of the texts that are written.  What would add most:

1. A queue with the mutex itself as a variable (lock, wait and unlock as
   separate steps), shown to implement `WorkQueue`, to justify its granularity.
2. The destruction of a queue, with the rule for its owner that the tests follow.

## 6. Seen while modelling

What the runs and configurations of section 3 show is not repeated here.  These are other places
that deserve a reader's attention; the models behave as the code does.

- A `push` that was woken and then throws (work_queue.h:60) loses a wakeup as
  `pop` does in `throw_loses_wakeup`: another writer may sleep beside free room.
  The wakeup invariants hold and are proved only for T that does not throw.
- `swap` of vectors whose elements throw on moving may lose the contents of one
  of them, and a growing vector of elements that can only be moved, and throw,
  keeps its size but has some elements moved from.  `VectorContract` says so.
- `resize(n, value)` that throws clears the whole vector (484), `resize(n)` that
  throws keeps what there was (239-242).
- Two separators at the end of a list ("2,,") are accepted: one is removed
  first (308), the other one is not looked behind (191).  Between elements they
  are an error (328).  `AcceptsLists` says so.
- A count of a repetition is narrowed before it is found positive (352-354): a
  large one may be refused, a large negative one accepted.  Where `-` marks a
  range it cannot be negative, since the sign would be taken for the mark.
  `MeaningsOf` says so.
- The end of a range is incremented (377), which overflows at the largest
  `int32_t`.  That is undefined; the model does not narrow the number past the
  end, as a build does that keeps it in a wider register, and `ReturnsWhatIsMeant`
  says nothing of other builds.
- `Monotonic`, `TracksRealTime` and `SteadyMeasures` are about offsets that are
  not negative; `SteadyWraps.cfg` is about the others.
- A position near the largest `size_t` makes `s.size_ + pos` wrap in `find`
  (slice.h:343): no program searches from there, but from `npos` it might.
- Stripping with an invalid slice of targets empties the slice (203, 219-227),
  stripping with an empty one changes nothing: `CutsAgree`.
- `HumanReadableBytes` rounds to two decimals before it cuts, and what stays is
  not rounded again: 1023.999 KB is "1024K", 999.999 KB is "1000.0K", and 100.99
  KB is "100.9K".  `SizesShown` allows one unit in the last digit.
- "\0" and "\x01" in quoted strings (format.h:91, 101) are read back by taking
  one and three characters after the backslash.  A C compiler would read on in
  "\0" followed by a digit, or "\x01" followed by a hexadecimal digit; nothing
  in the code says that the output is for one.
- `GetInt32` returns numbers between the two limits narrowed, as `StrToInt` does,
  without the error message.
- `README.md` of the repository names functions that do not exist
  (`StrToIntSafe`, `StrToInt64Safe`, `TrimString`).

Two statements of this project were found wrong by proving them, and corrected:
`EnvironmentAnswers` used to take a character 32 below any character of a word
for its capital, which holds only of letters; and nothing kept a size from being
`<<0, 1>>`, 0 * 1024, which `HumanReadableBytes` of the model would write in
kilobytes: zero bytes are `<<0, 0>>` (`SizesAssumption`).

## 7. Not modelled

The iterator facade and element accessors read the vector and change nothing.
`release_assert` prints and aborts.  The portability headers, the build and
`impl.h` have no behaviour.  `NowMicros` and `SleepMicros` are single library
calls.  Other platforms than Linux differ in the clocks they read.  Bases other
than ten, and the prefix of octal and hexadecimal numbers, are `strtol`'s
business: the default base of `StrToIntOptions` and that of `GetInt32` and
`GetInt64` (env_var.h:50, 64) is 0, which takes a leading 0 for octal and 0x for
hexadecimal, so what the properties say of such texts and values is true of base
10 only.  Vectors whose size or capacity comes near the largest `size_t` are left
out.  Destroying a queue while a thread still has to notify through it is
the caller's mistake.  Of `HumanReadableBytes`, sizes that a double does not hold
exactly are left out; of `TimeToString`, years before 1900 and `localtime_r`
itself.  Other threads that change the environment while it is read race in the
C library, whatever `EnvVarManager` does.  `to_upper_string` mirrors
`to_lower_string` and nothing uses it.
