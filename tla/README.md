# A TLA+ verification of latte_redis_server

This directory models the server in `src/src` in TLA+, checks the models with
TLC on small instances, and proves the safety properties that matter most with
TLAPS for every value of the constants. Every definition that stands for code is
listed in `PROJECT.json` under `map`, with the lines it stands for.

## 1. The system

A Redis-like server in C. One process, one thread, one event loop: handlers,
crons and module callbacks never run at the same time. The event loop, sockets,
dictionaries, strings, lists and the cron manager come from the library latte_c.
It is a submodule that is empty in this repository, so its parts are modelled from
the way the server uses them and are marked external.

| Part | Source | State | Operations |
|---|---|---|---|
| Request parser | `redis/client.c` | `querybuf`, `qb_pos`, `req_type`, `multi_bulk_len`, `bulk_len`, `argv`, flags | a read, inline and multibulk parsing, execution, reset, connect and disconnect |
| Replies | `redis/client_reply.c`, `shared/shared.c` | the list of reply blocks, a NULL placeholder | `add_reply*`, deferred lengths, writing a block |
| Database | `redis/db.c`, `modules/string.c` | `keys`, `expires` | SET, GET, EXPIRE, lazy expiry |
| Key-value store | `redis/db.c` | dictionaries, `key_count`, `allocated_dicts`, `non_empty_dicts`, `dict_size_index` | create, insert, delete |
| Command table | `commands/command_manager.c` | `commands`, `commandId`, `nextid`, flags | registration, look-up, ids, flag words |
| Modules | `redis/module.c`, `redis/redis_module.h` | `modules`, open libraries | load from the configuration, MODULE LOAD, onload, `create_command` |
| Slow log, command rate | `redis/slowlog.c`, `experiment/metric.c`, `redis/crons.c` | log entries, counter, ring of rates | end of a command, cron |
| Start-up, configuration | `main.c`, `redis/server.c`, `redis_config/config.c` | path, lines, settings | choose the mode, find and load the file, apply the command line, load modules, serve |
| Values | `modules/string.c`, `redis/module.c`, `redis/db.c`, `redis/client.c` | reference counts, value pointers, arguments | SET, GET, lazy deletion, end and loss of a request |
| Eviction pool (not built) | `redis/evict.c` | the array of candidates, a buffer per slot | `eviction_pool_populate` |
| Not built, unfinished | `redis/expire.c`, `crons/cron_expire.c`, `benchmark.c` | | |

How they interact: a read reaches the parser, which executes each complete
request through the command table. A command of a module goes on through the
module API to the database. Each handler adds to the reply list, which the event
loop writes later. When a request ends its duration goes to the slow log and
the counter that the metric cron samples.

What is hard in it:

- a request arrives in any number of pieces, and several in one piece;
- the state of a client is kept between requests and, through recycled memory,
  between connections;
- the two stores of a database are written by separate calls, and due keys stay
  in them until they are looked up;
- the value of a key is an argument of the request that set it, and both count
  references to it;
- the wall clock may go back, and the LRU clock wraps;
- the library of a module may fail at any point of its initialisation;
- settings come from defaults, a file and the command line, and the path of the
  file is edited by hand;
- the slots of the eviction pool move together with the memory they own;
- the length of an array reply is filled in after its elements;
- counters are kept incrementally and never recomputed.

The correctness properties that follow from this list are in section 3.

## 2. Modules

| Module | Stands for | Kind |
|---|---|---|
| `Keyspace` | database with lazy expiry, SET, GET, EXPIRE | detailed |
| `TtlMap` | a map whose keys vanish at their deadline | abstract, implemented by `Keyspace` |
| `StringObjects` | reference counts behind the database, arguments of another client | detailed, refines `Keyspace` |
| `KvStore` | dictionaries and counters of one store | detailed |
| `RespClient` | request parser and execution of one connection | detailed |
| `RespStream` | a parser that has the whole stream at once | abstract, implemented by `RespClient` |
| `RespScript` | the requests of a peer that keeps to the protocol, and what the parser owes it | properties of `RespClient` |
| `CommandFlags` | flag words to flag bits, both translations | operators |
| `ModuleLoader` | command table, module loading | detailed, uses `CommandFlags` |
| `StartUp` | `main` and `start_redis_server`: mode, path, configuration, settings | composed with `ModuleLoader`, refines it |
| `EvictionPool` | the pool of eviction candidates with its buffers | detailed |
| `IdlestKeys` | a list that keeps the idlest of the keys it is offered | abstract, implemented by `EvictionPool` |
| `ReplyList` | reply list of one connection | detailed |
| `ReplyStream` | complete RESP replies, written in order | abstract, implemented by `ReplyList` |
| `Monitoring` | slow log, command count, ring of rates | detailed |
| `MC*` | instances for TLC | |
| `*Proofs` | theorems about the module they are named after; `KeyspaceProofs` also has `StringObjects`, `ModuleLoaderProofs` also `CommandFlags` and `StartUp`, `RespClientProofs` also `RespScript` | |
| `Induction` | induction and recursion over the natural numbers, for the proofs about loops | lemmas |

How state and actions correspond to the code:

**Keyspace.** `keys` and `expires` are functions from names to a value or `NULL`,
which is what `dict_find` answers. One command is one action, because the event
loop does not interrupt a handler. `mstime` moves the clock between commands. A
name may have a NUL byte: the store copies names with `sds_new`, which cuts
them (`CString`), and looks them up with all their bytes. Deadlines are computed
in `long long` arithmetic that wraps at `LLongMax`.

**StringObjects.** Every command of `Keyspace` once more, with what its code does to
the counts, call by call: the argument is created with one reference, `lookup_key` may
run the destructor of the dictionary, the store takes a reference, an old value is
given up, `free_client_argv` drops the argument. Memory whose count is 0 is free and may
be taken by the next object. `argv` is an argument of another client's half-read
request; `redis_client_delete` frees the client and not its arguments, which are
`lost` from then on.

**KvStore.** A dictionary is the set of its names. The tree `dict_size_index` is
changed along `TreePath`, the indices the loop `idx += idx & -idx` visits; `Pow2` is
`1 << n`. The
server creates stores with one dictionary (and then no tree); the model covers
any power of two, as the code does.

**RespClient.** The stream of a peer is a sequence of symbols, in which a length
line such as `*3` or `$5` starts with one symbol that carries its number. `querybuf`
is the window from `base` to `delivered`. The handler is split into the steps of
its loops, with `pc` as the place; a read can only happen when the handler is
done. `linefeed_chars` is not initialised in the code, so its value is any
member of `LinefeedGarbage`. `Reconnect` gives a new client the memory of the old
one, in which `create_redis_client` leaves `argc`, `argv` and `req_type` as they
were.

**RespScript.** A script is a sequence of requests, each a sequence of arguments.
`Script` gives the script of every well-formed stream; `RequestsEnd` and `ArgsEnd` say
where in the stream each piece lies, and `Effect` what the server has to execute: all
requests but the empty ones and those behind a QUIT.

**ModuleLoader.** A library is what is found at a path: whether it can be opened,
the name it gives itself and the commands it declares. An onload is a sequence of
calls: `redis_module_init`, one `create_command` per command, and success or
failure, which may also come from the module itself. `Lower` folds case, as both
dictionaries do.

**StartUp.** A path is a sequence of symbols. `join_cwd`, `strip_parent` (one turn of
the loop over "../") and `glue_path` are `get_absolute_path`; `Place` is what the
operating system does with the result, one `Enter` per element, without symbolic links.
`Given` is the file's lines and then the command line's, `Modules` and `Setting` what
they ask for. A file and a command
line are sequences of lines, each a setting or a module; a line that no rule accepts
ends the program, as `config_load_file` and `config_load_argv` then return 0. Without
a working directory the path is NULL, and loading it is taken to fail. Every step is a
step of `ModuleLoader` or leaves its variables alone. The path of the executable is
computed by the same function and never read.

**EvictionPool.** A slot has a score, a database, a buffer (`cached`) and a key, which is
in the buffer or in an allocation of its own; both are addresses (`Sds`), and `text` is
the string at each. One action is one iteration of the loop over the samples, and the
four ways through it are four actions. A sample is any name with any score that the
policy can give; which keys `dict_get_some_keys` finds is left open. `tick` is
`mstime() / LRU_CLOCK_RESOLUTION` before it is masked. `lru_clock` may also return
`server.lruclock`, which nothing updates; the model has the clock that it stands for.

**CommandFlags.** A mask is the set of its bits. The `int` through which the mask
of a table word passes is modelled with its width and its sign.

**ReplyList.** Sizes count units (a type character, a number, a text, a line end).
A handler is the sequence of calls it makes. The allocator may give `Slack` more
than was asked for. The placeholder is a node that is `NullNode`. `Contents` is what
the blocks hold, in order; while a handler runs, `ReplyStream` sees what was queued
before it (`Pending`).

**Monitoring.** An entry of the slow log is its number and duration. The two
settings reach `slowlog_manager_new` in the order in which `start_redis_server`
passes them, which is the wrong one (section 6). `slow` and `recent` are history
variables.

## 3. Runs

`tlc -config <cfg> <module>` repeats a run. All of them finish within about three
minutes.

| Run | Module, cfg | Shows |
|---|---|---|
| `keyspace_safety` | `MCKeyspace`, `Keyspace_safety` | with a clock that goes back, deadlines that overflow and a name with a NUL byte: no deadline without its key, GET answers live values only, a SET that was answered is alive, deadlines never move, only due keys die |
| `keyspace_refinement` | `MCStringObjects`, `Keyspace_refinement` | in ordinary operation the assertion of `db_set_value` never fails, an accepted deadline is not in the past, reference counts are exact, entries point to the values of their keys, and the database implements `TtlMap` |
| `kvstore_tree` | `MCKvStore`, `KvStore_tree` | counters and tree agree with the contents, prefix sums included |
| `resp_safety` | `MCRespClient`, `RespClient_safety` | with malformed, inline, unknown and valid requests, two connections and recycled memory: the position stays in the buffer, `argv` is never overrun, nothing runs after QUIT or after a protocol error |
| `resp_order` | `MCRespClient`, `RespClient_order` | every script of up to three requests is executed in order, completely, and eventually; the parser implements `RespStream` |
| `resp_unknown` | `MCRespClient`, `RespClient_unknown` | violation: the request after an unknown command fails an assertion |
| `resp_inline` | `MCRespClient`, `RespClient_inline` | violation: the line after an inline request may be read from its middle |
| `module_loader` | `MCStartUp`, `ModuleLoader_safety` | a server that serves runs with what its command line and its file gave it; ids, ownership of commands, open libraries, flags and start-up stay consistent over failing and repeated loads |
| `module_failed` | `MCModuleLoader`, `ModuleLoader_failed` | violation: a module that was not loaded leaves commands behind |
| `reply_list` | `MCReplyList`, `ReplyList_blocks` | no copy leaves its block, placeholders are always filled, and the list implements `ReplyStream` |
| `monitoring` | `Monitoring`, `Monitoring_rates` | the log holds the first slow commands, rates are not negative, the ring holds the last intervals, every command is sampled |
| `eviction_pool` | `MCEvictionPool`, `EvictionPool_pool` | the pool stays sorted, slots share, lose and leak no string, scores never overstate across the wrap of the clock, and the pool implements `IdlestKeys` |

### Bounds, and why they are enough

- **Keyspace.** Two keys tell "this key" from "another key"; the third is the NUL
  name that is cut to the first. Two values tell an overwritten value from a new
  one. A second is two milliseconds and the clock has four or five values, so that
  a deadline can be before, at and after any command. `LLongMax` is 6 where
  overflow is wanted and out of reach where it is not.
- **StringObjects.** Memory for four objects: the two values, an argument of a half-read
  request, and one that is being created or was lost. With no name cut, keys, values and
  objects are interchangeable, and the properties are safety properties, so symmetry is
  sound.
- **KvStore.** Four dictionaries give a tree of three levels; two names let a
  dictionary pass through sizes 0, 1 and 2 in both directions. `MaxNonEmpty` bounds
  the one counter that drifts. Names are symmetric.
- **RespClient.** Up to three requests, out of an empty one, one without and two
  with arguments (an empty argument, one that is a line end, one that is "big"), and
  QUIT, cut in every way. The limits are 3 arguments, 3 symbols per argument, 4
  per inline line, so that both sides of each limit occur. Faulty streams fail each
  check of the parser once, alone and followed by another stream.
- **ModuleLoader.** The real command table and the real string and demo modules,
  with libraries that fail at each check. The bitmap has 7 bits, so that ids pass
  over its last one. Up to three configured modules and three MODULE LOADs reach every
  pair of a failed and a later load.
- **StartUp.** Files at three depths, one of them invalid; working directories at the
  root and one and two levels below; arguments with none, one and three "../", with
  blanks, with "./" in front and absolute; every command line of up to two lines out of
  modules, valid and invalid values and an unknown setting. Values lie at both limits
  of their rules.
- **EvictionPool.** Three slots are a first, a middle and a last one; a short and a long
  name; addresses for the three buffers and two long keys at a time, so that an address
  freed by the left shift is used again. The clock wraps after four ticks. Addresses are interchangeable. Each policy is an initial state; under
  the random one the code panics.
- **ReplyList.** A chunk of 11 units lets the length of an array fit the block
  before it completely, partly or not at all, and the block after it or not. Two
  queued nodes of up to `MaxUnits` units when a handler starts.
- **Monitoring.** A ring of 3, a log of 2 and 4 commands let both wrap or overflow.
  Clock readings may repeat and go back.

Deadlock is checked, except where the system really stops: after an abort, when
a peer has sent everything and been answered, when the configuration is rejected,
when the bound on loads is reached, or when the policy has no score (`redis_panic`).

### Fairness

- `RespClient!FairSpec`: `WF(Step)`, as the handler runs to its end once it was
  called, and `WF(Receive)`, as the event loop polls readable sockets and the peer
  sends all of its stream. Used for `AllExecuted`.
- `Monitoring!FairSpec`: `WF(update_metric_cron)`, as `init_redis_server_crons` adds
  it to the cron manager with a period of 100 ms. Used for `EveryCommandSampled`.

## 4. Proofs

`tlapm <module>` repeats them. All obligations are discharged by Z3, Zenon and LS4.

| Module | Theorems |
|---|---|
| `KeyspaceProofs` | `TypeCorrect`, `NoOrphanDeadline`, `GetIsLive`, `SetIsAlive`, `DeadlinesStay`, `OnlyDueDie`, `LazyExpiryIsInvisible`, `SetNeverAsserts`, `DeadlineIsAhead`, `ObjectsRefineKeyspace`, `SharingIsInvisible`, `CountsAreExact`, `ValuesStay` |
| `KvStoreProofs` | `StoreTypeCorrect`, `KeyCountIsExact`, `AllocatedIsExact`, `TreeAssertionHolds`, `NonEmptyIsUpperBound`, `TreeAddsUp` |
| `RespClientProofs` | `ParserTypeCorrect`, `PositionInBuffer`, `ArgvNeverOverrun`, `QuitEndsExecution`, `ErrorEndsExecution`, `ReadsAreInvisible`, `RequestsRunInOrder`, `AllRequestsRun`, `AssertionsHoldUntil`, `NoFaultIsFound` |
| `ModuleLoaderProofs` | `LoaderTypeCorrect`, `IdsAreSound`, `ListedModulesServe`, `HandlesAreSound`, `StartIsComplete`, `FlagsAreFromWords`, `OnlyLateFailuresLeaveCommands`, `StartUpUsesTheLoader`, `ConfigurationIsInForce`, `ConfiguredCommandsAreServed` |
| `EvictionPoolProofs` | `StaysSorted`, `KeysAreOwned`, `IdleNeverOverstated`, `PoolKeepsIdlest` |
| `ReplyListProofs` | `ReplyTypeCorrect`, `CopiesStayInBlocks`, `LengthsAreFilledIn`, `RepliesAreAStream` |
| `MonitoringProofs` | `MonitoringTypeCorrect`, `SlowlogKeepsTheFirst`, `RatesStayNonNegative`, `RingIsRecent` |
| `Induction` | lemmas only |

Every invariant, action property and refinement that a passing run checks is the
conclusion of one of these theorems. The two violations `resp_unknown` and
`module_failed` have a theorem each that says what else would have to be true for the
documented behaviour to hold (`AssertionsHoldUntil`, `OnlyLateFailuresLeaveCommands`).

### Assumptions

Each component names its own (`KeyspaceAssumption`, `KvStoreAssumption`, ...) in the
module that declares the constants, and TLC evaluates them in the runs. They give
constants their types and say little more:

- cutting a name twice is cutting it once, and folding case twice is folding it once;
- the words of the command table are valid, and no two of its entries have one name
  (`LoaderAssumption`; the table is a constant of the program);
- a store has a finite set of names and at most `2 ^ 16` dictionaries
  (`KvStoreAssumption`; `kv_store_create` asserts `num_dicts_bits <= 16`);
- an inline request may be at least two symbols long (`RespAssumption`; the code's limit
  is 64 KB), so that a length line that is cut is never taken for one that is too long;
- the script of a stream is what the stream carries, within the limits and with known
  commands (`ScriptAssumption`);
- the program starts in a directory, and `load-module` is not the name of a setting
  (`StartAssumption`).

Some theorems have a hypothesis of their own:

- `OrdinaryOperation` (`LazyExpiryIsInvisible`, `SharingIsInvisible`, `SetNeverAsserts`,
  `DeadlineIsAhead`): no NUL bytes in names, a clock that does not go back and deadlines
  that do not overflow.
- `OneOrdinaryConnection` (`ReadsAreInvisible`): no recycled memory, and the uninitialised
  `linefeed_chars` holding the one value with which inline requests work.
- `MaxConnections = 1` (`RequestsRunInOrder`, `AllRequestsRun`, `NoFaultIsFound`): a client
  in recycled memory starts with a foreign `argc` and `req_type` (section 6, 9), and then
  nothing can be promised. Nothing is assumed of `linefeed_chars`: a peer that keeps to
  the protocol sends no inline requests.
- `[][~unknown_command /\ ~Reconnect]_vars` (`AssertionsHoldUntil`) and
  `[][~FailsLate]_vars` (`OnlyLateFailuresLeaveCommands`): the behaviours in which the step
  behind a finding is not taken.

The constants of `keyspace_refinement` and `resp_order` satisfy the first three.

### The arguments

- **Keyspace.** `ExpiresOnlyForKeys` is inductive with the types: `db_delete_key`
  clears both stores and `expire_command` only sets a deadline for a key it has just
  found. `AckedSetIsAlive` needs it, together with `StoredNamesAreCut`: a new key has
  no deadline because there was no key. The refinement shows each store through
  `Visible`, in which due keys are already gone; the deletion of a due key is
  then a stuttering step.
- **StringObjects.** Each action is an action of `Keyspace` on its variables
  (`ObjectsRefineKeyspace`), so what is proved there carries over. `ObjectsAreCounted`
  and `EntriesPointToValues` are inductive together with the types and with
  `LiveHaveStrings` (an object with a reference has a string): the object a SET takes is
  free, hence held by nobody, and the count an action gives up is that of the only
  holder. With `LazyExpiryIsInvisible` the refinement reaches `TtlMap`
  (`SharingIsInvisible`).
- **KvStore.** `KeyCountExact` and `TreeCountsItsVisitors` are inductive together
  with the types. An entry of the tree counts the names whose insertion visits
  it, so it is positive whenever a deletion visits it, and the assertion holds.
  `non_empty_dicts` is only an upper bound, because of section 6. `TreeAddsUp` needs that
  every index is an odd multiple of its lowest bit, so that the range an entry covers
  starts where the entry before it on the way down ends (`LowBitIs`, `TreePathIs`);
  the sum along that way is then the number of names in front, by induction over the index.
- **RespClient.** `ArgvFits` is the heart: arguments stored plus arguments missing
  are the size of the array, or there is no array. It holds across reads, resets
  and recycled memory only together with what is known at each `pc` (`Places`).
  `ErrorIsFinal` needs `Wedged`: after a protocol error the parser stands in front
  of the symbol that caused it, and every later read fails on it again. The
  refinement maps the position to the start of an argument whose length was read.
  For a well-formed stream the invariant is `Follows`. Its first half (`Place`) says that
  the parser is at one of the places of the script: between two requests, within one with
  its first arguments stored, or at the end of one, and that what was executed is the
  effect of the requests behind it. Its second half (`Waits`) says that a handler which
  returned had gone as far as it could: what it waits for has not arrived. `Place` gives
  `ExecutedInOrder`; with `Waits` a stream that was read completely has nothing left
  (`NothingLeftBehind`). At a place of the script no check of the parser fails
  (`NoFaultIsFound`). For any stream at all, `Clean` says that between two requests no
  argument is left over and a request type that is still set is that of the symbol ahead:
  it is broken by an unknown command and by recycled memory only
  (`AssertionsHoldUntil`).
- **ModuleLoader.** The invariant adds the state in the middle of an onload: the
  commands created so far belong to the library that is being loaded, and the
  modules before `next` are loaded. Without it a listed module could not be shown
  to own its commands. `FlagsSoFar` says of every command where its flags come from; that
  truncating a mask to an `int` and widening it keeps the bits below 19 is shown bit by
  bit. `BelongsToLoad` says that a command of a module belongs to a loaded one or to the
  load in progress; only an onload that fails after its first command breaks it.
- **StartUp.** One case per action: it is a step of `ModuleLoader` or a stuttering one.
  `BootInv` says for each place of `start_redis_server` what was read so far and what is
  left (`Remaining`): the path still to be edited leads where the argument leads, and
  settings and modules are those of the lines behind. That `Place` follows a path element
  by element, and that removing a "../" together with the last directory leads to the same
  place, is induction over the path (`PlaceSteps`, `ParentIsRemoved`).
- **EvictionPool.** Sorting and ownership are inductive with the types. Which slot the
  scan stops at decides the neighbours of the new key; a shift is described by where
  each slot comes from, and ownership is kept because the buffer put aside is the only
  one that the moved slots do not take along. For the refinement the used slots are a
  sequence (`Best`), and each way through the loop is an insertion into it, followed by
  dropping its head if the pool was full. A rejected sample is an insertion in front
  that is dropped at once. `IdleIsAMinimum` is arithmetic about remainders.
- **ReplyList.** `WellOrdered` says where in the calls of a handler the two calls
  about the placeholder stand. With it `PlaceholderIsFilled` is inductive, and
  `BlocksFit` needs to know of one NULL node only. For the refinement, `AddsOneReply` says
  that what the blocks hold, with the placeholder filled and the calls that are left, is
  what was queued and one complete reply. Every call keeps it, because a copy that is split
  over two blocks, glued to the one before or put in front of the next leaves the contents
  the same (`ProtoTotal`, `DeferredTotal`, `SetTotal`). That the calls of each handler make
  one reply, the help text of any number of lines included, is shown handler by handler
  (`HandlerReplies`).
- **Monitoring.** Cutting the log after an addition and cutting the history are the
  same (`CutAppend`). The ring needs `Len(recent) <= Samples`.

- **Induction.** The library's induction theorems take an operator as a parameter, which
  the provers cannot instantiate. The lemmas here say the same of sets and functions: a set
  of numbers with 0 and all successors is `Nat`, and a recursive equation has exactly one
  solution. They give the recursive functions of `KvStore`, `RespScript`, `ReplyList`,
  `ReplyStream` and `StartUp` their equations.

### What is only model-checked

Liveness (`AllExecuted`, `EveryCommandSampled`), which is beyond the prover: it needs
`ENABLED` and fairness. `AllRequestsRun` is the safety half of `AllExecuted`.

## 5. What is not modelled

- **latte_c**, except for the assumptions on its use. `add_reply_proto`, the write
  handler and the cron manager are modelled by what the server relies on.
- **Active expiry** (`redis/expire.c`, `crons/cron_expire.c`): not part of the build, and
  unfinished. Of **eviction**, what would take keys out of the pool: `performEvictions`
  is empty. **benchmark**: a load generator outside the server.
- **The content of slow log entries**: it depends on when latte_c calls the end of a
  request. `slowlog_entry_new` follows `lastcmd`, which is NULL after an unknown command.
- **Text settings** (`bind`, `log-file`), which differ from the others only in what the
  parser of latte_c accepts.
- **Fields without a reader**: `lru` stamps, `unixtime`, `reply_bytes`,
  `blocking_keys`, `watched_keys`, command statistics.
- **Unreachable branches**: values that are not strings, masters and replicas,
  authentication, output buffer limits, `db_get_expire`, `db_remove_expire`.
- **INFO**, which sends 16 bytes that are no RESP reply, and MODULE UNLOAD, MODULE
  LIST and unknown subcommands of MODULE, which send nothing.
- **MODULE without a subcommand** reads `argv[1]`, for which there is no check;
  commands of the table are not checked for their arity before they run.
- **Help, version and environment options**: text only.

## 6. Where code and documentation disagree

Shown by a run, with the finding in `PROJECT.json`:

1. An unknown command is not reset, and the next multibulk request fails the
   assertion at `redis/client.c:216` (`resp_unknown`).
2. `linefeed_chars` is not initialised (`resp_inline`; `redis/client.c:132`, `:180`).
3. A module that "is not loaded" leaves its commands (`module_failed`;
   `redis/module.c:87`).

Met while modelling, part of the models, and left without a run of their own:

4. EXPIRE of a live key that has a deadline answers "could not set expire" and keeps the
   old deadline (`redis/db.c:195`); `tests/commands/expire.tcl:3` is titled "EXPIRE on
   existing key returns 1".
5. EXPIRE of a key that is due but not yet deleted answers "could not set expire"
   where `tests/commands/expire.tcl:20` expects 0.
6. `seconds * 1000` overflows for large arguments, and the accepted deadline may be in
   the past (`commands/command_manager.c:172`).
7. A second SET of a name with a NUL byte fails the assertion of `db_set_value`
   (`redis/db.c:89`).
8. `non_empty_dicts` grows when a deletion leaves one name (`redis/db.c:148`).
9. A client in recycled memory may start with a foreign `argc` (`redis/client.c:478`).
10. The flags of a table word pass through an `int`: "fast" loses its category, so
    EXPIRE is `@slow`, and "@admin" is unknown (`commands/command_manager.c:88`).
11. The two slow log settings are swapped (`redis/server.c:159`), and a full log drops
    the newest entry (`redis/slowlog.c:107`).
12. `reply_bytes` is adjusted by `trim_reply_unused_tail_space` and
    `set_deferred_reply` but never initialised, nor increased when a block is added
    (`redis/client_reply.c:21` says what it should be).
13. The arguments of a client that leaves in the middle of a request are never freed
    (`redis/client.c:497`).
14. The rule for `hz` accepts 0 (`redis_config/config.c:120`), and `redis/db.c:64` divides
    by it when a key is added.

## 7. Plan

Built, in this order: `Keyspace` and `TtlMap`, `KvStore`, `RespClient` and
`RespStream`, `CommandFlags` and `ModuleLoader`, `ReplyList` and `ReplyStream`,
`Monitoring`, `StringObjects`, `EvictionPool` and `IdlestKeys`, `StartUp`, each with its
runs first and its proofs after.

Left:

- a module `Server` that composes parser, command table, database and replies, with
  two clients: replies reach the client that sent the request, in the order of its
  requests;
- the database on two `KvStore` instances, as a refinement of `Keyspace`: a failing
  step between the two stores, and the counters of both;
- the life cycle of clients (`free_redis_client`, `free_redis_client_async`, the list
  `clients_to_close`), once something calls it;
- eviction from the pool, once `performEvictions` is written.
