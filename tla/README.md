# CUDALM in TLA+

CUDALM is a C++17/CUDA inference runtime for a hybrid Qwen3.5 model (softmax
attention layers with a paged KV cache, DeltaNet layers with a recurrent state),
a serving layer on top of it and an HTTP server on top of that. This directory
holds TLA+ models of what the program *decides*: who owns which state and when
it changes, what is accepted, in which order things happen. TLC checks them on
small instances; TLAPS proves, for every value of the constants, what the state
manager, the model's forward, the scheduler, the serving controller, the HTTP handler and
the generators guarantee.

The program is single-threaded and uses one CUDA stream. The hard part is not
parallelism but protocol: a caller may admit, cancel, reset, poll and destroy in any
order between steps, clients vanish in the middle of an answer, memory runs out half
way through an operation, a batch falls back to single forwards, deadlines expire
between two steps, and every page and slot is recycled to another sequence. Around
it stand pure algorithms that are written by hand, often twice: readers of UTF-8
and of headers, a normalisation pass, a pattern matcher, merges, filters, file tables.

## 1. Inventory

| Component | State it keeps | Operations | What is hard | What makes it correct |
|---|---|---|---|---|
| `FixedIdPool`, `KvBlockTable` | LIFO free list, live flags; logical block -> page | acquire, release; ensure_capacity, clear | running out of pages half way | every id is live or free exactly once; growth is all or nothing |
| `Qwen35StateManager` with its KV page and DeltaNet slot pools | live sequences: slot, table, length; device pages and slots | create, ensure, set_length, advance, reset, retire | aliasing and leaks after a long mixed history; contents survive in recycled memory | one owner per page and slot, no leak, what is free is zero |
| `Qwen35Model` external-state forward | none of its own (scratch buffers) | forward_token, forward_batch | rows of a batch at different positions, aggregate page preflight | a batch is its rows one by one; a refused batch changed nothing |
| Decoder layers (`DecoderBlock`, full attention, DeltaNet) | stage buffers, KV, convolution and recurrent state | forward, timed, with state, batched | shared buffers that grow, stages in place, two paths over one state | the output of a row is a function of its own sequence |
| Weight formats and loaders | tensors of a file, device buffers | write, load, upload | one damaged field that passes; offsets; slots numbered by hand | what loads is whole; every projection fits its buffers and scales |
| `SessionManager` | session -> sequence, reset_count | create, reset, destroy | reset or destroy under a live turn | one sequence per session for its life |
| `Scheduler` | requests, counters | admit, admit_session_turn, cancel, step, run | batch fallback, failures after the commit, two stop conventions | sampled is not committed; a request ends once; run() returns |
| `ServingController` | quotas, tracked and pending requests, cursors, deadlines, activity times | create/destroy/reset session, admit_turn, cancel, step(_stream), run(_stream), poll, TTL and LRU eviction | deadlines, exactly-once delivery, eviction of a session with undelivered events | every committed token is delivered once, in order, before its terminal event; no busy session is evicted |
| HTTP handler, protocol, transport | one connection at a time, text sessions | read, route, turn, stream, reset, delete | segmentation, clients that vanish during a stream, limits | a request is over when its connection is; nothing is refused or accepted that should not be |
| Generators (`Qwen35Generator`, `SessionGenerator`, the text facades) | per-call state | generate, generate_turn | failure in the middle of a turn; the model's own state | the session is what was reported; turns are invisible |
| Tokenizer | tables of the artifact | load, encode, decode | merge order, ordering of marks, incomplete UTF-8, added tokens | they compute their definitions |
| Sampling | RNG | argmax, top-k, top-p, draw | ties, rounding, the gap below one | every kept token as often as its probability says |
| Command-line programs | options | parse | three parsers of the same options | the same configuration from the same options |
| CUDA kernels | device memory | launch | numerics, indexing | indexing where a model above depends on it; the rest is not modelled |

How they interact. The HTTP handler calls the controller, the controller the
scheduler and the session manager; the scheduler calls the session manager (reads),
the state manager (create, retire) and, through `SequenceForwarder`, the model; the
model calls the state manager (ensure, advance) and its layers, which write pages and
slots through the tables. All are direct calls that complete before the next begins;
the state manager and the scheduler's requests are the shared state. A session may be
reset or destroyed through the session manager without the scheduler or the
controller being told, and whoever holds the scheduler may cancel past the controller.

## 2. Modules

```
IdPool <-- StateManager <-- ModelForward --implements--> SequenceStore <-- Scheduler
              ^                  ^                        (abstract)          |
                                 |                                       implements
                                 |                                            v
                                 |                       ServingController -> Turns
                                 |                        ^      |        (abstract)
                                 |               HttpServing  implements
                                 |                        ^      v
                                 |                        |   EventStream (abstract)
  MCModel:  ModelForward, WeightTable, WeightContainer, LayerWeights, DecoderLayers
  MCHttp:   ServingController, HttpServing, HttpTransport, HttpRequests, HttpRouting,
            AdmissionGates
  MCGeneration: Generators, Utf8, Normalization, PreTokenizer, TokenizerTables,
                Tokenizer (MCTokenizer, over the artifacts of MCArtifacts),
                Sampling, SamplingOptions
  MCArtifacts, MCTokenizer, MCDecoderLayers, MCLayerWeights: instances of one module

  proofs:  StateManagerProofs <-- ForwardProofs
           Summation <-- ForwardProofs, SchedulerProofs, GeneratorsProofs, LayersProofs
           Summation <-- ServingProofs <-- HttpProofs
```

**State.** *IdPool* is a pool's data structure as operators on a record
`[free, live]`. *StateManager* is `Qwen35StateManager` with both pools and the block
tables, one action per operation. `ensure_capacity` is `GrowTable` (all pages acquired,
then appended) or `RollBack` (what was acquired goes back, zeroed, in reverse).
Contents are abstracted to *authorship*: a KV cell holds the id of the sequence that
wrote it (0 when zeroed); a DeltaNet slot, whose recurrent state is a fold over all
tokens since it was zeroed, the sequence of their authors. *ModelForward* composes
these operations the way `forward_token_with_state` and `forward_batch_with_state` do.
*SequenceStore* is its abstract specification: sequences are lengths, a sequence of *n*
tokens takes *ceil(n / PageTokens)* pages. `ImplementsStore` is the refinement, with
*len[q] = sequences[q].length*.

**Scheduler** is `Scheduler` with `SessionManager`, over `SequenceStore`. `step()` is
split (`BeginStep`, then `AdvanceSingle` or `AdvanceCohort` for a prefix of the
snapshot), so that invariants hold between any two advances. `queue` is what is left of
the snapshot, as a set: it is served in ascending ids, the order of the code's map.
`serial` is what is left of a cohort that did not fit and is advanced one by one
(`FallBack`). Inside an advance the code's chain (forward, count, commit, stop check, copy
of logits, sampling) is a chain of operators on a record of the state, because
`BatchIsSerial` compares two chains.
Token values are EOS or another; a failed copy or sampler is the outcome `fault`.
*Turns* is what it promises upwards: a live turn forwards one token at a time, commits
what it forwards after its input, and ends once (`ImplementsTurns`).

**ServingController** is the controller over *Turns*, so that its state stays small
without assuming anything the scheduler does not provide. `ctl` holds its maps
(`tracked`, `emitted`, `deadline`, `terminal_pending`, `deadline_cancelled`,
`activity`), `now` the steady clock, `loop` the iteration of `run` or `run_stream`,
`log` what the callers were given. A step is `StepDrive` (expired deadlines, the
scheduler's step, the drain); `run` and `run_stream` are one action per iteration.
`config` is a controller's limits and policy, chosen once. *EventStream* is the
abstract stream: committed tokens in order, once each, then one terminal event.
**AdmissionGates** is the arithmetic of the three length gates, with `int` of
`IntBits` and `long long` of twice that; an expression that overflows may be evaluated
in exact or in wrapping arithmetic, all its sums in the same.

**HTTP.** *HttpServing* is the handler over the controller, a phase for each point at
which a client may vanish: synchronous turn, streaming turn (header, then step and
write), cleanup. `conn.passes` counts the iterations of the streaming loop, which gives
up at `StreamCap`. *HttpTransport* reads one request from segments of any size,
*HttpRequests* compares the scan that decides how much to read with the parser that
says how much there is, *HttpRouting* the validation of the two turn endpoints, written
out twice in the code as a sequence of early returns.

**Generation.** *Generators* is the one-shot generator, the session generator and the
text facade, one action per forward, over one model that is a function they all ask
(`Learn` fixes an answer when it is first asked for). *Utf8*, *Normalization*,
*PreTokenizer*, *Tokenizer*, *TokenizerTables*, *Sampling* and *SamplingOptions* are
the algorithms as operators or step by step, beside a reference definition: the table
of well-formed sequences, UAX #15, the meaning of the pattern, merging rule by rule,
linear search, the nucleus as a set.

**Weights and layers.** *WeightTable* (version 1) and *WeightContainer* (version 2) are
the writer's layout, a damage (one field changed, or the file cut short) and the
loader's walk, check by check. A version 2 section may stand elsewhere than written if the
loader's checks let it: its config is then any bytes, valid or not. *LayerWeights* takes a valid config and a file of a
layer's tensors through validation and upload into slots, to the N and K of every
linear. *DecoderLayers* is each layer as the stages it launches; a value is the *term*
it was computed by, so that data of an earlier call or another row shows. It stands
above the paged addressing, which is ModelForward's.

**Compositions by parts.** `MCModel`, `MCHttp` and `MCGeneration` compose several
modules side by side (those that are proved about are extended, so that run and theorem
speak of the same definition, the others are instantiated): a variable `part` says which one a behaviour is of, the others'
variables stay as they are. Parts do not interact (where components do, one module
extends or instantiates the other); they share a run because they answer one question
about one subsystem, and each property speaks of one part. `MCGeneration` has *Generators*
twice: as the configuration bounds it, and (`Longer`) with a run more of shorter turns.

## 3. Runs

| Run | Distinct states | What it shows |
|---|---|---|
| `StateManager` | 173,955 | types, exact pools, no aliasing, no leak, isolation |
| `Scheduler` | 397,183 | commit contract, conservation of tokens and counters, admission, run() returns, refinement of Turns |
| `SchedulerCohort` | 1,887,492 | no abort, ownership of sequences, batch = serial, with three rows |
| `Http` | 1,124,923 | the controller: delivery, deadlines, convergence, which sessions may be evicted and what for; the server: a request is over with its connection, answers are whole, lengths are exact, two endpoints agree, the server returns |
| `Generation` | 1,963,000 | algorithms = definitions; three generators and three option parsers agree |
| `Model` | 672,823 | state = own tokens, batch = rows, whole files, fitting weights, rows of layers, refinement of SequenceStore |
| `SchedulerReset`, `LegacyGate`, `SplitBody`, `TwiceAdded`, `TimedStages`, `GroupSize` | (violation) | section 4 |

Bounds, and why they are enough for the questions asked:

* `StateManager`: 3 pages of 2 cells, sequences of 3 tokens, 2 slots, 3 ids ever
  (`MaxId`). Two live sequences need 4 pages, so every growth can fail at its first or
  second page; a third id takes over pages and slot of a retired one. `MaxFolded` bounds
  the tokens folded in one slot, since `SetLength` may rewind without end.
* `Scheduler`: two requests with prompts of 1 or 2 and up to 2 new tokens over 3 pages of
  2 tokens, one reset per session. `SchedulerCohort`: three requests over 4 pages: all
  three decode in a batch that fits, then in one that does not. `MaxRequests` bounds
  admissions.
* `Http`, part `controller`: *Streaming* has two sessions, two turns of one input and up
  to two new tokens, and deadlines before and after every step; *Evicting* two sessions
  allowed over three slots, one made outside the controller, a TTL of one tick and LRU
  under pressure, so that a creation may expire sessions, evict one and take its place, or
  expire some and still be refused at the limit. (An eviction followed by a failure for
  want of a slot does not occur: there is a slot for every session counted, and sequences
  made behind the session manager's back are not modelled.) `time` bounds the clock (Tick
  stops), `creations` and `admissions` the ids.
* `Http`, part `serving`: the controller of *Streaming* with a turn that generates nothing,
  and another user who drives it. `StreamCap` (7) stands for the code's 1,000,000 passes.
  `HttpAssumption` requires of it that no admitted turn needs more forwards, which holds of
  the code, since a turn is no longer than the model's context of 262,144
  (`qwen35_config.h:155`); that the loop then ends by itself is proved (section 5). The other parts: segments of up to three units against limits of six and
  three; numbers of up to four digits against a word of four; every combination of
  checks a route can fail; a 5-bit `int` with every `max_new_tokens` it can hold.
* `Generation`: byte strings of up to four bytes at both ends of every class; texts of
  four code points over starters, three marks of two classes, composites of composites
  and a singleton; texts of four over all classes the pattern tells apart; two bytes,
  vocabularies of four tokens, all lists of two merges, texts of up to six bytes; four logits of
  four values with five `top_p`; turns of two tokens in and out, or three turns of one,
  within four positions; up to three options.
* `Model`: 4 pages, 3 slots, batches of three rows in every order; tables of up to three
  tensors in v1 and two in v2, shapes below, at and above one alignment unit; configs with widths below, at and
  above the hidden size, every width once not a multiple of the group, with `KernelGroup` =
  4 for the kernels' 128, and files with groups of 2; four calls over the
  layer's own state and two sequences of up to four tokens, in any mix of paths.

`CHECK_DEADLOCK FALSE` is given where a model stops by itself: an id bound or a length
is exhausted, or a pure algorithm has come to its result (`StateManager`, `Generation`,
`Model`, and the small violation runs). It is on for the scheduler, the controller and
the handler, where it shows that no call in progress is ever stuck.

**Fairness.** `Scheduler`: inside `step()` or `run()` the program does not halt, because
the calls never wait; it is written as what weak fairness of the driver means when the
driver is enabled exactly while a call is in progress. `HFairness` says the same of the
HTTP handler, whose steps are those that are not the clock's. `WF_connection` of the
transport's `Server` steps: `recv` returns, with data, an end or its timeout
(`SO_RCVTIMEO`). No caller and no client has to do anything: `RunReturns` and
`ServerReturns` hold although forwards fail, clients stall and deadlines expire.

Each property was seen to fail when one definition of the model is replaced by its
mutant (the operators commented "Mutant of ..."), a plausible slip in that code.

## 4. What the runs found

* **Reset of a busy session** (`SchedulerReset`). `SessionManager::reset_session`
  empties the sequence without looking for a live turn. The turn goes on in the emptied
  sequence, which then holds a suffix of it; `session.h:36-37` promises a session that
  behaves exactly like a fresh one. (`destroy_session` under a live turn is harmless: the
  turn fails at its next forward.)
* **Overflow in a gate** (`LegacyGate`). `Scheduler::admit` adds in `int`;
  `admit_session_turn` in `long long`. For a prompt of two or more tokens the sum passes
  `INT_MAX`, wraps, and the request is admitted. The controller's policy cap
  (`serving_controller.cpp:114`) adds in `int`, too; there the scheduler's gate still
  stops the turn (`LengthsExact`).
* **A split body** (`SplitBody`). Body bytes that came with the header block are taken
  twice when the rest comes later: `read_request` passes `head + body`, and `head` still
  ends with them.
* **Added tokens spelled alike** (`TwiceAdded`). The check for duplicates compares
  neighbours in a table that is ordered by id.
* **Events never recorded** (`TimedStages`). Two stages of the full-attention layer were
  fused; `forwardTimed` still asks for the times of events 29 and 30.
* **Groups of another size** (`GroupSize`). `Qwen35Config::valid` and `validate_layer` take
  any `group_size` that divides the widths and ask for one scale each `group_size`
  elements; the GEMV kernels stride the scales by K / 128 (`int4_gemv_bf16.cu:81`), as
  `weight_loader.h:60` says of every projection. With K a multiple of 128 nothing stops
  them, and they apply scales of other rows and groups. Version 1 insists on 128
  (`weight_loader.cpp:168`); `ScalesOfTheirGroups`, in the run `Model`, is said of files
  whose group is 128.

Met while modelling, and described here without a run of their own:

* `max_header_bytes` is compared with everything received so far, body bytes included
  (`http_transport.cpp:114`), while `http_protocol.h:67` limits the header block.
* `cudalm-chat` samples when only `--seed` is given (`cudalm_chat.cpp:158`); the usage
  text claims the rules of `cudalm-generate`, which ignores a lone seed.
  `ChatMirrorsGenerate` says they agree in all other cases.
* A turn whose text does not encode reports `context_length` 0
  (`session_text_generator.cpp:81`) for a session that may hold turns.
* `qwen35_tokenizer.cpp:7` says "NO reordering" of a pass that sorts marks. The comment at
  `:918-929` tells how ("NOT sort everything, then compose": marks are sorted a batch at a
  time, and composed in the same pass); `NormalFormIsStandard` shows that the result is
  that of sorting first and composing then, as the standard has it, also where the comment
  sees a difference.
* The version 2 loaders do not check that tensors' regions are apart
  (`weight_loader_v2.cpp:211-226`, `golden_loader_v2.cpp:173-188`), as those of version 1 do
  (`weight_loader.cpp:149-154`): a damaged offset that stays in the payload makes a tensor
  read its neighbour's bytes, and the file loads. No document promises otherwise, so
  `LoadedIsWhole` claims the very bytes of every tensor for version 1 only, and for
  version 2 bounds, and the bytes of all tensors but the damaged one. Nor does the version
  2 loader tie the config section to the end of the header.
* The id of a single-byte token is stored in one byte (`qwen35_tokenizer.cpp:657`), so an
  artifact with such a token behind id 255 loads and encodes other bytes; an added token
  of length 0 is accepted (`:719`) and `encode` then stays where it is. The runs use
  artifacts with byte tokens first and no empty added token, as the converter writes them.
* `WeightFileV2::load` leaves the object as it was when it fails (`weight_loader_v2.cpp:49`),
  its header promises an empty one; the arch of an earlier file survives a load of a file
  that names none (`:240`). The Python writer does not check the charset of names the
  loader insists on.

## 5. Proofs

Every statement here is proved for all values of the constants that the named
assumption admits; the runs of section 3 check the same formulas on instances.

**State manager** (`StateManagerProofs`; `ConstantsAssumption`: any number of pages and slots, any
page size, sequence length and id bound).

| Theorem | Statement |
|---|---|
| `OwnershipHolds` | `Spec => []Ownership`, the inductive invariant |
| `TypeCorrect`, `PoolsExactHolds`, `NoAliasingHolds`, `NoLeakHolds` | its conjuncts |
| `IsolationHolds` | `Spec => []Isolation` |

None of the four properties is inductive alone: releasing a table is sound only if its
pages are live (`NoLeak`) and distinct (`NoAliasing`), acquiring only if what is on the
free list is held by nobody (`PoolsExact` with `NoLeak`). `Ownership` is their
conjunction, with `TypeOK`. Every action either holds things fixed (`SameHoldings`), moves
ids from a free list to one sequence (`GrowOwnership`, `CreateOwnership`), back
(`ClearFacts`, `ResetOwnership`, `RetireOwnership`), or there and back
(`RollBackRestores`: the rollback leaves the pool as it was). What one acquire or release
of a sequence of ids does to a free list and a live set (`AcquireFacts`, `ReleaseFacts`) is
stated for any pool and used for both. `Isolation` is inductive relative to `Ownership`:
a write goes to a page of the writer's own table, and no page changes hands without being
zeroed.

**Forward** (`ForwardProofs` over `StateManagerProofs`;
`ConstantsAssumption`, and batches of any positive size, `MaxBatchAssumption`). The
specification is `ForwardSpec`: sequences are created, reset and retired, and forwarded
alone or in batches of any rows.

| Theorem | Statement |
|---|---|
| `ForwardInvariant` | `ForwardSpec => []Inv`, the inductive invariant |
| `ForwardIsCoherent` | `ForwardSpec => []Coherent`: slots, cells and free pages are those of the sequences' own tokens |
| `ForwardKeepsApart` | exact pools, no aliasing, no leak, isolation, under the forward too |
| `ForwardImplementsStore` | `ForwardSpec => ImplementsStore`, the refinement of `SequenceStore` |
| `ForwardInParity` | `ForwardSpec => []RowsInParity`: a batch leaves what its rows leave one after the other, and is refused exactly when one of those would find no page |

`Inv` is `Ownership /\ Isolation /\ Faithful`. `Faithful` says that every live sequence is
`Whole`: its slot has absorbed *length* tokens, all its own, its table has
`PagesFor(length)` pages, their cells below *length* are its own and those above are zero.
`Coherent` follows from `Inv` by counting (`PoolCount`, `PagesCount`, `SlotsCount`) and is
not inductive without it: that the right number of pages is free does not say that no
page is shared. Isolation follows from wholeness as well (`SaneIsInv`), so a batch has
to be shown to leave sequences whole and to own what they own, and no more.

A batch is a fold of the library over its rows, each of which may take a page, followed by
one pass of the layers over all of them. The preflight checks a *sum* of needs against the
free pages once, before any row is ensured; `NeedsNat` and `GrownByOne` show that the rows
not yet ensured still find theirs. The fold's order is `CHOOSE`n, and its unfolding is
not a theorem of the library: `FoldExists` gives a function on the sets of places that
computes it, and `FoldGrown` follows by a minimal counterexample, as in `Summation`. Then
`AuthorHeld` says who writes a cell: the sequence that holds its page, at its own length,
whatever the other rows' lengths are; it needs `NoAliasing`, and that a row's next
position is in its table (`TargetFacts`). With it `LandedWhole` and `LandedSane` show
that each row has one token more and every other sequence is as it was.
The refinement maps an admitted batch to `Forward(ids)` and a token that found no page,
whose pages roll back, to a stutter;
`NeedsCount` shows that the sum the code checks and the count of rows that begin a block,
which `SequenceStore` checks, are the same number.

`RowsInParity` compares two folds, of ensuring all rows before one pass of the layers and
of whole forwards. `OneRowLater` is the commutation it rests on: a row that is ensured
after the others were forwarded gets the page it would have got before, and writes what
none of them writes; so *both* sides, on any of the rows, obey the recursion of the second
fold (`TogetherOneMore`), and `OneByOne` follows because that recursion has one solution.
For the preflight, `NextFits` says that after *k - 1* rows the *k*-th finds its page
exactly when the first *k* needs fit into the free pages together, and `AllFit` takes the
first row that does not. The equality is of whole stores, order of the free list included.

**Scheduler** (`SchedulerProofs`; `SchedulerAssumption`: any sizes, any finite sets of
prompt lengths and limits, batching or not).

| Theorem | Statement |
|---|---|
| `SchedulerIsSafe` | `Spec => []Safe`, the inductive invariant |
| `SchedulerNeverFatal` | `scheduler_fatal` is never called, `run()` stays within its bound |
| `SchedulerCommits` | every request samples, commits and stops as its kind promises |
| `SchedulerConserves` | sequences hold what was forwarded into them; the counters add up |
| `SchedulerAdmitsEnough` | what a live request may still forward has a position |
| `SchedulerOwns` | the live sequences have one owner each |
| `SchedulerImplementsTurns` | `Spec => ImplementsTurns`, the refinement of `Turns` |
| `SchedulerBatches` | `Spec => []BatchIsSerial`: a batch leaves the requests, lengths and abort flag that its rows leave one after the other, whatever is sampled and whatever fails |

`Safe` is `TypeSound /\ OwnersSound /\ LoopSound /\ AdmissionCovers /\ Conservation /\
NeverFatal`. `NeverFatal` rests on all of it. A retire aborts when the sequence is not
live: `OwnersSound` says that a live legacy request owns a live sequence alone.
A decode aborts when nothing is pending, and `CommitContract` does not exclude that:
`Underway` (in `TypeSound`) ties the tokens sampled to the forwards made, so that a
request past its prompt that is still live has exactly one token to forward.
`run()` aborts past its bound, which is computed from the requests that live when it
begins: `LoopSound` says that every live request has been forwarded once in each
iteration, so that the iterations never exceed the forwards of any of them.
`Conservation` compares sums over all requests with lengths and counters; a batch raises
as many terms at once as it has rows. The library's sum is a fold whose order is
`CHOOSE`n and which has no theorems here; `Summation` shows that such a fold exists and is
unique on finite sets (`RecursionExists`, `RecursionUnique`), that the sum unfolds at any
element (`SumOfNaturals`), is above each of its terms (`SumAboveElement`) and rises by the
number of the terms that rise (`SumRaised`). Induction over finite sets is not available
as a theorem with an operator parameter, so these lemmas take a minimal counterexample
(`SmallestSet`). The refinement maps a step that advances several requests to one step of
`Turns`, row by row (`AdvancedTurn`).

`BatchIsSerial` compares two chains of operations from any safe state. The serial side is
a fold whose later rows run in what the earlier ones left, retired sequences included.
`OneRowMore` describes that state for any part of the rows (each of them settled as it
would be alone, the others untouched) and shows that the single advance of one row more
leads to the description of the larger part; the fold obeys the same recursion, largest
row last, so it comes to the description of all rows (`SerialLeaves`, by the smallest part
where the two would differ), and `BatchLeaves` says that the batch does. The step needs
that the next row still finds a page (`NextRowFits`): the batch's preflight counts the new
blocks of all rows against the pages of now, and `PagesLater` shows, over the sum of
pages, that rows which advanced or retired meanwhile take no more than that.

**Serving controller** (`ServingProofs`; `ServingAssumption`: every set of
configurations, with or without TTL, LRU, quotas and deadlines).

| Theorem | Statement |
|---|---|
| `ServingIsSafe` | `Spec => []Safe`, the inductive invariant |
| `ServingForgetsNothing` | a request is tracked exactly until its last event is delivered or dropped |
| `ServingConverges` | `run` and `run_stream` never exceed their bound |
| `ServingStreams` | `Spec => ImplementsStream`, the refinement of `EventStream` |
| `ServingStopsAtDeadlines` | a turn whose deadline has passed commits nothing more |
| `ServingEvictsSafely`, `ServingEvictsForAPlace`, `ServingExpiresTheIdle` | who may be evicted, what for, and when |

`Safe` is `CountersSound /\ Sound(World) /\ Remembered(World) /\ ActivitySound /\ LoopSound
/\ ~fatal`. `Sound` is a predicate of a *world*, the value that the operations of one call
pass on, because a call is a chain of them (expire deadlines, step, drain, refresh); it
holds after each of them, `Remembered` only between two calls. `LogExact`, in `Sound`,
relates what the caller was given to the cursor: the tokens up to it while a request is
tracked, and afterwards everything, or a prefix if `run()` dropped the rest.
`Remembered` (an ended request that is tracked is in `terminal_pending`) is
what makes the drain find the last events: without it a request could end in a call that
does not drain and never be delivered. `ActivitySound` says that the recorded activity is
never older than a session's last sign of life, which is what a TTL relies on. `LoopSound`
is the scheduler's argument one level up. The first part of `ServingProofs` shows what each
operation does to a world: steps `Advance` it (turns and streams only go forward,
transitively), evictions and destroys `Shrink` it. The second composes the calls from these.

**HTTP handler** (`HttpProofs`; `HttpAssumption`: the bound of passes is above the length
of any turn).

| Theorem | Statement |
|---|---|
| `HttpIsSafe` | `HSpec => []HSafe`, the inductive invariant |
| `HttpUsesController` | `HSpec => Spec`: the controller's theorems hold under the server |
| `HttpLeavesNothing` | `HSpec => []NothingLeftBehind` |
| `HttpAnswersOwn` | `HSpec => []AnswersAreOwn` |

`HSafe` is the controller's `Safe`, with `ConnSound` and `BudgetsFit`. `ConnSound` says for
each phase which call of the controller it waits for (`CallSound`: when `run_stream` or the
cleanup's `run` has returned, nothing is tracked), whose request it serves
(`RequestSound`), and what was sent (`SentSound`): while a stream's request is tracked,
what was sent is what the controller's log has of it; once it is not tracked, all of it,
the end included. `AnswersAreOwn` is not inductive without the first half: a line is
appended to what was sent, and to know the result one has to know what came before.
The 200 of a stream that ends because nothing is live, or because of the bound of passes,
is complete because no pass leaves a request behind: `passes` never exceeds the forwards
of a live request, and forwards never exceed `StreamCap` (`BudgetsFit`).

**Generators** (`GeneratorsProofs`; `GeneratorsAssumption`: any tokens with an
end-of-sequence token among them, any length of the sequence and any bounds).

| Theorem | Statement |
|---|---|
| `GeneratorsAreSound` | `Spec => []IInv`, the inductive invariant |
| `GeneratorsExact` | `Spec => []ResultsAreExact`: a turn leaves the session with what its result says; a one-shot run stays in the sequence and forwards what it must |
| `GeneratorsCutInvisibly` | `Spec => []TurnsAreInvisible`: the same tokens told give the same tokens back, whichever engine and wherever they were cut into turns |

`TurnsAreInvisible` compares two runs of the past, which may lie any number of runs apart.
`IInv` replaces the comparison by what each run is by itself: every generated token is the
model's answer to exactly what was told and generated before it (`Answered`), no token but
the last one stops the run (`NoneStops`), and the run's end is what that last token and the
limit call for (`Whole`). For this to stay true of runs that are over, answers must not
change (`Learned`: the model is only added to), and for it to become true of a run under way
the engine's state, which survives from one turn to the next and is emptied by a reset and
by each one-shot run, must be the context, the input fed so far and the tokens committed
(`InputSound`, `GenerateSound`). Then two runs that were told the same cannot differ: at
the least index where they would, both tokens answer the same question (`SameAnswers`), and
neither can be shorter (`NotShorter`), since its last token would have stopped the other.
`ResultsAreExact` is not inductive either: that a failed turn reports the committed tokens
and not the sampled one rests on `committed` being one behind while a turn generates.

**Decoder layers** (`LayersProofs`; `DecoderLayersAssumption`: any of the three kinds, any
finite set of sequences, any positive `max_seq_len`, any positive sizes of the config, any
number of calls).

| Theorem | Statement |
|---|---|
| `LayersInvariant` | `LayersSpec => []LayersInv`, the inductive invariant |
| `LayersRows` | `LayersSpec => []RowsAreTheirOwn`: at the end of a call every row's output is the layer's function of its own sequence, and no kernel outgrows its buffers |
| `LayersHistory` | `LayersSpec => []StateIsHistory`: between calls recurrent and convolution states are those of the sequence's own tokens |

The properties speak of the end of a call and of the time between calls, a step is one
stage; `LayersInv` is what holds between two stages. `BuffersSound`: every buffer that a
stage behind the call's has written holds the term of that buffer for the row's sequence
and position (`TermOf`). `StateSound`: caches, convolution and recurrent state of *every*
sequence are those of its own tokens, one more than `len` during a call once the stage that
takes the token into that state is behind (`Held`). `CallSound`: the rows are sequences
apart, each at its next position, and fit what the batch buffers were grown to. `Shapes`
gives the domains. The buffers survive a call, so a stage that read a buffer before its
writer would find another call's values: it is shown for every stage of each kind that it
reads only what stages before it wrote, that no other stage writes what it writes, and
that what it computes from the terms is the term. A state of a sequence outside the call is
not touched, and a row's is written only by its own row because rows are sequences apart.
`RecState`, the fold of a sequence's tokens, is a recursive function; that it exists is
shown by the least length up to which none would. `WidthsFit` needs that
capacities only grow and that a product grows with its factors (`Summation`).
A term is uninterpreted here: that two forwards yield the same term says that they apply
the same operations to the same inputs, not that their roundings agree.

**Model-checked only.**

* `RunReturns` and `ServerReturns`: liveness under fairness is out of the prover's reach.
* `NormalFormIsStandard`, `MatcherMeansPattern`, `MergesAsLearned`, `LoadedIsWhole`,
  `LengthsExact`: they say what a recursive walk over its data computes (a text, a list
  of merges, a file, a header), and their modules use recursive operators or folds over
  sequences; induction over data is not available.
* `ReadersAgree`, `DrawsFromNucleus`, `ScalesOfTheirGroups`: statements over finite tables
  and small inputs, which TLC exhausts.
* `EndpointsAgree`: the combinations of checks a route can fail are finite, TLC goes
  through all of them. `ServerMirrorsGenerate`: command lines of up to three options.

## 6. Not modelled

* Numerics of layers and kernels, the bits of SplitMix64: real-valued data flow. In
  `DecoderLayers` a term stands for a value; in `Sampling` small integers for
  probabilities.
* CUDA kernels beyond the addressing of the batched paged write and the stages' reads and
  writes, in particular their reductions and tilings inside a block, where threads share
  memory between barriers. (Reading them, the reuse of shared memory between the maximum
  and the sum of a softmax, with no barrier between the two, deserves a look.) Work on
  one stream runs in program order; a CUDA error aborts the process.
* The tokenizer's fixed header numbers, checksum and field reading; the tables of Unicode
  themselves.
* The parsers of the Python tools, whole-model embedding and norm checks
  (`validate_full_model`), the shapes of golden stages; sums that wrap near 2^64.
* The forward of the micro-stack, which chains four layers; `load()` and the internal-state
  forward of the model other than as `Generators` uses it.
* A cancel that goes to the scheduler past the controller: its interface lets an owner of
  both do it, the server never does. A sampling that fails in the middle of a generation
  (in `Scheduler` it is modelled). The pre-tokenizer's guard of 1,000,000 repetitions
  (`qwen35_tokenizer.cpp:434`), which no text of a run's size reaches.
* Counters of the controller's `stats()`, calls it refuses (they change nothing), the seam
  that makes a destroy fail in tests; `reset` of the pools, which only tests call; a
  release of an id that is not live, which no owner makes.
* A text that does not decode at the end of a turn; the text of answers; endpoints that
  only read. The console loops of the programs, whose state is the session manager's and
  the generators'.

## 7. Plan

1. Proofs: the session gate of `AdmissionGates` for every width; the transport's limits
   for any segmentation.
2. Models: the micro-stack's chain of layers, the internal-state forward of the model, a
   reduction kernel with its barriers.
3. Larger instances where the runs leave room: a third row in `Model`, a second turn in
   *Evicting*.
