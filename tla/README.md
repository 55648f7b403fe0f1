# Verification of Torob Ticket

TLA+ models of the travel comparison service in `backend/` and its results page in
`frontend/`,
the TLC runs that check them on small instances, and theorems that TLAPS checks
for every value of their constants. The models are translations of the code; a
definition's comment and the `map` of `PROJECT.json` name the lines it stands
for. Paths below are relative to the repository's root.

Run a check with `tlc -config SearchJobs.cfg MCSearchJobs` and a proof with
`tlapm SearchJobsProofs.tla`.

## 1. The system

A browser page creates a search job over HTTP and polls it. The job waits for one
of a few slots and then asks the orchestrator, which asks every suitable provider
adapter, for each leg of the trip; offers are normalised, saved for the details
pages, deduplicated, grouped and ranked. The backend is one asyncio event loop in
one process: no shared state between threads, nothing persisted, and every `await` that suspends is a
point at which others run. What is hard is therefore what happens *between* awaits.

| component | state | operations | works with | what is hard | what makes it correct |
|---|---|---|---|---|---|
| search job service, `services/search_jobs.py` | tasks, semaphore, `_closed` | `submit`, `get_status`, `_run`, `aclose` | store, orchestrator, lifespan of `main.py` | cancellation at each suspension point, slots, shutdown | no job lost or settled twice, no slot lost, closed means closed |
| search job store, `repositories/search_job_store.py` | ordered records with expiry | `create`, `mark_*`, `get` | job service | full store, expiry of live work | never drops active work, bounded, settled is final |
| job wire contract, `schemas/search_jobs.py`, `contracts/` | – | the answers to a poll | page | sequences of answers | one life cycle, result xor error |
| shared provider search, `services/search_orchestrator.py:445-519` | in-flight table, waiter counts | `_search_adapter`, `_load_adapter_results`, done callback | admission, raw cache | joins, completion and cancellation cross | the count is exact; nobody's search is stopped by another; one search per key |
| raw result cache, `search_orchestrator.py:53-100` | LRU with expiry | `get`, `set`, `discard` | shared search | limit, staleness, abandoned results | bounded, keys unique, abandoned results not kept |
| admission, legs, persistence, `search_orchestrator.py:147-440` | semaphore, warnings | `search`, `_search_leg` | jobs, nearby dates | timeout against hand-over, one leg of two failing | slots conserved, a failing provider never takes another's offers along |
| offer repository, `repositories/offer_repository.py` | LRU with expiry | `save_many`, `get` | orchestrator, details | eviction of what is on screen | bounded, last search complete |
| adapter context, `adapters/shared/context.py` | LRU with expiry | `save`, `get` | adapters, raw cache | ages differently from the offers it explains | an offer on sale has its context |
| provider HTTP, `adapters/shared/http.py` | slot, deadline, attempts | `request` | adapters | deadline in any phase, retry count, Retry-After | at most the allowed attempts, slot returned, deadline kept |
| nearby dates, `services/nearby_dates.py` | – | five probes, three slots | orchestrator | partial failure | "sold out" only if everybody answered |
| location search, `services/location_search.py` | per-adapter cache | `search` | adapters | timeout and fallback mixed, two limits | suggestions are what providers confirmed; the very name typed comes first |
| grouping, ranking, normalisation | none | pure functions | orchestrator | identity, ties | no offer lost, duplicated or mispriced |
| provider adapters, `adapters/*/` | context, catalogue, polling | `search`, `search_locations`, details | HTTP, context | bounded polling, lookups in a gather, rows with several defects | unfinished or unreadable is never "none available"; offers are for the search that was made |
| results page, `frontend/components/results-workspace.tsx` | run in progress, results | search, poll, abort | job API | a new search while the old one awaits | the old run touches nothing of the new |
| city combobox, `frontend/components/city-combobox.tsx` | cache, pending map | type, choose | location API | late answers | suggestions belong to the text shown |

The other parts (application wiring, routers, domain models, parsing, branding,
proxies, views) are listed in `PROJECT.json` with the reason they are left out:
they hold no state of their own or only convert data. The PHP original that the
repository's README mentions is not part of this tree.

`PROJECT.json` lists the hazards of the code, each at its line, with the
properties that would catch it. Four have none: what a late suggestion does to the
combobox, a provider search told to stop at shutdown, the stations the Alibaba bus
adapter never forgets, and the jobs of abandoned searches; each says why.

One rule is behind most of the modules. The backend answers with one of three
words, *offers*, *none* or *unavailable*, and passes them on from the row of a
provider (`ProviderRows`) to the answer of an adapter (`ProviderSearch`), of a search
and of a date (`SearchAdmission`), of a job (`SearchJobs`) and to the screen
(`ResultsPage`). At each level something may fail, come late or be replaced, and at
each level the question is whether the word that comes out is one somebody said.

## 2. The modules

| module | role |
|---|---|
| `SearchJobLifecycle` | abstract specification: the answers a polling client may see |
| `SearchJobs` | job service, its store and the semaphore between them |
| `MCSearchJobs` + `SearchJobs.cfg` | instance for TLC |
| `SearchJobsProofs` | inductive invariants of `SearchJobs`, safety theorems, action properties, and that it implements `SearchJobLifecycle` |
| `SharedSearch` | abstract specification: what those who ask a provider for the same thing at once may count on |
| `AdapterSearch` | the shared provider search and its raw result cache |
| `MCAdapterSearch` + `AdapterSearch_safety.cfg`, `AdapterSearch_liveness.cfg` | instances for TLC |
| `AdapterSearchProofs` | inductive invariants of `AdapterSearch`, safety theorems, and that it implements `SharedSearch` |
| `SearchAdmission` | admission, legs and answers of a search, and the nearby-date probes |
| `MCSearchAdmission` + `SearchAdmission_slots.cfg`, `SearchAdmission_answers.cfg` | instances for TLC |
| `SearchAdmissionProofs` | inductive invariant of `SearchAdmission`, safety theorems, what answers say |
| `AsyncSemaphore` | the semaphore of Python 3.12, external, extended by `SearchAdmission` and `ProviderHttp` |
| `AsyncSemaphoreProofs` | lemmas on what each operation of the semaphore does to its slots and its line |
| `ProviderHttp` + cfg | one provider's requests: slot, deadline, attempts, back-off |
| `ProviderHttpProofs` | inductive invariant of `ProviderHttp`, slots and retries |
| `ProviderAdapters` | the fourteen adapters, which the next two are about |
| `ProviderSearch` + cfg | what each of the fourteen adapters does between a search and its answer |
| `ProviderRows`, `MCProviderRows` + cfg, `ProviderRows_shape.cfg` | how each adapter reads a list of rows |
| `LocationSearch`, `MCLocationSearch` + cfg | city suggestions: fan-out, fall-back, merge, limits |
| `ProviderProofs` | what "none" rests on and stray calls, of `ProviderSearch`; one lemma per reader and what becomes of a whole list, of `ProviderRows`; what sorting, cutting and merging do to suggestions, of `LocationSearch` |
| `OfferContext`, `MCOfferContext` + cfg | raw results, adapter context and saved offers, and how they age |
| `OfferContextProofs` | inductive invariant of `OfferContext`, what can be opened, normalised and found |
| `ResultsPage` + cfg | the page in the browser, over an instance of `SearchJobLifecycle` |
| `ResultsPageProofs` | inductive invariant of `ResultsPage`, what the screen shows |

`SearchJobs` takes a search as one step that ends somehow; `SearchAdmission` shows
that it ends and what it says. `SearchAdmission` takes a provider's answer as one
step; `AdapterSearch` shows how it is shared, `ProviderSearch` how it comes about and
`ProviderRows` what it is made of. `ProviderSearch` takes a call as answered or
failed, which `ProviderHttp` shows it always is. `ResultsPage` contains the life
cycle that `SearchJobs` is proved to implement.

### SearchJobs

An action is what one task does between two suspension points. The store's lock
and the service's `_lifecycle_lock` are never held across an await that suspends,
so they are never contended, and a store call, `submit` and the first half of
`aclose` are one step each.

| code | model |
|---|---|
| `_jobs` (OrderedDict of records) | `jobs`, a function on the kept identifiers |
| uuid4 identifiers | their rank in order of creation; `issued` counts them. A transition reassigns a key in place, so the dictionary's order is the numeric order |
| where a job's task is suspended | `task[id]`: created, waiting, granted, searching, ended, unstarted |
| `Task.cancel()` called | `cancelled` |
| `asyncio.Semaphore._value`, `_waiters` | `free`, `waiters` |
| `_closed`, and `aclose` having returned | `lifecycle` |
| `time.monotonic()` | `now`; `Tick` may happen at any point |
| `create`, `_transition`, `_purge_expired`, `_make_capacity_available` | `Create`, `Transition`, `Purged`, `OldestTerminal` and `HasRoom` |
| `_run` | `StartAtOnce`, `StartWaiting`, `Resume`, `SearchReturns`, `SearchRaises`, and one action per place where `CancelledError` can arrive |
| `aclose` | `Close`, `CloseReturns` |

Decisions worth knowing:

- The semaphore is the one of Python 3.12, the minimum the README and
  `pyproject.toml` ask for: first come first served, `locked()` looks at the deque,
  a release wakes the first pending waiter. Patch releases differ in whether a
  resumed waiter wakes one other or as many as there are free slots;
  `WakeOthers` allows both. It is external code, marked so in the map.
- `StartsInOrder` and `FirstCreated` use that the loop's ready queue is first in,
  first out.
- `mark_running` returning None (the early return at line 95) is unreachable.
  That is a consequence of `RecordFollowsTask`, which is proved, and not an
  assumption: `Transition` itself handles a missing record.
- The search is one step that returns, raises `AdapterUnavailableError`, raises
  anything else, or is cancelled. A search cannot end with `CancelledError`
  otherwise; the one way it could, a shared provider search cancelled by somebody
  else, is what `SharedWorkSurvives` of the other component excludes.
- The done callback `_tasks.discard` is merged with the end of the task: `aclose`
  filters nothing by it but finished tasks, on which `cancel` does nothing.
- `clear` of the store is called by tests only.
- `aclose` may cancel a task that never ran its first step. Python then throws
  `CancelledError` at the first line of the coroutine, outside the `try` of `_run`,
  and the record stays queued. The model has this as `CancelUnstarted`, and
  `RecordFollowsTask` says that it is the only way. It happens at shutdown only,
  when the store is about to go, and no document promises otherwise.

### AdapterSearch

A flight (task plus `_InFlightAdapterSearch`) and the result it loads are named by
the request that started it, so one number stands for a task, a table entry and
a cached value.

| code | model |
|---|---|
| a call of `_search_adapter`, where it is suspended or how it ended | `request[r].stage`, and the flight it awaits or was served by |
| the shielded task and `waiters` | `flight[f]`, with whether `cancel()` was called |
| `_in_flight_adapter_searches` | `inFlight` |
| a done task whose `_adapter_search_finished` is still in the ready queue | `callbacks` |
| `_RawAdapterResultCache._items` | `cache`, a sequence, least recent first |
| `_search_adapter` | `SearchHit`, `SearchJoin`, `SearchJoinDone`, `SearchStart`; after the await `Resume`, `ResumeCancelled` |
| `_load_adapter_results` | `LoadSucceeds`, `LoadFails`, `LoadCancelled` |
| `_adapter_search_finished` | `Finished` |

Decisions worth knowing:

- A flight's own callback is registered before any waiter's, and asyncio calls them
  in that order: a waiter resumes when the callback has run.
- Joining a task that is done does not suspend (awaiting `shield` of a finished
  task returns at once), so `SearchJoinDone` comes and goes in a step.
- A request's cancellation is in two steps, `Cancel` and `ResumeCancelled`, with
  everything else in between, the completion of the flight included.
- Adapters are assumed not to swallow a cancellation and not to raise
  `CancelledError` themselves.
- `SharedSearch` sees a request as waiting until its cancellation has reached it, a
  flight as stopped from the step that calls `cancel()` (`SeenRequests`,
  `SeenFlights`), and as kept what the cache would give or the table would lead to
  (`Available`). Waiter counts, callbacks, the table, the order and age of the cache
  do not occur in it. It lets what is kept go at any time, so it says nothing of how
  long a result is cached; that is `OfferContext`'s.
- The last waiter to be cancelled drops the cached result of the key even if
  another request was served from that flight before. That costs a later search
  and nothing else; `AbandonedResultNotCached` states the direction that matters.
- The key is `KeyOf[r]`, provider and request without the intent.

### SearchAdmission

A search is one call of `SearchOrchestrator.search`: by a search job, by a direct
request, or by a nearby-dates request for one of its dates (a probe).

| code | model |
|---|---|
| where the call, or the probe around it, is suspended | `at[s]` |
| `Task.cancel()` called, by `wait_for`'s timer or by whoever gave up, and not yet delivered | `signals[s]` |
| the two `asyncio.Semaphore`s | `admission`, `dates`: counter, deque, and who was handed a slot |
| a leg, and the results in its gather | `leg[s][l]`, `reply[s][l][p]` |
| the response or the exception | `answer[s]` |
| the gather of `NearbyDateSearchService.search` | `nearby` |

Decisions worth knowing:

- `wait_for` of Python 3.12 awaits `acquire` in the caller's own task; its timer
  calls `cancel()` and the `CancelledError` becomes a `TimeoutError` unless
  somebody else cancelled too. The timer may fire when the slot has been handed
  over and the waiter has not resumed: `acquire` then gives the slot back.
- Releases of 3.12 differ in how many waiters are woken when `acquire` ends;
  `Acquired` and `GivenUp` allow each.
- A round trip's legs are tasks in a gather without `return_exceptions`. When one
  raises, the search ends and gives its slot back while the other leg goes on
  (`StrayLegEnds`). Within a leg every exception of a provider is kept as a
  failure, so only grouping or ranking could raise; whether they ever do is not
  the model's business, and what then happens is.
- A one-way search runs its leg itself, so the leg's end is part of the search's.
- The re-raising of a provider's `CancelledError` (lines 314-315) is not reachable:
  a shared search is cancelled only when nobody waits for it (`SharedWorkSurvives`,
  proved).
- Dates that are past are answered without a search, and prices, wording and the
  identifiers of offers are left out. Every travel mode has registered adapters, so
  the early return for a mode without any is left out too.

### ProviderHttp

| code | model |
|---|---|
| where a call of `_request_response` is suspended | `at[r]`: in line, sending, back-off |
| `_semaphore` | `slots` |
| `retries_used`; how often the provider was asked | `retries[r]`, `attempts[r]` |
| `asyncio.timeout` and outside cancellation, called and not yet delivered | `signals[r]` |
| a back-off within or beyond the deadline | `delay[r]`, short or long |
| `aclose` | `Close` |

- A response may come before a timer that is due or after it; the deadline may
  strike in the moment a slot is handed over.
- `asyncio.timeout` turns the `CancelledError` into `TimeoutError` unless somebody
  else cancelled as well.
- Retry-After is two lengths, one of which outlasts the deadline: its exact value,
  jitter and the parsing of the header tell nothing else apart.
- A request on a client that is closed raises an exception no handler in the module
  knows; the slot goes back all the same. Requests that are sending when `aclose`
  runs break.

### ProviderSearch

One adapter per behaviour, chosen at the start, and several searches through it.
Each adapter has three definitions: what it declines or ignores (`...Search`), how
it looks up the two cities (`...Cities`) and how its rows come (`...Rows`). The
actions are common and read these.

- A lookup goes in rounds; calls of one round are awaited in one `asyncio.gather`
  without `return_exceptions`, so a failing one ends the search and leaves the
  other running (`Answered`). SnappTrip's and FlyToday's buses, MrBilit's and
  FlyToday's flights do this.
- MrBilit's bus adapter looks its two cities up in worker threads. They compute from
  rows that nothing changes, so that the lookup is part of the step that has the rows.
- What is kept of a catalogue is a set of replies that may be given from memory;
  `Expire` may happen at any time and stands for the clock. The stations that the
  Alibaba bus adapter has seen do not expire.
- Alibaba's flights and trains create a search and poll its result at most
  `MaxPolls` times with a pause between polls.
- `Excused` names where "none" rests on something else than a finished list: three
  bus adapters answer a wish for a seat with no offers, Payaneha shows a page
  without results, Booking says in words that there are no flights, and Alibaba's
  polled results may have rows, all dropped, before they are complete, or be
  complete without a list.

### ProviderRows

A row is a record of what readers can tell apart: identity, texts, day, route,
fare, seats, and so on (`RowField`). Each adapter's `...Row` definition is the chain of
its tests in the order of the code, with one of three outcomes: offer, dropped,
malformed.

- The code's tests that raise and those that return `None` may alternate; the order
  is kept, for it decides what a row with two defects is.
- A row has a list of prices or classes of its own in MrBilit's answers; `nested` says
  whether one of them is malformed, which fails the row, or whether none of them is
  an object, which leaves the row with nothing to sell and is no error
  (`flight_adapter.py:377-379`, `train_adapter.py:290-300`). A row stands for one
  of its prices.
- `list` says whether a list had items and none of them was an object, which
  `mapping_rows_or_raise` refuses (`Unreadable`).
- FlyToday's buses come as legs, each with its own list (`Leg`). A leg that is not of
  this route and day, or has no list, is passed over, and the answer is refused if
  all of them are (`NoLegFits`). A leg whose list has items and no objects refuses the
  whole answer, readable rows of other legs included; this is `LegUnreadable`,
  the one case in which "unavailable" is said although rows could be read
  (`flytoday/bus_adapter.py:196-203`). The code collects the rows of all legs before
  it reads the first; in the model they are read as they come, which gives the same answer.
- `TrustsDay`: Payaneha's rows carry times and no date that is read, Safar724's carry
  no date, and the day of the search is taken. `TrustsRoute`: these two and
  Booking do not compare the row's own places with those asked for.
- `ReadsAsRefusal`: a missing or unreadable value that a reader takes for "nothing to
  sell" instead of counting the row as malformed. It is the list of these gaps:
  Alibaba's flights without a fare; MrBilit's flights without an identity; unreadable
  seats of MrBilit's, FlyToday's and Booking's flights; an unreadable state of sale of
  Alibaba's, MrBilit's and Safar724's buses, of MrBilit's trains and, its limit per
  order, of SnappTrip's buses; a missing city of Alibaba's buses and trains and
  of SnappTrip's and MrBilit's buses; the nested lists of MrBilit; an unreadable
  choice of seats of MrBilit's buses; and a fraction of a seat below the wish of
  Alibaba's buses.
- The orchestrator filters what adapters answered by price and seats (`OnSale`);
  `OffersAreSound` is about reader and filter together.
- The parts of the specification are called `ListInit`, `ListNext` and `ListSpec`, as those
  of `LocationSearch` are `SuggestInit`, `SuggestNext` and `SuggestSpec`, for
  `ProviderProofs` is about these two and `ProviderSearch` together.

### OfferContext

| code | model |
|---|---|
| the `OrderedDict`s of `ExpiringLruStore`, raw cache and repository | sequences of entries, least recent first |
| `adapter._redirects`, `_details`, `_refunds` and their likes | `context["redirects"]`, `["details"]`, `["refunds"]` |
| a search from its start to its answer | `search[s].stage` |
| what a limit made a store forget | `pushedOut`, an auxiliary variable |

- The search key carries no identifier of the search: two searches of the same
  query share a raw result and the context behind it, while each saves offers of
  its own identifiers.
- `save_all` refuses a result larger than the repository before it changes
  anything; the search fails, and what others saved stays.
- Reading an entry makes it the most recent and does not prolong it.
- `ConstantsAssumption` has `RawTtl =< Ttl`, which is what `main.py:96-99` enforces, and
  nothing on the time a search may take. Context is kept for `Ttl` and a raw result for
  `RawTtl`, so that the context of a result just found lasts `Ttl - RawTtl` longer. With
  the defaults of `core/config.py`, 900 s and 30 s, no search takes that long. With equal
  settings that is nothing: a result found in its last moment may have lost its
  redirects when it is normalised, and its provider fails. `ResultsNormalise` says so: its
  condition is `now - search[s].since =< Ttl - RawTtl`. `ContextOutlivesOffers` likewise
  promises nothing for an offer's last `RawTtl + Lag`, which may be all of its time.
- A nearby-date probe normalises what it gets and saves nothing.
- The code's loops over the rows of a result are `Loop`, a recursive function on how
  many rows are done, whose body is one turn: `Remembered`, `TouchRow`, `SaveRow`.

### LocationSearch

Each adapter is a `Source`: the order in which it cuts, the rows it keeps, whether
a code counts once, which places are popular, and whether rows come live or from a
table of the program's own. A name is a number in alphabetical order, and `Match` says
how it compares with what was typed.

- Only the Alibaba bus adapter remembers names (`stations`), initially any set.
  It falls back itself when its provider cannot be reached, and the service asks it
  to when its deadline passes. It remembers a station before it makes a location
  of it (`bus_adapter.py:118-120`), so that it may remember one that is refused
  (`unfit`); falling back on such a station is refused again.
- One row that a `TravelLocation` refuses (empty or overlong name or code) raises
  out of the adapter, and its provider is left out.
- Names are what the service compares, so that they are the keys of its merge and one at
  most is the text that was typed (`LocationAssumption`). Codes, kinds and the mode of a
  location are left out, for the page submits names.
- Python's sort is stable, and an adapter that sorts by popularity or by match may have
  two places that compare alike: `Sorted` leaves these in their order. What the service
  merges has one place per name, so that `SortedSet` has no ties to leave.
- `CutsByMatch` is the named exception: adapters that cut their list by name, by
  popularity or in the provider's order may cut off the very name that was typed.

### ResultsPage

| code | model |
|---|---|
| a call of `runSearch`, where it is suspended, and its `AbortController` | `runs[r]` |
| `requestController.current`, while loading | `page.run` |
| `resultsData`, `searchError`, `activeSearchId` and `search_id` in the address | `page.shown`, `page.error`, `page.id` |
| `nearbyDatesController`, the prices of other dates | `page.dates` |
| the zero-delay timer of the mount, and its closure | `page.first` |
| the service | `answer`, by the actions of `SearchJobLifecycle`; `madeFor` remembers what a job was created for |

- Requests that were aborted may still reach the service (`ServiceAccepts`), whose job
  then works for nobody.
- Abort is noticed later, by the rejection of the call or the pause; results,
  errors and identifiers may arrive before or after.
- `Reload` mounts the page again with what the address holds, which resumes the
  job; `SwitchMode` mounts it for another journey.
- The address always shows the page's journey and identifier, so neither is a
  variable of its own. A reply of nearby dates is that of the last call, since
  aborted ones change nothing.
- `page.hasty` is the named exception: a user who acts before the first search's
  timer has fired. The timer's closure holds the journey of the mount, and that
  search replaces the user's. The next trip or date chosen sets the page right.
- Identifiers are issued in order and rankings are interchangeable, which halves
  the states and hides nothing that the page could see.

## 3. Runs

| run | instance | distinct states | what it shows |
|---|---|---|---|
| `jobs` | 4 jobs, 3 records, 2 slots, time to live 2, clock to 3 | 57,259 | all properties of the job service, the refinement, jobs settle, `aclose` returns |
| `adapter_search_safety` | 3 requests on one key, 1 on another, a cache of one entry, clock to 2 | 250,460 up to symmetry | the waiter count, shared cancellation, flights and cache, the refinement of `SharedSearch` |
| `adapter_search_liveness` | the same with 3 requests on one key | 28,929 | requests and flights end |
| `admission_slots` | 3 searches and 2 probes, 2 admission slots, 1 dates slot, 1 provider | 160,288 up to symmetry | both semaphores under timeouts and cancellations, and the order of admission |
| `admission_answers` | a round trip and 2 probes, 1 slot of each kind, 2 providers | 137,453 | answers, legs, and that every search ends |
| `offer_context` | 2 searches and a probe, 2 queries of 3 and 2 offers with one in common, stores of 3 and 2 entries, clock to 4 | 508,352 | ages and limits of the stores against each other |
| `provider_http` | 3 requests, 1 slot, 1 retry | 159,261 | slot, retries and deadline, and that every request ends |
| `provider_rows` | lists of 3 items, in legs where there are any, rows with up to 2 defects, 14 adapters | 21,078 | what is published, and when none or unavailable is said |
| `provider_search` | 2 searches through each of 14 adapters, 5 polls | 6,097 | what "none" rests on, stray calls, and that every search ends |
| `location_search` | 2 adapters of a mode at once, 3 names, replies of 2 rows, limits 1 and 2 | 77,554 | merge, fall-back and order of suggestions |
| `results_page` | 2 trips of which 1 with a way back, 2 rankings, 2 jobs, 3 searches | 848,264 | what the screen shows, and that it never loads for ever |
| `changed_shape` | one row, 14 adapters | violated | the finding below |

*Bounds.* `MaxJobs`, `Requests` and `Horizon` are bounds on the behaviour; the
others are parameters of the code. With four jobs and three records the store is
full with every mixture of active and settled records, and refuses; two slots and
four jobs leave two waiters behind two holders, so that a slot can be handed to one
waiter while an arrival and another waiter compete for it; the clock exceeds the
time to live, so that records of different ages expire at different times. Three requests of a
key are what it takes for a flight to be joined, abandoned and replaced while the
old one is still ending; the fourth, of another key, makes the cache evict. Five
searches over two slots leave two waiters behind two holders, one of them a probe
that holds a dates slot for which the other waits; two providers are what it takes
for one to fail and the other to have nothing. Three requests over one slot leave
two in line behind one that sends, and a request back from its pause behind both; with
one retry both paths of the retry, and each after the other, are reached. The
stores of `OfferContext` are smaller than what two queries bring, so that each limit
is met, and the clock goes beyond both times to live. Two defects per row are what it
takes for the order of two tests to matter, and three items for rows of three kinds
in one list. Two adapters at once are what it takes to merge, and every pair of
a mode is taken; limits are smaller than what two replies bring. Three searches are what it
takes for one to replace another while a third, older one has yet to notice its
abort; two jobs suffice since a third run may resume one or fail.

*Deadlock.* `SearchJobs` never stops, since a client can always poll. In
`ProviderRows` the answer stays. Everywhere else what arrives ends, a bounded clock
runs out or a bounded number of searches has been made, so those runs do not check for it;
that nothing waits for ever is what `EveryRequestEnds` (of both modules),
`EverySearchEnds` (of both), `FlightsDrain` and `EverySearchIsAnswered` say.

*Symmetry* is used in the runs without liveness of `AdapterSearch` (requests of the
shared key) and `SearchAdmission` (one-way searches, probes), which nothing in the
specifications distinguishes.

*Fairness.* The event loop runs every ready task and callback: weak fairness of a
job's steps, of a waiter's resumption, of a callback. A search ends, because
`wait_for` bounds every adapter and the admission: weak fairness of the step that
ends it. `aclose` resumes when its gather is done. Nobody has to submit, poll,
search, cancel or shut down, and time need not pass. In `SearchAdmission` the
admission timer of a search that keeps waiting fires and every provider's result or
failure arrives, for the same reason. In `ProviderHttp` the provider need not
answer: a due deadline strikes and tasks that were told to stop run. `ProviderSearch`
then takes from it that every call is answered or fails. In `ResultsPage` timers
fire, every call through the proxy ends by the proxy's own deadline, and jobs
advance, which is `EveryJobSettles`; the user need not do anything, and neither need
the service forget a job.

*Properties of the job service.* `RecordFollowsTask`: a record is exactly as far
as its task. `SlotsConserved`, `NoIdleSlot`, `StartsInOrder`: the semaphore under
cancellation. `WithinCapacity`, `RecordsLeaveInOrder`, `TerminalRecordIsFinal`: the
store. `NothingRunsAfterClose`, `ShutdownCompletes`: shutdown, after which `main.py`
closes the adapters' connections. `EveryJobSettles`. `ImplementsLifecycle`: what
pollers see.

*Properties of the shared search.* `WaiterCountExact`, `SharedWorkSurvives`,
`OneLoadPerKey`, `AbandonedResultNotCached`, `EveryRequestEnds`, `FlightsDrain`.
`ImplementsSharedSearch`: one search at a time per key, which stops in the step in
which the last of those who wait leaves and not before, and nobody is given what was
not kept or what another key was answered. `TypeOK` includes that the cache is bounded and its keys unique.

*Properties of admission.* `SlotsConserved`, `NoIdleSlot`: both semaphores.
`AdmittedInOrder`: nobody is admitted past one who waits longer, unless that one's
timer has fired or it is being cancelled, so that neither a newcomer that finds a slot
between its hand-over and its use nor a probe pushes a search into its timeout.
`LegsHaveASlot`: providers are asked under a slot, with the one exception above.
`AnswersAreHonest`: "sold out", "unavailable", "unknown" and a refusal each say what
happened with the providers. `EverySearchEnds`: holding one slot while waiting for
another blocks nobody.

*Properties of a provider's requests.* `SlotsConserved`; `RetriesExact`, as many
attempts as allowed and no fewer before giving up; `EveryRequestEnds`.

*Properties of the adapters.* `OffersAreSound`: what a search keeps is for its day,
route and kind, and can be paid and seated. `AnswerIsHonest`, `EmptyIsExplained`: "none"
and "unavailable" are said for a reason, of rows and of calls: of rows, "none" because
one was dropped as unsuitable or by one of the gaps of `ReadsAsRefusal`, and
"unavailable" because not one could be read or a leg's whole list could not.
`CallsAreAccountedFor`: which calls outlive their search. `EverySearchEnds`.

*Properties of what is kept.* `ContextOutlivesOffers`: an offer that can be found can
be opened. `ResultsNormalise`: a cached result never fails by its age, in a search no
longer than the context outlives a result.
`AnswersAreOnSale`: an answered search is saved in full and leaves others' offers
alone unless there is no room.

*Properties of the front.* `SuggestionsAreConfirmed`. `ScreenIsOfThisJourney`: no old
run reaches the screen, the address or the dates. `EverySearchIsAnswered`.

*Exceptions are named.* Where the code does not do what a property says in general,
the property says where, by a definition with a comment: `TrustsDay`, `TrustsRoute`,
`ReadsAsRefusal`, `LegUnreadable`, `Excused`, `CutsByMatch`, `hasty`, `pushedOut`. They are short lists
of adapters or situations, and everything outside of them is checked.

*Finding.* `changed_shape` states what the comment at `adapters/shared/parsing.py:63-65`
says of a changed item shape, one level down: a list in which every row lacks the same
value should not read as "no offers". It does wherever `ReadsAsRefusal` holds: for
example a flight of `alibaba` without an adult price, of `flytoday` or `booking` with
unreadable seats and of `mrbilit` without identity or readable seats is dropped and not
malformed.

Each property has a mutant: the definition named `Bug...` just before a definition
is that definition with a plausible mistake, and with it the run finds the property
violated. The mutants are not part of any specification.

## 4. Proofs

Every theorem holds for all values of the constants that satisfy the named
assumptions of the modules: positive capacities, limits and slots as the
constructors require, finitely many requests, searches and providers, rows whose
fields are those of `RowField`, adapters among the fourteen, finitely many names of
cities of which one at most is the text typed, raw results that are kept no longer
than context, and at least one ranking. No theorem assumes anything about
behaviours. The numbers of jobs, slots, records, requests, keys, trips, rows, polls,
entries and suggestions are arbitrary, and so are all times.

Each proof follows one pattern: an invariant that is inductive, one lemma or step
per action, and a last section where the properties are read off. What follows says
what had to be added to each property, and why.

**SearchJobsProofs.** `RecordFollowsTask`, `SlotsConserved`, `WithinCapacity` and
`NothingRunsAfterClose` are not inductive. `IInv` adds that identifiers not issued
yet have no task (`FreshUnused`, or `submit` could overwrite a live job) and that
once `aclose` began every live task is one it cancelled (`ClosingCancelsAll`, or the
gather could return before a task it does not know). The argument has three
layers: what a store operation may do to records of other jobs
(`StoreStepSound`), what handing slots over does to the number of holders
(`HandOverEffect`), and one case per action.

`StartsInOrder` and `NoIdleSlot` need a second invariant on top of it, `LineInv`:
the deque is sorted and holds the waiting and granted jobs exactly; while the service
is open no task is cancelled; of two jobs the younger is never further on
(`StagesInOrder`). The last is the heart of it. A job that arrives may take a free
slot at once only when nobody in the deque is pending or granted, which with the
members of the deque means that nobody older waits; and who is handed a slot is the
first pending waiter, which with the deque's order means the oldest.

What a step does to the store is classified by `StoreEffect`: a purge, a purge and one
transition, or an admission. From that follow the action properties (`DropsInOrder`,
`SettledIsFinal`) and, with the mapping `Answer` (a record that is kept and not expired
is shown; else the identifier is gone or was never issued),
`ServiceImplementsLifecycle`: a purge of records whose expiry a poller already saw is
a stutter, `Tick` is `Forget`, an admission is `Accept` with at most one settled answer
dropped.

**AdapterSearchProofs.** `WaiterCountExact`, `SharedWorkSurvives`, `OneLoadPerKey`
and `NoAbandonedLoad` hold each other up: the flight is told to stop when the count
says one, which is right because the count is exact; nobody joins a stopped flight
because it left the table in the same step; the table finds it because it is of the
waiter's key. `IInv` adds what the argument uses: a registered flight is of its key,
has started and was not stopped; a waiter's flight is of the waiter's key; the
flight of a request that has not come yet has not started; a callback's flight is
done. None of it mentions the cache.

`CacheInv` does: the type of everything, the limit and uniqueness of keys included, and
that a cached result is of its own key, of a flight that loaded it, and wanted
(`CachedIsWanted`). A result enters the cache with somebody waiting (`NoAbandonedLoad`),
and when the last of them is cancelled it leaves again, which is right since the entry
under the waiter's key is then the flight's own or a newer one's, and dropping either
keeps the property.

On both rests `SearchIsShared`, that `AdapterSearch` implements `SharedSearch`. One thing
is added, that a flight ends as cancelled only if it was told to stop (`StoppedFirst`):
a request that finds a finished flight in the table must be given an answer or a
failure. Then one lemma per action. A hit is `Reuse`, since what is cached is the result
of a loaded flight of that key; so is `SearchJoinDone`. `SearchStart` is `Start`, since
`OneLoadPerKey` leaves no running search outside the table. `ResumeCancelled` is `Leave`,
since the count says one exactly when nobody else waits. `LoadSucceeds` and `LoadFails`
are `End`; a cancellation that has not arrived, the end of a stopped load, the callback
and the clock are `Forget`. In every step `AvailableStays` bounds what can be given
afterwards by what could be given before and the flight that has just ended.

**AsyncSemaphoreProofs.** No state machine but lemmas: how `Wake`, `Take`, `LineUp`,
`Release`, `Acquired` and `GivenUp` change free slots, grants and the deque
(`...Effect`), then what that means for a semaphore in use (`InUse`: every slot is
free, granted or held, and in line is who waits, once each) and for `Prompt`: a
slot is not free while somebody pending waits, unless somebody granted has yet to
resume; last what it means for the order of the line (`InTurn`). Since the versions of Python 3.12 differ in how many waiters are woken, the
lemmas hold for any number.

**ProviderHttpProofs.** `SlotsAreConserved` is `InUse` of the slots, with the requests
that send as holders. `RetriesAreExact` needs `AttemptsCounted`: while the client is
open a request went out as often as it retried, and once more if it sends. After
`aclose` a request may use up retries without going out, so that the equality becomes
an inequality, and the property names the exception.

**SearchAdmissionProofs.** `SlotsInv` is types, `InUse` and `Prompt` of both
semaphores, and that the dates semaphore is the probes'. A probe that searches is a
holder of a dates slot and of an admission slot at once, so that each step of a probe
moves one of the two. `AdmissionIsInOrder` adds `InTurn`: nobody in line was granted a slot
past one who waits and was not signalled. The line keeps it because waking takes the
first pending ones (`WakeInTurn`), leaving keeps the order of the others and lining up
is at the end (`OutOfLineInTurn`, `EnterInTurn`), and because a signal, once given, stays
until its search has left; whoever is admitted then found nobody pending or granted, or is the
first of those granted, ahead of whom only signalled ones are left. `LegsAlwaysHaveASlot` and `AnswersAreAlwaysHonest`
need what replies say of legs: a leg that is done has every provider's reply, and one
of a search that has not been admitted has none.

**ProviderProofs**, the search. Facts about the fourteen definitions first: who ignores a
wish, who answers in a form of its own, whose rounds of lookups have several calls.
Then each search is `Coherent`. `NoneIsExplained` needs that only Alibaba's
flights and trains poll, or the excuses of polling would be anybody's;
`CallsAreAlwaysAccountedFor` needs that the calls of a round go out together, so that a
call left over when another fails proves that the round had two.

**ProviderProofs**, the rows. One lemma per reader (`...Reads`), since the order of its tests
matters: a row that passes all of them is for this search, and a test that drops a row
*which the tests before it let pass* has a reason to. `FirstHit` turns a list of
tests into its first one that holds. The list is then a count: items looked at are rows
read or make the list odd, and rows read are malformed, offers, or gave a reason
(`ItemsAreAccountedFor`), which is not the property but what makes it survive the next
row, skipped item or leg.

**ProviderProofs**, the suggestions. `SuggestionsAreConfirmed` is about what sorting and
cutting leave, so the sorts come first. `Lined` puts things in a line by how many are
ahead of each; that these numbers are all different and leave out none
(`LinedEffect`) is an argument on cardinalities, a strict chain of subsets of a finite set.
It is used three times: for the rows an adapter keeps, for its stable sort
(`SortedEffect`) and for the service's (`SortedSetEffect`). The order of keys is
lexicographic and total on names (`SmallerOrder`). From there an adapter that orders by
match gives the name that was typed whenever it kept it, whatever the limit
(`LocatedEffect`), for nothing else has rank 0 (`OneMatches`). `SuggestInv` carries this to
the moment of the answer: of each adapter that answered, what it gave is `Truthful` to
what it had. `AnswerIsConfirmed` then reads the four parts of the property off the sorted
merge: a name that is missing from a full list came after every one shown.

**OfferContextProofs.** The properties are about times, and so is the invariant. Loading
makes an adapter remember each row for `Ttl` and the result for `RawTtl` only, so that
whenever a cached result is found its rows are known for `Ttl - RawTtl` more than it
has itself (`RawKnown`); a search that began with it has that much left less what it took
(`SearchKnown`), and an offer it saves is known for all its time but `Lag + RawTtl`
(`OfferKnown`). Nothing is assumed of the difference but that it is not negative: it
is the condition of `ResultsNormalise`, for a result found in its last moment meets its
context as long as the search has not taken longer than that.
That steps keep this is one lemma (`StepPreserves`) on top of
one condition a step has to meet (`KnownStays`): it forgets nothing before its time unless a
limit pushed it out, and then `pushedOut` says so for good. Each action's lemma shows
that condition of what the action does to stores (`TouchEffect`, `PutEffect` and their
likes) and, for the loops over rows, of the loop as a whole (`RememberAllEffect`,
`TouchAllEffect`, `SaveAllEffect`).

A loop needs induction, and the library's theorems of induction take the property as a
parameter, which no prover here can instantiate. What it has to say is put first-order
instead, of sets of numbers (`UpTo`): the turns after which an invariant of the loop fails
form a set, a set of numbers that is not empty has a least one, and the turn before that
one contradicts it. `LoopRuns` shows in the same way that a loop has a state after every
row.

`OffersCanBeOpened` and `Invariance` follow from `IInv`; `CachedResultsNormalise` and
`AnswersCanBeFound` are about steps. The second needs that saving an offer that is
there moves it to the end (`KeysOnce`), so that what the limit cuts off is never of the
result that is being saved: `SaveAll` refuses results larger than the limit.

**ResultsPageProofs.** `ShowsItsJourney` is not inductive: a run could learn an
identifier of another journey. `IInv` adds that identifiers the page or a run knows
were issued, so that the service gives them to nobody else, and `OneGoesOn`: of all
runs only the one the page waits for can still change it. The second is proved for
hasty users as well; only what their screen shows is excepted.

*Model-checked only:*

- the liveness properties, which are out of the prover's reach: `EveryJobSettles`,
  `ShutdownCompletes`, `EveryRequestEnds` (both), `FlightsDrain`, `EverySearchEnds`
  (both), `EverySearchIsAnswered`;
- that `changed_shape` finds its counterexample, which is a run's business.

Every invariant, action property and refinement that a passing run checks is a theorem.

## 5. Not modelled

- *Grouping and ranking.* Pure functions of one search's offers, in one step of the
  event loop. Grouping is a sequence of dictionary passes whose cases unit tests
  reach; ranking is a sort by a floating-point score.
- *Normalisation* beyond what it needs of the adapter: hashing and folding of text.
- *City combobox.* One actor with a debounce, a cache and a map of pending requests.
- *Details, refund rules and seat maps* on the provider's side: one call each, whose
  answer is converted. What they need of the stores is in `OfferContext`.
- *Conversions*: calendar, branding, parsing of texts, JSON, wording of messages.
- *Proxy, routers, other views*: stateless, or state without a second actor.

## 6. What is left, in order

1. The shutdown as a whole: jobs, provider searches told to stop, and the closing of
   the adapters' connections.
2. `CityCombobox`, then `OfferGrouping` against a reference definition.
