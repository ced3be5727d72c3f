# A verification development for the Conifer SDK

The repository holds two SDKs for the Conifer gateway (TypeScript in `src/src/`,
Python in `src/python/conifer_sdk/`), an MCP server over the TypeScript SDK, and the
scripts of a live QA run. The SDK bills: every chat turn is an HTTP request that costs
money, may be repeated after a fault, may be answered late, may be aborted, and tells
its price in headers. The modules here say what the code makes of that, TLC checks them
on small instances, and TLAPS proves the most important of their properties for all.

## 1. Inventory

| component | source | state | operations | hard behaviour |
|---|---|---|---|---|
| Transport | `src/transport.ts`, `src/keepalive.ts` | per request: attempt, abort controller, timer, response | `request` (send, retry, settle a committed body), `leaseStream` | four awaits, at each of which the caller may abort; a retry while the first attempt still runs; bodies cut after a charged head |
| Error taxonomy | `src/errors.ts` | none | `errorFrom`, `retryable` of each class | the same wire type means 400, 401 or 404; a charged error must never look retryable |
| Chat turn | `src/client.ts`, `src/chat.ts` | position in the chain, last error | `chat`, `stream`, `defer`, `embed`; `resolveChain`, `turnIdentity`, header writers | a chain of separately billed requests that falls back on failure |
| Stream | `src/stream.ts` | buffer, reader, lease, idle clock | iterate, `cancel`, decode frames | cancel and abort race the reader and a suspended consumer |
| Receipts, budget | `src/receipt.ts`, `src/receipts.ts` | totals, tail of receipts | `fetch`, `record`, `reset`; `SpendBudget.fetch` | check, await, then charge, with callers in parallel |
| Deferred jobs | `src/jobs.ts` | poll interval, deadline | `status`, `result`, `cancel`, `wait` | the job changes between two polls; waits that no abort ends |
| Catalog, keys, embeddings, route | `src/catalog.ts` ... | none | one request each; `pickCheapest`, `priceOf` | ties and undisclosed prices |
| Wire formats | `chat.ts`, `types.ts`, `chat.py`, `embeddings.py` | none | `chat_body`, `chat_headers`, `server_fallback_header`, `resolve_chain`, `turn_identity` | the same request is written again for every member and every retry |
| Portability | `src/portability/*.ts`, `portability.py` | none | translate foreign requests | a field silently dropped changes what runs or costs |
| MCP server | `mcp/server.ts` | read buffer, cached client | `handle`, `serve` | messages handled concurrently, answered as they finish |
| Python SDK | `python/conifer_sdk/` | as above, with threads and locks | as above | differs at the edges: streams, committed bodies, budgets |
| Live QA guard | `scripts/live_qa_guard.py`, `live_qa_reconcile.py` | fsynced journal, claims, reserve | claim, admit, observe, stream, fault, finish, resume | crashes between two writes; several processes; limits never to be passed |
| Live QA drivers | `python/scripts/live_qa.py`, `scripts/live-qa.mjs` | count of failed checks | `check`, the preflight, `finish`, the exit status | a status of zero is taken for a campaign that passed |
| Packaging, alias, cards, docs | `alias/`, `bin/`, `cards/`, `docs/` | none | - | - |

How they interact: the application calls the client (`chat`, `stream`), the client makes
one `Transport.request` per member of the chain, the transport calls the `fetch` it was
given, and that `fetch` may be a `ReceiptCollector` or a `SpendBudget`, each wrapping the
next one. A stream keeps the transport's controller alive through its lease. The MCP
server calls the client from concurrent handlers. The QA scripts run the SDKs behind a
guard process that admits every dispatch beforehand.

What makes each correct:

* Transport and chat: one charge per member of the chain; nothing is sent after a charge
  or an abort; the error says truly whether the turn was charged; the turn ends.
* Receipts and budget: exact totals whatever the tail keeps; a bounded overshoot.
* Stream: no chunk after an abort or a cancel; the body is cancelled exactly when it was
  not read to its end; the idle clock cuts silent streams only.
* Jobs: `wait` returns the result of an ended job, and never hides a job still running.
* Wire formats and shims: what the application asked for is on the wire of every attempt,
  or refused; nobody pays for a chain who has not accepted it.
* QA guard: no dispatch twice, none beyond the limits, none after an unfinished write.
* QA drivers: an exit status of zero means that the journal says so too.

`PROJECT.json` lists the hazards, each at its line, with the properties that face it.

## 2. Plan

| step | modules | what | status |
|---|---|---|---|
| A | `Errors`, `Gateway`, `Transport` | the taxonomy, the external gateway, the request loop | done |
| B | `Chat`, `BilledTurn`; `ChatProofs` | the turn; the abstract turn; proofs, the refinement included | done |
| C | `Receipts`, `SpendBudget`; `SpendBudgetProofs` | collector and shared budget; proofs | done |
| D | `Stream`; `StreamProofs` | lease, iterator, cancel, idle clock; proofs | done |
| E | `JobsWait`; `JobsWaitProofs` | polling, abort, deadline, unknown status; proofs | done |
| F | `QaGuard`; `QaGuardProofs` | journal under crashes, claims, admissions, resume, audit; proofs | done |
| G | `McpServer`; `McpServerProofs` | concurrent handling and replies, comparisons; proofs | done |
| H | `Wire` | body, headers, chains and ceilings of the Python client, and what it refuses to send | done |
| I | `Portability` | the Python shims: translated, refused, forwarded, handed back | done |
| J | `PyErrors`, `PyChat`; `PyChatProofs` | the Python taxonomy, `request`, `chat`, `defer`, the opening of `stream`; proofs | done |
| K | `PySpend`; `PySpendProofs`; `JobsWait` | Python variants of C and E: locked collectors, `SpendBudget.check`, threads and callback; `jobs_wait`; proofs | done |
| L | `PyStream`; `PyChatProofs` | Python variant of D: the reading of a stream; proofs | done |
| M | `LiveQa`; `QaGuardProofs` | the harness of the QA drivers over `QaGuard`; proofs | done |
| N | the TypeScript twins of H and I | `chat.ts`, `portability/*.ts` | later |

Every safety property the passing runs check is a theorem. Still worth proving: that
`QaGuard` implements an abstract specification of a campaign.

## 3. The modules

**`Errors`** is `errors.ts` as operators. A refusal is what the code reads of it: status,
type, code, param, whether the message says "retry shortly", and whether the answer
carries an execution receipt (`charged`). `ErrorClass` is `errorFrom`, `Retryable` the
`retryable` of the class it picks, `Bodiless` an answer whose body could not be read.
The values of a field the code never compares are one value, `"other"`.

**`Gateway`** is external: the attempts on the network (`inflight`), those being executed
(`running`), and those charged. It is as hostile as the SDK's code allows for: an attempt
may arrive after the client gave it up; a key that is running or was charged does not run
again; a run may end charged or not; a receipt is only sent when a charge under that key
exists, and an attempt whose own run was charged is never answered without it.

**`Transport`** is `Transport.request`. `pc` is the await the loop is suspended at:

| `pc` | code |
|---|---|
| `top` | `transport.ts:140-157`, up to the call of `fetch` |
| `fetch` | awaiting the head (152-173) |
| `body` | awaiting the body (184) |
| `sleep` | awaiting a pause (166, 200, 222) |
| `done` | returned or thrown |

`key` is fixed when the request is entered, as the headers are (136). `BodyEnds` is the
end of a definite answer's body, whole, not JSON, or cut; `SettledEnds` and
`CommittedCut` are the two ends of a committed response (`keepalive.ts`). An action runs
from one await to the next, with everything the code does in between. `sent`, `paid` and
`unanswered` are history variables.

**`Chat`** is `chat()`, `stream()`, `defer()` and `embeddings.create()` over one
`Transport`: `resolveChain`'s refusal, the member keys (`KeyOf`), and `MemberReturns`, the
catch block that advances or throws. A request that its operation does not take, or that
`chatHeaders` cannot write, is not `sendable`: it is thrown before anything is sent, as a
refused chain is, whichever of its fields is to blame. What happens to a stream after it
was handed over is left to `Stream`.

**`BilledTurn`** is what a turn promises the account: a chain walked forward, attempts
numbered and limited, nothing sent after a bill or a cancellation, no completion after a
cancellation.

**`Receipts`** is the collector as a value with its operations. **`SpendBudget`** composes
two of them the way the `fetch` option composes them, `collector.fetch` around
`budget.fetch`: a caller looks at the budget, waits, is seen by the budget's own
collector, and a step later by the application's, which may be reset in between.

**`PySpend`** is the Python pair of them, `receipts.py`, which no `fetch` ties together:
the application calls `check()`, then its vendor's client, and that client's httpx runs
the two response hooks, the application's collector's first. `pc` of a thread:

| `pc` | code |
|---|---|
| `idle` | before `check()`, or after the call |
| `refused` | `receipts.py:167-171`, the second read, for the message of the refusal |
| `sending` | in the vendor's client, which sends up to `Attempts` requests for one call |
| `hook` | 68-81, a response is there, the lock of collector `at` is not taken |
| `sum`, `file` | 83-85, 86-92, in the locked block, before and between its two halves |
| `reading`, `throwing` | 94-98, in `on_receipt`, which reads the collector or throws |
| `handled` | the hooks have run, or there was no response |

Within the lock `_record` is two steps, so that what looked without it would see half a
receipt. A thread of its own resets the application's collector. `exact` is the history
that the lock must make the collector look like; what the vendor's client does (`Reject`,
`Resend`, `Return`) is external.

**`Stream`** is `makeStream` under the lease of `leaseStream`, from the moment `stream()`
hands it over. The body is a script of frames (`chunk`, `error`, `done`, and `noise` for
what yields nothing); the last may lack the blank line that ends a frame. `pc` says where
the iterator is suspended:

| `pc` | code |
|---|---|
| `unstarted` | `next()` was never called |
| `read` | `stream.ts:51`, awaiting the reader |
| `got` | the read has settled, its continuation has not run |
| `yield` | suspended at the `yield` of the frame loop (70) |
| `tail` | suspended at the `yield` of the unterminated last frame (77) |
| `closing` | the `finally` (79-84), awaiting the reader's cancel |
| `over` | returned or thrown; the lease is released |

`body` is the `ReadableStream`: `open`, `closed` (all sent, perhaps not all read),
`failed`, `aborted` by the controller, `cancelled`, or `none` for a response without one.
Bytes of an incomplete frame stay in the queue, so `read` and `next` count frames.
`StreamCancel`, `CallerAborts`, `IdleFires`, `FrameArrives` and `BodyStops` may happen at
any of these points. A stream is iterated once; a second loop over a stream that is
finished is not modelled.

**`JobsWait`** is `jobs.wait`, and for the waiters in `Python` `jobs_wait`, with any number
of waiters over one job at the gateway,
which moves along by itself, is cancelled or fetched by others, and loses its body some
time after it was fetched. `pc` of a waiter:

| `pc` | code |
|---|---|
| `idle` | before the call |
| `asking` | `jobs.ts:71`, awaiting `status()` |
| `answered` | the answer is on its way or read, the tests of 73-91 have not run |
| `sleep` | 92, awaiting the pause, which neither signal nor deadline cuts short |
| `fetching` | 73, awaiting `result()` |
| `done`, `hung` | returned or thrown; in a body that never ends |

`Verdict` is the order of the tests, `PyVerdict` that of `jobs_wait`, which has no signal to
look at. A body that never ends holds both (`BodyHangs`): in TypeScript the head stopped the
timer; in Python every read of the socket is timed and the whole body is not
(`transport.py:51`), so one that trickles is enough, and one that is silent is not.
`Throws` is a request that fails, or `onPoll`. `over` and `extra` are history variables.

**`QaGuard`** is `Guard.operation` of `live_qa_guard.py` with the drivers that call it,
their guarded `fetch`, and the audit. `files` is the run directory as processes see it,
`disk` what of it is durable. An operation runs under the lock in stages:

| stage | code | written |
|---|---|---|
| `marked` | `live_qa_guard.py:74-88` | `transaction.pending` |
| `save` | 89-95, the handler | claim file, `events.jsonl`; the directory is synced first |
| `saved` | 107-112 | `state.json` replaced |
| `unlinked` | 113, 96-98 | the directory synced, the marker removed |
| returned | 99-100 | the directory synced, the driver answered |

A driver (`at`) claims or resumes its phase, admits, dispatches, waits, and observes, or
records a fault; `choose` is between two requests. `GuardDies`, `DriverDies` and
`PowerFails` may strike at every stage; `PowerFails` finds each name in its new or its
durable state. An exception that is no `GuardError` leaves the marker as a killed guard
does. `receipts` and `refusals` are the gateway's, `proof` is the file the audit writes
from a state it read before, without the lock. `sent`, `claimants` and `torn` are history
variables.

**`PyErrors`** and **`PyChat`** are the Python SDK's taxonomy and turn, over the same
`Gateway` and `Answer`s. There is one thread and nothing that aborts it. An exchange is
one call of the transport, body included:

| `pc` | code |
|---|---|
| `send` | `client.py:151`, the top of the loop |
| `wait` | `transport.py:48` or `client.py:271`, no head yet |
| `read` | `transport.py:51` or 61, `client.py:275`, reading the body |
| `sleep` | a pause (`client.py:159`, 173, 186, 196) |
| `done` | returned or raised |

`Stops` is what the handlers of `request()` make of an exchange that fails: a
`TimeoutError` and any other `OSError` are retried, a failed certificate is raised at
once, and what is neither (`IncompleteRead`, bytes that are no UTF-8, a head that is no
HTTP) leaves as it is (`"raw"`). `_open_stream` catches none of them, is not retried, and
builds its refusals without a receipt (`Unreceipted`). What an application asks for is a
constant, `Turns`: an operation with a request of its own (`Native`) or with that of
another gateway (`Foreign`). `Open` stands for the shim's refusals and for those of
`chat()`, `stream()`, `defer()` and `embed()`; `Enter` for the writing of one member's
body and headers, which may be refused in the middle of a chain. Every attempt carries
what it has on the wire, so that copies can be compared.

**`Wire`** is `chat.py` and `embeddings.py`. A request is the set of its optional fields
that are given, with a value where the code looks at it: models, chains, the ceiling,
the two keys. `WireOf` is the names that stand in body and headers; names are strings,
their values are left out, and models are members of `Models`, the blank one or one with
a comma, which no header can carry. `Survivors` is the deduplication of
`server_fallback_header`, `OperationRefused` what `client.py` refuses by itself.

**`Portability`** is `portability.py`. A foreign request is the set of the fields, body and
headers alike, that it carries, with the values the shims look at. `OpenRouterRefuses`,
`HeliconeRefuses` and `VercelRefuses` are their guards in one formula each (which of two
reasons is named first is left out), `FromOpenRouter`, `FromHelicone` and `FromVercel`
the `ChatRequest` they make. `Known` is the fields a shim has a rule for, and
`Carried` what it means that a field is on the wire.

**`PyStream`** adds the reading of a stream: `iter_frames` and `decode_frame` under the
generator of `stream()`. Frames come and wait at the socket, the body ends in a tail (no
bytes, half a frame, a frame without its blank line) or breaks; the loop that consumes
the generator may pause at its `yield` or leave there. A generator that is never asked
for its first frame has not begun (`"new"`).

**`LiveQa`** is the harness of `live_qa.py`, and of its twin `live-qa.mjs`, over `QaGuard`: a
check that meets a refusal of the guard, a fault, or an answer it does not like fails and
is counted; `"ready"` is recorded only if none of the first ones failed; `"finish"`
records the count; and the exit status is zero only for a count of zero. Which requests a
check makes is left open. `failed` and `zero` are the drivers that counted a failure, and
that ended with status zero.

**`McpServer`** is `serve` and `handle`. Input is counted in half lines, because a chunk
may end in the middle of one. `Data` is the data event with the microtasks it leaves
behind: lines that need no turn are answered in it, the others begin to wait for one turn
or, in a comparison, for several (`calls`). `Settle` ends one turn, and with the last of
them answers the line; a comparison replies with its table (`shown`), in the order of the
code's stable sort. A turn may fail, answer with or without telling its cost, or hang.
Replies are counted by id; the order of replies to lines of one chunk is left out. A
message without an id (`NoId`) is a notification, and yet answered, with id null, unless it
is `notifications/initialized` (see the end of section 5).

`MCChat`, `MCPyChat` (over `PyStream`), `MCMcpServer`, `MCSpendBudget`, `MCPySpend`, `MCStream`
and `MCQaGuard` (over `LiveQa`) give the constants their values for TLC; those of `JobsWait`
are plain numbers and model values in its `.cfg` files.

## 4. What the runs check

| run | instance | shows |
|---|---|---|
| `chat` | 2 retries, chain of up to 2, `chat`, `stream`, `defer` and `embed`, 7 answers; 225,953 states | the five properties below |
| `spend_budget` | 3 callers, budget 3, turns up to 2, tail of 2, 5 receipts; 89,732 states, callers symmetric | the two properties below |
| `stream` | seven scripts; 15,672 states | the five properties below |
| `jobs_wait` | 2 waiters, one of each SDK, a first pause of 2 and a limit of 3; 98,170 states | the three properties below |
| `jobs_hang` | the same | neither signal nor deadline ends a wait, of either SDK, whose answer's body never ends |
| `qa` | 2 drivers of the first phase, 1 of the second, up to 2 crashes, 2 requests; 1,147,827 states, the two symmetric | the nine properties below |
| `stream_idle` | the same as `stream` | the idle clock cuts a stream that is not silent |
| `py_spend` | 2 threads, 2 requests per call, budget 1, turns of 1, tail of 1, 5 responses; 220,340 states | the four properties below |
| `py_chat` | 2 retries, chain of up to 2, up to 3 frames; 17 native requests and one foreign request of every kind the shims tell apart; 235,422 states | the eight properties below |
| `py_migration` | two foreign requests with a field their shim does not know | the field is neither refused nor sent |
| `py_stream_receipt` | as `py_chat` | a charged refusal of a stream loses its receipt |
| `mcp` | ten lines, comparisons of at most 3, costs 0 and 1; 17,089 states | the three properties below |

Properties of `chat`:

* `TypeOK`: types, and the attempt counter stays within the retry budget.
* `OneChargePerMember`: no more charges than members tried, although attempts are lost,
  arrive late, or are repeated while an earlier one runs.
* `VerdictIsTheBill`: where every attempt for the key got a verdict, the error carries a
  receipt exactly if the key was charged.
* `TurnEnds`: the turn ends, or it hangs in a body that never ends while the caller does
  not abort.
* `ImplementsBilledTurn`: refinement of `BilledTurn`. It implies `PaidEndsTurn` (nothing is
  sent after a receipt was read) and `AbortIsFinal` (nor after an abort, and no body that
  ends later is returned), which the module states and `ChatProofs` proves.

Properties of `spend_budget`: `WorstCase`, the overshoot is less than one turn
per concurrent caller; `TotalsAreExact`, the application's totals are the sums over everything
recorded since its last reset and its tail the newest part of that, and the budget's private
totals, by which it refuses, the sums over everything it ever saw: no reset and no full tail
of the other collector touches them.

Properties of `py_spend`:

* `ReadsAreExact`: whoever may look at the collector finds the totals and the tail of the
  receipts since the last reset, each of them whole or not at all.
* `BudgetSeesAll`: when no hook runs, the budget has counted what the application was told,
  and what that has forgotten since, whatever `on_receipt` throws.
* `WorstCase`: the overshoot is less than all the requests of one call per thread.
* `HooksReturn`: no thread waits for ever in a hook, though `on_receipt` uses the collector
  that called it.

Properties of `stream`:

* `StopsAtOnce`: after an abort, a cancel or the idle clock no chunk is handed out.
* `NormalEndIsWhole`: a loop that ends by itself, uncancelled, was given every chunk up to
  `[DONE]` or the end of the body, an unterminated last one included.
* `NothingIsLeftOpen`: when the iterator is over the body was read to its end or told to
  stop, and neither the clock nor the lease is left behind.
* `ErrorNamesTheCause`: a `ConiferTimeoutError` or the caller's reason is what came first,
  and a bare network error means that the network failed.
* `BodyIsLetGo`: no stream stays open for ever, iterated or not.

Properties of `jobs_wait`:

* `VerdictIsTrue`: "no result, refunded" is said of no job that has a result, a completion
  means that the job was fetched, and a result that was announced is refused only when its
  body was deleted after somebody had fetched it.
* `StoppingHidesNothing`: a wait that gives up does not hide a job that was over before
  its last poll was sent.
* `WaitEnds`: a wait whose job is over, or whose caller gave up, ends or hangs in a body.

`OnePollMore`, at most one more poll after an abort or the deadline, is proved only.

Properties of `qa`, for every point at which guard, driver or machine may die:

* `TypeOK`: types, only inference has a ceiling, and a driver about to dispatch has an
  admission.
* `DispatchedIsOnRecord`: what was dispatched is in `state.json`, and in its durable copy.
* `NeverTwice`: no identity is dispatched twice, before or after crash or repair.
* `ClaimedOnce`: a phase is granted to one driver.
* `NothingAfterATear`: once an operation was left in the middle nothing is admitted.
* `WithinSpend`: the ceilings of what was really dispatched never sum up to more than planned.
* `PythonWaits`: when the second phase is granted every priced request of the first has a
  receipt or was refused, although the audit takes no lock and its proof may be stale.
* `CompleteIsObserved`: a complete phase has no request without an outcome, also when a
  repaired run shares the phase with the driver it continues.
* `ZeroIsEarned`: when a driver ended with status zero, the journal says, and will after any
  crash, that its phase is complete without a failed check, and every request dispatched
  in it, or in the first phase, was answered.

`WithinRequests`, no more POSTs than planned and one "auto", is proved only.

Properties of `py_chat`:

* `TypeOK`, `OneChargePerMember`, `VerdictIsTheBill`, `ImplementsBilledTurn`: as for `chat`,
  the second SDK against the same abstract turn.
* `OneBillUnlessOptedIn`: a turn is charged twice only if the caller accepted the chain of
  the client, whichever field of whichever gateway named the models.
* `NothingIsDropped`: every attempt, of every member, carries all that the application asked
  for that its shim has a rule for, and asks for no model but those it listed.
* `StreamIsWhole`: a loop over a stream that ends by itself was given every chunk up to the
  terminator or the end of the body, and no error frame was passed over.
* `TurnEnds`: the turn ends unless a body trickles for ever, since every few bytes start the
  socket's timeout afresh.

The type invariants of `SpendBudget`, `PySpend`, `Stream`, `JobsWait` and `McpServer` are proved
for every instance and therefore not run.

Properties of `mcp`:

* `EveryRequestOneReply`: for every id, what was asked is what was answered and what waits,
  a request being a message with an id and a line that is no message; notifications need
  not be answered and are at most once.
* `CheapestFirst`: a table shows every model once, and no answer that tells its cost stands
  below a failure, an untold cost or a dearer answer.
* `NothingIsHeldUp`: a call is answered however its turns fail and whatever the others do,
  unless a turn of its own never ends.

**Bounds.** Two retries are the default and give a first, a middle and a last attempt. A
chain of two has a first member with the bare key, a suffixed one, and a last. The
answers contain one of each kind the code treats differently: served, charged failure,
retried refusal, refusal that is not retried but falls back, capability refusal,
"retry shortly" 409, final refusal. Three callers are enough for two of them to be
admitted on a balance that a third is about to exhaust; five receipts overflow a tail of
two and pass the budget. `MaxSeen` only bounds the number of receipts. In `PySpend`
two threads with two requests per call and turns of one unit reach the largest overshoot of
a budget of one, in five responses, and overflow a tail of one; a receipt may be complete,
that of a stream, or none. The scripts of `stream` have frames after
`[DONE]`, an error frame in the middle, a body without `[DONE]`, an unterminated chunk,
error and `[DONE]`, and no frame at all; three to five frames allow reads of several
frames, with noise among them, while others are still on their way. A pause of 2 under a
limit of 3 is doubled once past the limit; `extra` stops counting at 2. In `QaGuard` two
crashes (`MaxCrashes`) allow one in the middle of what follows the other; two requests
and a spend limit of 2, with ceilings of 1 and, for "auto", 2, let every limit be reached
by a combination of requests; an identity of the caller's own collides with itself. GETs
are not allowed in this instance (`ReadLimit` 0) and route requests only in the second
phase. The driver of the second phase is started, if at all, when the first is over one
way or the other. The two drivers of the first phase meet both crashes when there is no
second phase; one of them and the driver of the second meet one, after the start of the
latter; a campaign of all three meets none. `ready` is
called once per phase, and the audit runs only while its proof can still be looked at.
The turns of `py_chat` give every field a request has, together, and each reason to refuse
one by itself; a chain whose second member is refused by the header writer; and for each
shim a request that is translated with everything it can carry. Five models
are one more than a header may list after the primary. Three frames allow a chunk, a
frame to ignore and an error or terminator, in any order, before the tail.
The session of `mcp` uses an id for a request that waits and one that
does not, asks to compare one model and more than the limit (3 stands for the 5 of the
code), and contains a blank line, one that is no JSON, an unknown tool, and notifications of
the known and of an unknown kind and one that calls a tool; the key may be missing.

**Fairness** (`FairSpec`). The client's own code runs between awaits, so its steps are
weakly fair; `setTimeout` fires; a `fetch` rejects once its controller is aborted, and a
body in the middle of being read does so too, which is what the platform's `fetch`
does and what an injected one must do. Nothing else is assumed: the gateway need not
answer, the caller need not abort, a body need not end. The transport clears its timer
when the head is in (172), which is why `TurnEnds` has its second disjunct. In `Stream` what the client
awaits settles, and the idle clock runs out if nothing stops it; it takes minutes, so
`IdleFires` is enabled only where the client waits for bytes, for its consumer or for a
cancel. The consumer need not ask for more, nor the gateway send or end anything.
In `JobsWait` a pause ends, an answer is acted on, and a request settles, fails or hangs
in its body; the job need not move. `QaGuard` and `LiveQa` state safety only. In
`PyChat` the thread runs, pauses end, and a head that does not come in, whose length
`http.client` bounds, ends in the socket's timeout; of the reading of a stream
(`PyStream`) nothing is assumed, neither that it is read nor that it ends. In `PySpend` a thread in a hook goes on
whenever it can: it may wait for a lock while another takes it, but only for as many
responses as there are. In `McpServer` a turn ends or hangs;
the host need not send anything.

**Deadlock** is checked in every run; a finished turn stutters (`Over`).

## 5. Findings

1. `transport.ts:33-34` says that the clock of a stream "restarts on every byte, including
   the gateway's `: keep-alive` comments". It restarts at `stream.ts:58`, when the
   consumer's `next()` takes bytes from the body: a consumer that pauses for longer than
   `streamIdleMs` is told there were no bytes although they came all the time.
2. `jobs.ts:53` says that "a timeout or abort stops waiting". `wait` looks at both only
   when a poll was answered (`jobs.ts:82-91`), does not pass its signal to `status` and
   `result`, and the timer of a request is cleared by its head (`transport.ts:171-173`):
   a body that never ends holds the wait for ever. So does in Python one that trickles
   (`client.py:335`, `339`, `transport.py:51`), past the `timeout_seconds` of which
   `client.py:330` says that it "stops waiting". The run has a waiter of each SDK, and TLC
   stops at the first trace; with `Python` set to both waiters, or to none, it finds the
   like for either SDK alone.
3. `CHANGELOG.md:51` says that `receipt` holds the receipt of an error that was charged, in
   Python too, and `errors.py:43` that a charged error is never retryable. `_open_stream`
   (`client.py:273`) builds the refusal of a stream without its receipt.

4. `cards/portability.card.json:6` says "Never silently drop a constraint", `portability.py:1-3`
   that a field Conifer cannot honour raises, and `tests/test_sdk.py:1965-1967` fails every
   field that "was accepted and then SILENTLY DROPPED", over a list of its own. The shim
   itself has no rule for fields it does not know: OpenRouter's `max_completion_tokens`
   or `stream: true`, or a `Helicone-Cache-Enabled` that is neither "true" nor "false", is neither refused
   nor sent (`portability.py:108-131`, `242-245`). What the shims do know is never lost
   (`NothingIsDropped`, proved as `KnownFieldsAreKept`).

A bound to be read with care: `receipts.ts:123` and `README.md:380` give "budget plus one
turn" as the worst case of a `SpendBudget`. That is so for calls one after the other.
Callers that run in parallel have all passed the check before one of them is charged, and
a vendor's client repeats requests behind it; `WorstCase` of `SpendBudget` and `PySpend`
is the bound that holds for them.

A disagreement no run is spent on, for it takes one message to see: `mcp/server.ts:300` says
that `handle` returns `undefined` "for a notification". It does for
`notifications/initialized` (314-315); every other message without an id, such as MCP's
`notifications/cancelled`, is answered under the id null, with an error or, if it is a call,
after it has run. `EveryRequestOneReply` does not count such a reply as required, and allows
no more than one.

"Failures sink to the bottom" (`mcp/server.ts:191`) is true as far as costs are told: the sort
is by cost alone, so an answer that tells none may stand below a failure. `CheapestFirst`
says what the sort does.

An assumption rather than a finding: both clients let a chain move on from a capability
refusal whether it was charged or not (`client.ts:134`, `client.py:229`). This would pay
twice if the gateway ever charged such a refusal, so the answers of the runs contain none,
and the theorems that need it say so (`CapabilityIsFree`).

## 6. What is proved

All theorems hold for every value of the constants under the named assumptions of the
modules: `Answers` are answers, `MaxRetries` is a natural number, `MaxMembers` a positive
one, `Identity` any sequence; `Callers` any finite set, `Budget` and `MaxCost` any natural
numbers, `Kinds` receipts that cost at most `MaxCost`; `Threads` any finite set that `Free` is not in,
`Attempts` any positive number; any set of `Scripts`; any set of
`Waiters`, `Python` among them or not, and pauses `Poll`, `MaxPoll`; any `Script` of lines and set of `Ids`; any set of `Drivers`, and any limits, identities and
number of crashes in `QaGuard` (`CampaignAssumption`).

`ChatProofs`:

* `ChargedIsNeverRetryable`: case analysis of the taxonomy.
* `TypeCorrect`, from `TypeInv`. `TypeOK` alone is not inductive: the counter is
  incremented when a pause ends, so one must know that the loop only pauses while an
  attempt is left, and that what it holds of a response is one of the gateway's answers.
  `PausesOrEnds` says how every wait inside the loop ends.
* `AtMostOneCharge`, from `KeysInv`: every attempt carries the key of a member already
  tried, and no two attempts that run or were charged share a key. The charges then map
  injectively to the members 0..index.
* `NothingIsSentAfterACharge`, from `PaidInv`: once paid, the caller is gone or the
  request is over with an outcome the chain does not advance from. Assumes
  `CapabilityIsFree`, without which it is false (end of section 5).
* `CancellationIsFinal`: by cases on the step.
* `TurnImplementsBilledTurn`, from the three invariants above and `AttemptsInv`, which
  ties the attempts already sent under the current key to the loop counter: the abstract
  `Attempt` needs a number not used before, and a new member starts with none, because
  keys of different members differ (`KeysDiffer`). Assumes `CapabilityIsFree`.
* `TheVerdictIsTheBill`, from `VerdictInv`, over the gateway's state. `VerdictIsTheBill`
  only speaks of turns that are over; what makes it true holds all along, as long as every
  attempt under the key got an answer: while the loop waits, the attempt it waits for is the
  only one of its key at the gateway, in flight, running or charged (`OneOutstanding`); once a
  head is in, none is left there to be charged later, and the key was charged exactly if the
  answer has the receipt (`Told`); and the loop only goes round after an answer that was
  free. No step of the gateway can unsettle that (`GatewayKeepsItsWord`). Needs
  `AttemptsInv`, for a new member's key is one no attempt carries.

`SpendBudgetProofs`:

* `TypeCorrect`, with lemmas on `Push` and `Observe`.
* `OvershootIsBounded`, from `BudgetInv`: what is spent plus one full turn for every call
  in progress is below `Budget + MaxCost * Cardinality(Callers)`. It holds when a call is
  admitted, because then the budget was not yet spent, and no other step increases it.
  `WorstCase` by itself is not inductive, since it does not know of the calls in progress.
* `TotalsStayExact`, for any number of receipts, from `RecordedInv`: the application's
  collector has the sums over all it recorded since its last reset, and their newest in its
  tail, and the budget's the sums over all it ever saw (`AddedUp`, of each). The sum over a sequence is a recursive function (`Total`), and no prover here can do
  induction over it; but a behaviour of the system is an induction. So the invariant says
  that a running total of what was recorded exists and that each of them ends at the
  collector's (`AddsUpTo`), which one more receipt preserves.

`PySpendProofs`, for every number of threads, requests per call and price of a turn:

* `TypeCorrect`, with `BlockType`: the two halves of the locked block are one `Record`.
* `ReadersSeeWholeReceipts`, from `LockInv`: the lock is held by exactly the thread that is
  in the block, and only for that thread, between the halves, does the collector differ
  from what it should be. `ReadsAreExact` itself says nothing of the time when the lock is
  held, so it is not inductive.
* `OvershootIsBounded`, from `BudgetInv`: what is spent plus a turn for every pending
  request, a pair of a thread and the number of its attempt, stays below the limit. A
  request is pending from the moment its call passed `check()` until the budget's hook has
  summed it or the call is over; `CallTries` keeps the attempts counted from one.
* `NothingEscapesTheBudget`, from `AccountInv`: the budget is behind the application's
  collector by exactly the receipts (`Owes`) of the threads between the two hooks, and by
  nothing when no hook runs. A callback that throws does not undo the one or skip the other.

`StreamProofs`, for every set of scripts:

* `TypeCorrect`, from `TypeOK` itself, which is inductive, with `LoopSteps` for what one
  turn of the frame loop may do.
* `NothingAfterAStop`, from `StoppedInv`: after `cancel()` the iterator is either marked
  cancelled or at a point where its next read cannot bring data, and a caller's abort is
  visible as the signal unless the lease was released.
* `NothingStaysOpen`, from `EndInv`: where nothing more is read, the body is closed and
  read to its end, or torn down.
* `TheErrorNamesTheCause`, from `CauseInv`: the lease keeps the first cause, and a failed
  read means a network that failed or a controller that was aborted.
* `NormalEndsAreWhole`, from `DeliveredInv`: while the loop runs, what was handed out is
  exactly the chunks among the frames it consumed, none of which was an error or `[DONE]`.

`JobsWaitProofs`:

* `TypeCorrect`, with `VerdictValues` for what the tests of `wait` conclude.
* `VerdictsStayTrue`, from `VerdictInv`: what a waiter was told and has not acted on still
  holds of the job, because a job that has a result keeps it and a refund is final.
* `NoResultIsHidden`, from `OverInv`: a job that was over when the poll was sent is still
  over, and the answer says so.
* `AtMostOnePollMore`, from `PollInv`: a waiter that polled after it was stopped does not
  reach a pause again.

`QaGuardProofs`, for every number of drivers and crashes, and of requests and their prices. `Effect` says once what any
handler may do to the journal and `Steps` what all other steps leave alone, so that each
invariant is proved over a handful of cases:

* `TypeCorrect`, from `TypeInv`: the durable `state.json` only lags behind the visible one,
  and what an operation holds in memory only adds to it (`Extends`).
* `NothingIsAdmittedAfterATear`, from `TearInv`: between its first sync and its last the
  marker of an operation is visible and durable, so whatever dies leaves it behind.
* `ClaimsAreSingle`, from `ClaimInv`: whoever was granted a phase has a durable claim file.
* `NothingIsForgotten`, from `RecordInv`: the row a driver is about to dispatch is durable.
* `NoIdentityTwice`, from `UniqueInv`: identities of rows differ, and a row that may still
  be dispatched is held by one driver and was not dispatched before.
* `RequestsStayWithinThePlan`, from `CountInv`: the rows on record stay within the limits,
  and what was dispatched maps injectively to them.
* `CompleteMeansObserved`, from `CompleteInv`, over every state that is or may become
  `state.json`.
* `PythonFindsItSettled`, from three invariants: a row says "refused" only if the gateway
  refused it (`RefusedInv`); what an audit found, and what a proof attests, stays settled
  (`AuditInv`); and once the second phase is granted no handler touches the first
  (`DoneInv`). The proof that is compared with `state.json` at the claim joins them.
* `CeilingsStayWithinThePlan`. Sums again, this time over rows that are edited in place, so
  they are counted instead: a request of ceiling c is c pairs (`Units`), and what a sum says
  of a list is a cardinality. `ReservedInv` says that what a state has reserved is the number
  of its units, within the limit, and that only an admission adds to it; `RunningInv` that
  `CapSum` is the number of units dispatched; and the second map injectively to the first.
* `ScriptsAreDrivers` (`LSpec => Spec`): the scripts of `LiveQa` only take steps of
  `QaGuard`, so all of the above holds of them.
* `ZeroMeansComplete`, from `ExitInv`: in every state that is or may become `state.json`, the
  phases of the drivers that succeeded are complete without a failed check, which no handler
  takes back (`HandlersKeepOutcomes`), and the second phase begins after the first is complete
  (`InOrder`); the rest is `CompleteInv`.

`PyChatProofs`:

* `SdksAgree`: case analysis of both taxonomies over every refusal.
* `TypeCorrect`, `AtMostOneCharge`, `TheVerdictIsTheBill` and `TurnImplementsBilledTurn`, along
  the arguments of `ChatProofs`; the key is no variable here but follows from the member. Of
  a stream the verdict says nothing, because the opening of one forgets the receipt
  (section 5); that such an error is not retried after a charge (`PaidInv`) is because a
  stream has no chain. `TurnImplementsBilledTurn` assumes `CapabilityIsFree`.
* `OneBillOrConsent`, from `AtMostOneCharge` and `GoodInv`, which says that what is refused
  never gets under way: more charges than one need a second member, and
  `ChainsAreOptedInto` says that only `chat()` walks one, after the opt-in, whichever shim
  made the request.
* `KnownFieldsAreKept`, for every request of every gateway: each shim carries over what it
  knows (`ForeignIsKept`), the writers write what a request gives (`OnTheWire`), and the
  members of a chain differ in the model alone. That a list of substitutes survives its
  deduplication (`EveryModelSurvives`) needs the first of the places where a model is named,
  and with it the least-number principle, which `Least` gets from the well-foundedness of
  set inclusion on finite sets.
* `StreamedTurnsAreTurns` (`PSSpec => Spec`): reading a stream is a stutter of the turn, so
  all of the above holds while the stream is opened, read and left.
* `StreamsAreWhole`, for any frames in any number: `StreamInv` says that what the generator
  took up is what came first, that the chunks among it are those it gave, and what the
  generator may still do after each of them.

`McpServerProofs`, for every session and every way to cut it into chunks:

* `TypeCorrect`, with `MovesOf` for what a step of a call may do.
* `OneReplyEach`, from `RepliesInv`: a line that waits has arrived, and all lines `handle`
  replies to, notifications that it mistakes for requests among them, are answered or wait. A
  chunk adds two disjoint sets of lines to those, the answered ones to the replies and the
  others to those that wait (`DisjointSum`).
* `TablesAreSorted`, from `ShownInv`. The place of an entry is one more than the number of
  those before it (`Before`, a total order), which makes places strictly increasing
  (`PlacesGrow`); that they are all of 1..n, so that each model is shown once, is the
  pigeonhole principle (`SortedIsAPermutation`).

Only model-checked: `BodyIsLetGo`, `TurnEnds` of both SDKs, `WaitEnds`, `HooksReturn` and
`NothingIsHeldUp`, all of them liveness under fairness, which is out of the provers' reach.
Every invariant, action property and refinement of a passing run is proved.

## 7. What is not modelled

Parts marked `not_modelled` in `PROJECT.json`, and inside the modelled parts: the lengths
of timeouts and pauses (only their order matters to the properties), texts of messages,
the payload of completions, `retry-after`, the amounts parsed from 402 messages, the
routing and pricing of the gateway, and TLS, DNS and sockets below `fetch` and `urlopen`.
Of the MCP server the requests it builds (`completeRequest`) and the payloads of its
tools. Of the Python client the headers a caller adds by hand, `with_cost`, the parsing of
receipts, and `vercel_gateway_config`; of the QA drivers the contents of the checks. A
foreign list of substitutes that is empty is one that is missing, and which of two
reasons a refusal names is left out. A stream whose generator is dropped without being
closed is one that is left.
