# A verification of the analytics operator repository

The service stores analytics operators in MongoDB and keeps an entry per
operator in permissions-v2. This directory models the parts of it in which
concurrency, failure or ordering can go wrong, checks the models with TLC on
small instances, and proves the core of them with TLAPS.

Paths below are relative to the repository (`src/` here).

## 1. The system

| part | state | operations | what is hard |
|---|---|---|---|
| versions of an operator, `lib/versions.go` | none (pure, on a slice) | `PutVersion`, `RemoveVersion`, `NewestVersion`, `CheckTopLevel` | numeric label order, uniqueness, deprecation, the last version |
| operator updates, `pkg/db/repo.go` | one document: revision, versions, top level | `UpdateOperator`, `PutOperatorVersion`, `DeleteOperatorVersion`, `writeIf` | read, decide and write are three steps, with other clients in between |
| operator lifecycle, `pkg/db/repo.go` | documents, and entries in permissions-v2 | `InsertOperator`, `DeleteOperator`, `DeleteOperators`, `ValidateOperatorPermissions` | two stores without a transaction; crashes; batches |
| service, `pkg/service/service.go` | none | order of rights check, usage check and delete | checks that are out of date when acted upon |
| usage clients, `pkg/flowrepo`, `pkg/pipelines` | none | `Usage` | "unknown" must never become "unused" |
| listing, `MongoRepo.All`, `FindOperator` | none | queries with limit, offset, sort, search | four calls that are not atomic, limits |
| HTTP API, `pkg/api` | the request context | middleware, handlers, `statusCode`, `safeError`, `isAdmin`, `getUserId` | which error reaches whom as what, who a request is for |
| process, `main.go` | exit code, context | start, listen, stop | goroutines that end in any order |
| command tracer, `pkg/db/tracing.go` | open spans | `started`, `succeeded`, `failed` | events of several connections, under the same request ids |
| build gates, `tools/` | none | coverage gate, vulnerability gate | line arithmetic, base selection, input read line by line |
| configuration, logging, connection | - | set-up | nothing that runs concurrently |

Parts interact by calls only. A request runs in a goroutine: handler, service,
permissions-v2 (rights), flow repository and pipeline registry (usage),
MongoDB. Two requests meet in the stored document and in the permission entry.
The start of the process (`service.New`) reconciles the two stores before the
listener is opened. The driver of MongoDB calls the command tracer for every
command. The gates of the build are programs of their own that read what git,
`go test`, and `govulncheck` print.

What makes each part correct:

* **versions**: a label and an image identify a version; the list is sorted by
  number; the newest live version is found; the last version stays.
* **updates**: the top level, which clients unaware of versions read, is always
  that of the newest version; no update is lost; a refusal or conflict is true
  of the stored operator; only a version whose usage was asked is removed.
* **process**: it ends when asked or when it cannot serve; success means nothing
  was cut.
* **lifecycle**: an operator and its entry exist together, except while a
  request is between its two writes; what a fault leaves apart, the next start
  puts right; an operator that was reported as created stays reachable; a
  refused delete deletes nothing.
* **usage**: only a clear answer "not in use" from both services, at the time they
  are asked, lets an unforced delete pass.
* **listing**: a list shows nothing its caller could not read, and everything
  that page and total claim, except what was renamed while it was read; pages
  follow on from each other.
* **API**: a request is served for the user it is from, or, if an admin says so,
  for another; it is answered with what happened, with a documented status unless it
  is from nobody, and with nothing of what the systems below said.
* **command tracer**: every span ends once, as its command did; none is kept.
* **gates**: green means that the criterion is met, red that it is not.

The hazards, at their lines, with the properties that would notice them, are
listed under `hazards` in `PROJECT.json`; those without a property carry a note.

## 2. The modules

| module | models | correspondence |
|---|---|---|
| `VersionSet` | `lib/versions.go` on a set of versions | operators of the same name; a label is its rank |
| `VersionCatalog` | the promise of the put and remove functions | abstract machine: a call, its outcome |
| `VersionList` | `lib/versions.go` on the slice | one action per turn of a loop, per early return and for what follows the loop; refines `VersionCatalog` |
| `VersionListProofs` | - | its invariant and theorems |
| `OperatorRequests` | request bodies, what makes them invalid, their effect | shared by the next two |
| `AtomicOperator` | the promise of the repository to the clients of one operator | abstract: every request takes effect at one instant |
| `OperatorVersions` | the document of one operator and the requests on it | one action per database call and per check; refines `AtomicOperator` |
| `OperatorVersionsProofs` | - | the inductive invariant and the theorems |
| `OperatorLifecycle` | creating, deleting, reconciling, ending | one action per call to MongoDB, permissions-v2 or a usage service |
| `OperatorLifecycleProofs` | - | its invariant and theorems |
| `ServerProcess` | `main.go`, `util.Wait` | one action per step of a goroutine |
| `ServerProcessProofs` | - | its invariant and theorems |
| `ListOperators` | `All`, `FindOperator` | one action per database or permission call; others write in between |
| `ListOperatorsProofs` | - | its invariant and theorems |
| `ApiRequests` | `pkg/api`, both usage clients, the service between them | one action per middleware, handler and service call |
| `ApiRequestsProofs` | - | its invariant and theorems |
| `CommandTracer` | `pkg/db/tracing.go` | one action per event, cut at the lock |
| `CommandTracerProofs` | - | its invariant and theorems |
| `CoverageGate` | `tools/coveragegate` | one action per line of a diff or profile |
| `VulnGate` | `tools/vulngate` | one action per line of go.mod, per message of the scanner and per finding |
| `GatesProofs` | - | the invariants and theorems of both gates |
| `MC...` | - | instances for TLC; `MCGates` chooses one of the two gates for each behaviour |

### VersionList

`versions` is the slice and `call` the function that is called, with its argument.
`next`, `result`, `created` and `newest` are the local variables of `PutVersion` and
`NewestVersion` while their loops run. `PutIncomplete` is the checks before the
loop, `PutNext` one turn (`Taken` is its early return), `PutVersion` what comes after:
append, sort, return. `StableSort` is what `slices.SortStableFunc` promises: the one
order in which smaller elements come first and equal ones stay in place.
`NewestVersion` takes a list in any order (`Questions`), as its loop does not rely on
one.

### OperatorVersions

`doc` is the document (`rev` is its `version` field, the revision; `versions`,
top level `image` and `ports`; `meta` for the free fields), or `Gone`. Per
client, `pc` is the next call its request makes, `stored` what `findStored`
returned. `FindStored` covers `findStored` and the pure part of `applyUpdate`,
`applyVersionPut` or `applyVersionDelete`, which run on what was read and touch
nothing else; `CheckUsage` is the `check` callback; `WriteIf`, `WriteMissed` and
`CountDocuments` are `writeIf`. `Matches` is the filter: the revision read, or,
for an operator read without versions, that there are none. `Written` is
`$set` and `$inc`. A write may take effect although its call fails.

The permission check reads nothing that the module has and comes before
anything else, so it is one nondeterministic action (`Deny`). A right that is
withdrawn after the check does not stop the request; the code accepts that.

### OperatorLifecycle

`owner[i]` is the owner in the document of id `i`, or `Nobody`; `rights[i]` the
users who may administrate `i`, none if it has no entry. `request[u]` is the
request of user `u` with the position it has reached in its list of ids.
`InsertOne`, `SetPermission`; `Check`, `Usage`, `UsageDone`, `Recheck`,
`FindOneAndDelete`, `RemoveResource`, `DeleteDone` follow the code call by call.
`boot` is a starting process: `AllOperatorOwners`, `ListResources`, `Grant`,
`Purge`, `Serve`. A call may fail without (`CallFails`) or with (inside the
action) its effect; the process may end at any point (`Stop`) or give up
starting (`StartFails`). `Share` is the surroundings: a user who may
administrate an operator changes who may. An administrator of the platform,
whom the topic's default gives every right, is not a separate role: it is a
user who has been given the right. The services asked for the usage answer
freely. The ids of a batch are well formed here: a malformed one, for which
permissions-v2 would have to have an entry, ends the loop of `DeleteOperators`
(`pkg/db/repo.go:226`) where a missing document does, and is an outcome of `Delete` in
`ApiRequests`. One process runs at a time.

### ServerProcess

`main` is where the main function is; `waiter`, `listener` and `stopper` are its
goroutines; `cancelled` is the context, `closing` the flag Shutdown sets in the
http server, `code` the exit code, `caught` the channel of `util.Wait`. A signal
that arrives while the waiter is not registered (before `signal.Notify`, and
again after `signal.Stop`, so also a second signal during the shutdown) kills
the process, which is its default effect. Storing the exit code, cancelling and
`wg.Done` at the end of a goroutine are one step: nothing reads the code before
`wg.Wait` has returned. The listener may fail to bind its port even after `Shutdown`
has begun; once it accepts, `Shutdown` turns every failure into `ErrServerClosed`
(`MayFail`). Requests begin only while the server listens and is not
closing, and may hang for ever.

### ListOperators

`step` is the next call of the one request of the caller, `request` its kind and
arguments with the ids that permissions-v2 listed; `cursor` holds the documents that
the query has given out (`page`), those that it will come to (`ahead`) and whether it
is still open (`more`), `total` is the count. `stored`, `readable` and `name` are what
is there, and `Write` is anybody else: `Create`, `Delete`, `Rename` (an update sets
`name`) and `Share`. `ListAccessible`, `Find`, `CountDocuments` and `Rest` are the calls
of `All`; the query returns a first batch of `BatchSize` documents and gives out what
is ahead of it, as one step, after the count. `CheckPermission` and `FindOne`
are those of `FindOperator`. `Limit`, `Skip` and `Refused` are what `All` makes of
its query parameters, `Rows` which part of an order that is, `Selected` the filter,
with and without search. `seen` is history, which no action depends on: what the
caller could read at some moment, what was there throughout under one name, and
whether nothing was written; so is `last`, the list before.

`Ahead` is what a write does to an open query. MongoDB either has put everything in
order before the first batch; then the query does not see the write. Or it walks an
index, such as that of `name` (`pkg/db/db.go:131`); then the one document that is
written is met where it is now, or that place has been passed. So an operator renamed
between the batches may be missed, with `limit=0` too, or be given out twice: the code
does nothing against it, and `ShortPageIsComplete` speaks only of those that kept their
name. That the query comes to every other document is what is assumed of MongoDB.

The order of `All` is the name alone, so MongoDB may put operators of the same name
in another order for each page. `PagesFollow` says what is left to a reader of
pages then: nothing on the second page comes before something on the first, and an
operator between them is missing from both only if another one *of the same name*
is on both.

### ApiRequests

A behaviour is one request with any headers, token, query parameters and body,
on its way in through the middleware (`GinOpenTelemetry`,
`DiscardBaggageErrors`, `AuthMiddleware`), through its handler into the service, and out
through the handler and `ErrorHandler`. `errors` is `gc.Errors`; an error is
one of the sentinels of `lib/errors.go`, or `internal` for what database,
permissions-v2 or anything else below said, or `generic` for what `safeError`
makes of it. `Repository` is the outcome of what the other
modules model in detail. A delete asks both services: `AskFlows` and
`AskPipelines` take any answer of `UsageAnswers` (none, an error, one that
cannot be read, one without a count, the truth of that moment) and `flowUsage` and
`pipelineUsage` are what the clients make of it. `uses` is the truth, which
`SaveOrRemove` changes at any time until the delete is done; `was` is history: what has
been asked, and what of it was used at that moment. Check and delete are not atomic: "a
flow or pipeline saved in between is not seen" (`pkg/service/service.go:148`,
`docs/operator-versions.md:64`). So `UsedWhenAskedIsKept` speaks of the moment of the
question and not of that of the delete.

`AnswersAsDocumented` compares the status with those that the comment above the
handler lists (`Documented`). The 401 of `AuthMiddleware` (`pkg/api/api.go:213`) is in
none of these comments, nor in `docs/swagger.json`, although every operator route
may answer it: a gap of the documentation. The property keeps it apart: who is known never gets a
status that is not listed, and who is not gets 401 and has reached nothing.

### CommandTracer

`spans` is the map, `stage[c]` where command `c` is (a command is a connection
and a request id, which is used again when the command has ended), `held[c]`
the span that the event handler has in a local variable while it is outside the lock, and
`span[s]` what has become of span `s`. `Started` and `Store` are the halves of
`started`, `Take` and `End` those of `succeeded` and `failed`.

### CoverageGate and VulnGate

`CoverageGate` prints a diff and parses it at the same time: `git` is where git
is in its output (headers, hunk headers, body lines, of which some look like
headers), `parser` is the state of `parseDiff`. It does so twice, for the branch and for
the working tree, then reads the blocks of the profile, in any order and more
than once, and concludes. The refs of the repository and the setting of the base are
chosen freely at the start. `truth` is the history: the lines that the change
wrote, counted in the working tree. `VulnGate` does the same with the lines of a
go.mod (blocks of every kind, comments) and the messages of the scanner. `required`
is the history: what go.mod requires directly. Then it reduces the findings, one per
step, as the loop of `collectCalled` does: `next` is the finding it is at, `vulns`
the map it fills.

## 3. The runs

| run | question | instance |
|---|---|---|
| `operator_versions_safety` | do concurrent requests keep the document consistent, and implement the atomic operator | 2 clients, 2 labels, 2 images, absent and explicit ports, revisions up to 3 |
| `version_list` | does the slice behave like the set | 6 labels, among them one whose number does not fit, 3 images; every reachable list |
| `lifecycle_safety` | do the two stores stay together | 2 ids, 2 users, lists of one or two ids (also the same twice), 1 fault |
| `lifecycle_restart` | does a restart repair | 2 ids, 1 user, 2 faults, under fairness |
| `server_process` | does the process end, and does its exit code tell how | 2 requests, 2 signals |
| `lifecycle_batch` | is the batch delete all or none | 2 ids, 2 users, no fault: it is not |
| `list_operators` | does a list show what it claims | 4 operators, one the caller's own, two of the same name, one that the search leaves out; 3 names; limits absent, -1, 0, 3 (the cap is 2), offsets absent, -1, 2; batches of 1; 1 write |
| `api_requests` | is every request answered with what happened | every request, on every route, of at most 2 ids; any use of them, changing at any time |
| `api_doc_route` | do only sentinels reach the caller, on every route | the same: on one route they do not |
| `command_tracer` | does every span end as its command did | 2 connections with 2 request ids each, 3 spans |
| `build_gates` | are the gates green when and only when they should be | 3 files, one of them a test; lines up to 3, hunks of up to 2 lines on either side, 2 of them; 3 blocks reported up to 4 times; a go.mod of 5 lines with 2 modules; 2 findings |
| `gate_new_file` | does the gate measure the lines that the change wrote | the same: it does not |

Why the bounds are enough. A race needs two requests; with two clients each
making any number of requests one after the other, a third writer is one of the
two that has finished. Two labels and two images give every order, collision
and replacement of two versions, and the revision bound of 3 lets a request be
overtaken twice. `VersionList` needs labels that differ in each position and
in opposite directions; three images fill a list of three versions. In the
lifecycle two ids are needed for a batch and for a purge next to a grant, and
one fault is what separates the stores; two let the repair itself fail once.
`MaxRevision` stops new requests, `MaxFaults` stops failures, `MaxSignals` stops
signals, and `Ids` is how many operators are ever created; those modules have no other bound. In `server_process` the second request can outlive the first and the
second signal can arrive in the shutdown that the first began. In a list, one
write between two of its calls is what makes them disagree; four operators fill two
pages of two, with the border between the two of the same name, so each page may
choose its own order of them; with three names an operator can be renamed to before,
into and behind what a query has given out, and into or out of a search. An API
request needs two ids for one that is in use next to one that is not, and for an
answer that is missing after one that was fine. Two connections that use the same request
id are what the tracer's key is for, and the third span reuses an id. In the coverage gate
two hunks make the second one's numbers depend on the first one's, and the
second diff's on the first's; two lines to a side give a
count that is absent, zero and greater; a block is reported both run and not
run. In the vulnerability gate two findings are enough for the first to decide wrongly.
`MaxSpans`, `MaxWrites`, `MaxHunks`, `MaxReports`, `MaxLines` and `MaxMessages` end
the behaviours. The deadlock check is off where they end: in `server_process`,
`command_tracer`, `api_requests`, `api_doc_route`, `build_gates` and `gate_new_file`.

Every module with a specification has a type invariant, the vulnerability gate as
the first conjuncts of its inductive invariant. Those of `VersionList`,
`ListOperators`, `ApiRequests` and `CoverageGate` are in no run: there they could
only repeat how the model is written. They are theorems, since the proofs of the
other properties begin with them.

Each property is paired in `PROJECT.json` with a mutant, an operator with a
plausible bug of that code (the filter without the revision, the purge with a
capped list, the entry not removed), under which the run must fail.

The disagreements found. The API documentation of the batch delete says "all or
none" (`pkg/api/handler.go:334`). `lifecycle_batch` shows a list that names an
operator twice: its first occurrence is deleted, the second is not found, and
the request is answered 404. A list that races another delete, and a call that
fails in the middle, do the same. What does hold is `RefusalDeletesNothing`: a
refusal for rights, use or unknown use has deleted nothing.

The comment on `safeError` says that "only the sentinels we built ourselves may
pass through" to the caller (`pkg/api/api.go:177`). `api_doc_route` shows that
`getSwaggerDocH` (`pkg/api/handler.go:381`) passes on the error of `os.Stat` as
it is. All other handlers keep the rule, which is `InternalsStayInside`.

The coverage gate keeps "the line numbers the change adds or rewrites, counted in
the *new* file" (`tools/coveragegate/diff.go:27`). `collectChanged` puts two
diffs into that set: merge base to HEAD, whose new file is that of HEAD, and HEAD to
the working tree (`tools/coveragegate/main.go:215`). The tests run on the
working tree. `gate_new_file` shows a file changed by both: a line that the working
tree adds above moves those of the branch, and the gate measures others. For the
same reason `GreenIsEarned` speaks only of files that one of the diffs changes;
on a clean checkout, such as that of a pipeline, these are all files.

Fairness. `lifecycle_restart` assumes that the starting code and the
handlers keep running (weak fairness of `BootStep` and of each user's
`RequestStep`). The operator's platform restarts the process, which is `Start`;
failures are bounded by `MaxFaults`. Nothing is assumed about clients, sharing or
the end of the process. `server_process` assumes that a goroutine which can go on
does: main, the waiter, the return of `ListenAndServe` once the server is closed,
and `Shutdown`, which the limit of five seconds ends. It assumes nothing about
requests, signals, or the listener before it is closed. `command_tracer` assumes
that an event handler that has begun goes on (weak fairness of `Handler`), not that
the server answers. `list_operators`, `api_requests` and `build_gates` check safety
only and assume nothing.

## 4. The proofs

`OperatorVersionsProofs` proves, for any set of clients, labels, images and
requests and any revision bound, that `OperatorVersions` satisfies every
property of `operator_versions_safety`, and that it implements
`AtomicOperator`. It uses `LabelAssumption` (a non-empty set of labels has a
highest), `PortAssumption`, `ClientAssumption` and `DocumentAssumption` (the
special values are none of the ordinary ones); TLC evaluates all of them.

The inductive invariant is

    IInv == TypeOK /\ Approved /\ RevisionIdentifiesVersions
              /\ ConflictIsReal /\ VersionsIdentified /\ TopFollowsNewest

`TopFollowsNewest` and `VersionsIdentified` are not inductive: a write puts
what was computed from the versions *read* into the document. `Approved` says
that what was read allowed the request (it was not invalid and no version was
missing), and `RevisionIdentifiesVersions` that under the revision read still
those versions are stored; so a write that matches computes from the stored
versions. `ConflictIsReal` is the same for a write that missed.
`PutVersionUnique` and `RemoveVersionUnique` carry the rest, as lemmas on sets.

For the refinement, `ViewOfDocument` reads the fields through the mapping;
`WriteIfRefines` maps a matching write to `Commit` and uses the same argument;
`FindStoredRefines` maps a refusal to `Refuse`; a read that goes on, a usage
check that passes and a missed write are stutters. `DeleteRefines` maps the
delete, `GiveUpRefines` denials, refusals for use, failures and conflicts.

`OperatorLifecycleProofs` proves, for any ids, users, lists of ids that deletes
carry and number of faults, the type invariant, `CreatedStaysReachable`,
`RefusalDeletesNothing`, `PairedUnlessFault` and `StartRepairs`, from
`LifecycleAssumption` (the owner of nothing is not a user, a batch is a sequence
of ids). None of them is inductive: the stores differ between the two writes of a
request, and during a start. The invariant says where they may:

* `Local`: a request knows what it does; it has deleted nothing before its second
  rights check, and a refusal comes before that;
* `Fresh`: an id that has not been given out is in neither store, so a new
  document cannot meet an old entry;
* `Grants`: between the two writes of a create nobody but the creator knows of the
  operator, so nobody can delete it then and `SetPermission` always gives an entry
  to a document;
* `Deletes`: an entry is removed after its document, never before;
* `OneProcess`: a process starts when nobody serves and no request is under way;
* `Repairing`: what a starting process has read is still true, and every
  difference of the stores is in what it is about to grant or purge, so none is
  left when it has finished;
* `Paired`: without a fault, every difference belongs to a request between its two
  writes.

`RequestChange`, `BootChange` and `BootWrite` carry the steps that change only a
request, only what the starting process knows, or one entry; the steps that write a
document or an entry for a request (`InsertOne`, `SetPermission`,
`FindOneAndDelete`, `RemoveResource`) have a proof with one step per part of the
invariant.

`ServerProcessProofs` proves the type invariant, `CleanExitCutsNothing` and
`CleanExitWasAsked` of `ServerProcess` for any set of requests and any number of
signals. Its invariant adds `NothingStarted` (before the goroutines start nothing
is cancelled and no request runs), `InOrder` (context, then flag, then requests,
then the end of main) and `Asked` (without a failure, whatever has been set in
motion goes back to a signal).

`CommandTracerProofs` proves the type invariant, `EndsAsItsCommand` and
`HoldsWhatIsUnderWay` of `CommandTracer` for any connections, request ids and
number of spans. The properties speak of what is in the map, but a span leaves it
before it ends and enters it after it was opened; `OwnSpan` follows it
into the hand of its handler (`Current`) and says that it is open, the command's
own and knows the answer. `MapOfRunning` says which commands the map has, so that
`Take` finds one, and `EndedOnce` that an open span has never been ended.

`ListOperatorsProofs` proves all four properties of `ListOperators` for any
operators, names, parameters, cap, batch size and number of writes, from
`ListAssumption` (finitely many operators; parameters are sequences of integers, among
them the absent one). Type correctness and the properties are not inductive: a list is
read in two batches with writes in between, and the query's order is gone when it
has been chosen. The invariant brings it back:

* `InStep`: which request is at which call, and that its parameters were accepted;
* `Allowed`: what permissions-v2 listed was readable at some moment of the request;
* `Throughout`: what was there all the time under one name is still there and
  selected, and without a write it is all there is;
* `Batched`: page and what is ahead have everything between them that was there all
  the time under one name (`Covers`), and without a write they are *some* order of what
  the query found, in which the cursor stands behind the page (`Stands`);
* `Paged`: a list without a write, and the one before it, is a page of *some* order.

`WriteMoves` shows that no write takes from the query what keeps its name, `Continued`
that first batch and rest are one page of one order if nothing was
written, `RestReads` that otherwise what was there throughout is still shown.
`PagesAlwaysFollow` compares two pages of two different orders of the same set.
`OrdersAgree` counts: if something at position `b` of one order came before what is at an
earlier position `a` of the other, the first `b` of one would all be among the first
`a - 1` of the other. `TwoPages` counts again: something between both pages and on
neither is behind the border in one order and before it in the other, so
something else has crossed the border the other way, is on both pages, and cannot
differ in name.

This proof corrected the property. An earlier one said that what comes between two
pages is on one of them; it holds for three operators, but with four MongoDB may order two of
the same name differently for either page, and one is on both and the other on none.
The instance has four since then.

`ApiRequestsProofs` proves all five properties of `ApiRequests` for requests with any
number of ids, from `RequestAssumption` (requests are well-formed records, and only the
batch delete names more than one id). The properties speak of the end of a
request; the invariant says what is true on the way. `NothingYet`: before there
is a result, there is no error and no response. `Identified` and `Permitted`: who is
past the middleware, and past `deleteOptions`. `Counted`: the ids found in use are
those that were in use when asked, up to the one asked about; an answer that says nothing has ended the
request before. `Kept`: a delete begins only if none was in use when asked or the caller
may force it, and both services have been asked about every id (`AskedUpTo`). `Answered`: what the error handler will make of the response as it is
now (`Proper(Handed, result)`) says what happened and no more.

`GatesProofs` proves the properties of both gates, each for its own specification, and
carries them over to `GatesSpec`, in which one of the gates runs in a behaviour
(`GatesAreRight`).

`GreenIsEarned` of the coverage gate holds for any files, refs, base settings,
numbers of lines, hunks and reports, from `GateAssumption` (the bounds are natural
numbers, and no file has the path that stands for none). It speaks of the last
step; the invariant says how what the gate knows came to be what the change wrote:

* `InStep`: between two lines of a diff the parser counts, on both sides, the body
  lines that git has still to print, and knows the path and the line number that they
  have, so no body line is taken for a header, whatever it looks like;
* `InOrder`: what a diff has written in a file is above the line that it comes to
  next, and it comes to each file once, so no line is recorded for another;
* `Recorded`: what is read is what was written, in every file that not both diffs
  change;
* `Kept`: a block that a report has run stays covered, and the base is not the
  branch itself if there is another;
* `Concluded`: what the gate prints is what follows from them.

The premise of `GreenIsEarned` about files that both diffs change cannot be left out
(`gate_new_file`), but `CountedIfEditedOnce` states what the parser achieves without
the conclusion of the gate: for every file that one diff leaves alone, the lines
counted are those written.

`FixableIsBlocked` of the vulnerability gate holds for any modules, findings and
lengths of go.mod and stream, without assumptions. `Understood`: the parser is in the block in
which the file is, so what it holds for required is. `Whole`: the loop starts only
on a whole stream. `Reduced` is the invariant of the loop: one entry for each pair
of advisory and module among the calls passed, with a fix if and only if one of these
calls has one, in whatever order they came.

`VersionListProofs` proves all three properties of `VersionList`, for any labels, images,
ports and largest number. `TextAssumption` says that labels are triples of natural
numbers and that the malformed one is neither a label nor a number, `NoneAssumption` that
what stands for nothing is no version and no call. `BelowIsRank` shows that
`compareVersions` orders labels as one number does, their rank. The invariant adds to
`Ascending`:

* `AllValid`: every stored label parses (a label that does not would tie with `v0.0.0`);
* `Building`: what the loop of `PutVersion` has kept is, so far, the versions of the
  other labels, sorted; none of them takes the image, and `created` is right;
* `Comparing`: what the loop of `NewestVersion` has is the best of what it has met,
  live before deprecated and then by rank;
* `Fresh`: a function begins with fresh variables.

The sort is chosen, not computed, so it must be shown to exist: `StableOrderExists`
gives the place of the new version in the sorted rest. The refinement of
`VersionCatalog` maps the last step of a put or remove to that operation on the set
and all others to stutters. `RanksAreLabels` closes the gap to `OperatorVersions`, which
has ranks for labels: they satisfy the `LabelAssumption` that its proofs start from.

An earlier form of the module had the loops as folds over the slice. What a fold computes
for every slice needs induction over data, which the provers here cannot do; a loop of
steps has a loop invariant instead, and that is an invariant like any other.

Every invariant and every action property that a run checks, and both refinements, are
theorems. Only model-checked are the liveness properties `RestartRepairs`,
`EndsAfterSignal`, `EndsWithoutListener` and `AnsweredIsEnded`, which are out of the
prover's reach. The proof modules declare no recursive operator.

## 5. What is left

1. A refinement of the requests of `ApiRequests` by the calls of
   `OperatorLifecycle`, so that the two views of a delete become one.
2. Lists and pages with more than one write between their calls in the runs; the
   proofs allow any number.

Not modelled, and why:

* configuration, logging and the connection set-up: sequential and declarative;
* wire formats, bodies beyond well formed or not, reports that the gates print;
* CORS, access log, panic recovery and request ids of the HTTP layer, which come
  from a library and decide nothing;
* two processes that overlap: whether a start may run beside a serving process
  is decided by the deployment, which is not in this repository;
* cursors that the database server keeps, and the time after which it drops them;
* names that git quotes or puts a tab behind, and quoted words in go.mod: no file
  or module of the repository has one.
