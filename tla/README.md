# Verification of dns-reconciler

`dns-reconciler` reads the DHCP leases a VyOS router writes to CSV files and
makes the Cloudflare `A` records below one suffix (`MANAGED_RECORD_SUFFIX`) say
the same. It keeps no state of its own: every cycle reads all leases, lists all
records, computes the difference and sends it, one request after another.

This directory models the service in TLA+, checks the models with TLC and proves
the main safety results with TLAPS. The models are translated from the Rust
source; `PROJECT.json` names, for each definition, the lines it stands for.

## 1. Inventory

| Component | Source | State | Operations | Talks to |
|---|---|---|---|---|
| Main loop | `src/main.rs` | where it stands in the `select!` loop; whether the signal handlers are installed | initial sync, receive, debounce, drain, periodic timer, shutdown | watcher (channel), sync cycle (call) |
| Lease watcher | `src/leases/watcher.rs` | `previous` signature or error | poll, compare, `try_send` | main loop (bounded channel of 32), lease files (metadata) |
| Lease file reader | `src/leases/csv.rs` | attempt, files found, `rows_by_address` | discover, sort by time, read, retry | lease files, written meanwhile by the DHCP server |
| Desired state | `src/dns/desired_state.rs`, `src/leases/model.rs` | `candidates` | filter, choose one lease per name | called by the cycle |
| DNS names | `src/dns/validation.rs`, `src/dns/name.rs` | none | normalise, validate, compare with the suffix | called by planner, desired state, configuration |
| Planner | `src/sync/planner.rs` | none | `build_plan` | called by the cycle |
| Executor | `src/sync/executor.rs` | summary, place in the plan | create, update, delete, skip, dry run | Cloudflare client |
| Cloudflare client | `src/cloudflare/` | page, attempt | paged listing, three writes, retries | Cloudflare, over a network that may lose or delay |
| Sync cycle | `src/sync/mod.rs` | its locals only | read, list, plan, execute | all of the above |
| Configuration | `src/config.rs` | none after start | parse and validate the environment | main |

What is hard in it, and what makes it correct:

* **Requests that are not answered.** A timed-out request may have been done, may
  be done later, or never; the client sends it again, the cycle goes on to the
  next action, the process may die in between. Correct means: a name that
  resolves keeps resolving while it is reconciled, no record of another owner
  is touched, no address is published that was not leased to the name, a late
  request does no more harm than a cycle can mend, and the summary is true.
* **Stale knowledge.** Plans are made of ids listed earlier and of leases read
  earlier, while other writers and the DHCP server go on.
* **Two tasks.** The watcher and the main loop share one bounded channel that
  drops events when full, and read the same files at different times. Correct
  means that no change is left unread, and that what is read reaches the zone.
* **Files read while they are written.** The set of files is discovered, sorted
  and then read one by one while the DHCP server appends and cleans up.
* **A choice made in a loop.** The lease that wins a name must not depend on the
  order of the leases.
* **Names as strings.** A suffix of the text need not be one of the labels, a
  published name comes back in another spelling, and two hosts must never come
  to share a record by accident.

The full list, each at its line with the properties that watch over it, is
`hazards` in `PROJECT.json`.

## 2. Modules

| Module | Models | Uses |
|---|---|---|
| `DnsZone` | records, scope, the request bodies, what the server does with a request, the paged listing | |
| `Planner` | `build_plan`: filters, grouping, stable sort, the record kept, the order of the actions | `DnsZone` |
| `SyncCycle` | `sync_once`, `execute_plan`, `list_a_records`, `request_json`, over and over, with other writers, changing leases, lost and late requests, crashes | `Planner` |
| `ManagedZone` | the abstract specification: what whoever shares the zone may rely on | `DnsZone` |
| `Watch` | the watcher task and the main loop, and the channel between them | |
| `Service` | the whole program: the main loop of `Watch` running the cycles of `SyncCycle` | instances of both |
| `LeaseFiles` | one read of the lease files against the DHCP server that writes them | |
| `DnsNames` | `dns/validation.rs` and `dns/name.rs`, and what the planner and the configuration make of names | |
| `Config` | the settings that say which leases and records are the service's, and their checks | `DnsNames` |
| `DesiredState` | `build_desired_state` and `leases/model.rs` | `Config` |
| `SyncCycleProofs`, `CycleProofs`, `PlanProofs` | theorems about `SyncCycle`: ownership and refinement; what one cycle does; what a plan is and comes to | `SyncCycle` |
| `WatchProofs`, `ServiceProofs`, `LeaseFilesProofs`, `DesiredStateProofs` | theorems | the module they are about |
| `ProgramProofs` | theorems about the whole program: what both parts are needed for, and what it has from each | `ServiceProofs`, instances of `WatchProofs` and `PlanProofs` |
| `MCSyncCycle`, `MCWatch`, `MCService`, `MCLeaseFiles`, `MCDesiredState` | instances for TLC | the module they are about |

### SyncCycle

One action is what the service does between two awaits: `ReadLeases`, one page
(`FetchPage`, `FetchLastPage`, which also makes the plan, since nothing is
awaited in between), or one attempt of one request together with what the
executor does with its reply. An attempt ends in `Complete` (done, reply read),
`Refuse` (an error status: the record is gone), `Retry` (429, 5xx, a timeout or
no connection, with attempts left) or `Fail` (the last attempt, or an error that
is not retried). In the last two the server may have done nothing, everything,
or everything *later*: `late` holds the requests still on their way, which
`LateArrives` delivers or drops at any later moment, in another cycle or
after a crash too. `Skip` and `DryRunItem` are the actions of the plan that send
nothing; as in the code, each of the three arms that write looks at `dry_run`
for itself (`DryCreate`, `Creates` and so on). `dry_run` is chosen at the start
and never changes, as `DRY_RUN` is read once. `Crash` forgets all of the cycle: nothing is persisted.

A plan is a set of items with an order (`Precedes`) that is that of
`Plan.actions`; a record listed on two pages is two items, told apart by `page`.
`ttl` and `proxied` are folded into `opts`, as the code only compares them with
the wanted values. What `normalize_fqdn` and `is_strict_subdomain` make of a
stored name is the constant `KeyOf`, any function that leaves normalised names
as they are; that the real one does is `NormalizeIdempotent` and, for the names
the service publishes, `KnowsItsOwn` of `DesiredState`.

Record ids are numbers, taken in the order of the id strings. A new record gets
any id that is unused *and* not referred to by anything still under way: the
real server never gives an id twice, and a bounded set of ids must not make it
do so. When no id is left, the create is refused.

`disturbed` is history: it says that, since the listing began to be out of date
for reasons that are not the plan's own (another writer, a late request of an
earlier cycle), the properties about one cycle cannot be asked for.

### ManagedZone

Three variables and four actions: publish a leased address on a record of the
service's own or on a new one, retract a record of its own, another writer's
edit, a new lease. `SyncCycle` implements it (`KeepsPromise`) with the identity
as refinement mapping of `zone`, `leased` and `edits`: cycles, plans, retries,
crashes and late requests are all hidden.

### Watch

`disk[f]` is the version of a lease file, one higher with each change the
watcher can tell (path, time, length). `tried[f]` is the version that was there
when a cycle last read the file, or failed for good. The watcher takes a
signature file by file (`Scan`), so that it may mix old and new files, compares
(`Compare`), and sleeps; with `LEASE_FILE_WATCH_ENABLED` false it is `"off"` and
never takes a step, while the channel stays open. The main task is `syncing`
(reading), `publishing` (the rest of the cycle), `waiting` (in `select!`),
`debouncing`, `draining`. `armed` says that the signal handlers are installed:
`select!` starts at a random branch and returns at the first that is ready, so
entering it is not enough. `PollShutdown` is its first look at `shutdown`; until
then an event that is queued may be received, and a debounce and a whole cycle
go by without the handlers. The timer's branch is never ready at once, so that
one is taken only after all have been polled. `Restart` is a process that died and was started
again: only the files are as they were. `covered` is history: a cycle started
after the watcher's first signature.

### Service

The composition. `Watch` and `SyncCycle` are instances over shared variables, and
the steps that belong to both are conjunctions: the file read by the main task
is what `ReadLeases` turns into a desired state, the end of the last read begins
the listing, a failed read ends both, `select!` is entered when `sync_once` has
returned, a restart takes both at once. The lease file is one (`LeaseFiles` has
the several); writing it may change what the leases are, and the leases may also
change by themselves, when one expires or when a write leaves path, time and
length as they were. `fresh` is history: nothing has gone wrong since the file
last changed.

`IsComposed` is the refinement: hiding the other part, each behaviour is one of
`Watch` and one of `SyncCycle`, so that each safety property of either holds of
the program. What neither part can say by itself is stated here: at rest the zone
is what the file says (`AtRest`), a change of the file comes to the zone
(`ChangeReachesZone`), the timer mends the rest (`Mirrors`), and a signal that
finds the handlers installed never cuts a plan in two (`StopsBetweenCycles`).

### LeaseFiles

A row is the time it was written, a file the last row of each address. The server
appends to the lease file, sets it aside (`csv.1`) and merges that into `csv.2`;
that is how Kea cleans up, and it is external to the repository, which knows
the files by their prefix only. `bad` holds the files with a row that does not
parse, which no attempt to read gets past (`row?`). `ReadAgain` and `GiveUp`
stand for any other error too: a file that is gone, a row cut short by a write
under way. (A row without a `subnet_id` is one that does not parse, as
`LeaseCsvRow` requires the column, although the README says "Leases without
`subnet_id` are skipped": one such row keeps all leases from being read, by the
guard of `ReadFile`; no run is spent on it.) `found`, `stamp` and
`rows` are the locals of `read_once`. `Discover` is one step, although
`discover_from_directory` awaits the metadata of each file in turn; in the reads
that `CompleteWhenSteady` and `FreshWhenInOrder` speak of no file is set aside or
merged, and an append between two of its awaits is one before or after the step.

### DnsNames and Config

A string is a sequence of characters, of which there are some of each kind the
code tells apart: lower-case letters and digits, capitals, hyphen, dot, blank,
and one (`_`) for all others. The operators are the functions of the source,
under their names; the library's `trim`, `split` and `ends_with` are spelled
out. `Config` parses an environment and accepts or rejects it; the program runs
with an accepted one.

### DesiredState

The loop with its skips, over a set of leases in any order (`\E l \in left`):
the order of the loop is that of the addresses in the program, any order here.
`expires_at` has the checked addition with `MaxU64`. Record names are made by
`DnsNames` from hostnames and the configured suffix, so that the properties of
names (`KnowsItsOwn`, `ScopeByTheRules`, `OneNameOneHost`) are about the names a
lease can give and the strings a zone can hold.

### Seeded faults

A definition whose comment begins with "fault:" is the one after it with a slip
(a dropped filter, `<=` for `<`, a counter forgotten, an event dropped). Nothing
uses it. `mutants` in `PROJECT.json` pairs each property of each passing run
with one of them: put in place of the right definition, TLC finds that property
violated.

## 3. Runs

| Run | Instance | Shows |
|---|---|---|
| `sync_core` | 3 ids, 2 names in 4 spellings, 2 addresses, 2 attempts, 1 late request, 1 edit, 2 desired states, two messy zones, one with room for a create done twice; with and without `DRY_RUN`; 403,787 states | all safety properties of the cycle, `UnmanagedUntouched`, the refinement `KeepsPromise`, and that the summary of a dry run tells what the zone lacks (`DryRunForetells`) |
| `sync_plans` | every zone of 3 records over 6 kinds of record (and none), every desired state, nothing goes wrong | one cycle makes the zone right (`PlanReachesDesired`) with one write for a name that nothing listed matches and none for any other (`MinimalPlan`), and it stays so (`StaysInSync`) |
| `sync_converge` | pages of 2 records, 4 ids, 1 attempt, 1 late request, 1 edit, crashes | `Convergence`: once the disturbances cease the zone becomes right for good |
| `watch` | 2 files changing twice and once, a channel of 1, 1 failing scan, read or restart, watcher on or off; 258,662 states | no lost wake-up, every change reaches a cycle, a signal that finds the handlers installed stops the process |
| `service` | 1 file written once, 1 name, 1 id, 1 attempt, 1 deletion by another writer, 1 failing scan, read or restart; 165,295 states | the composition refines its parts; at rest the zone is right; a change reaches the zone; the timer mends the rest; no plan is cut in two by a signal that finds the handlers installed |
| `desired_state` | every list of up to 3 leases out of 12 kinds of row; every hostname of up to 3 characters, and two longer ones; 24 environments; 19,827 states | the loop computes what the README says, in every order; names are known again, in scope, and shared only by spellings of one label |
| `lease_files` | 2 addresses, 5 writes of the server, 2 attempts; 111,166 states | complete and fresh results between clean-ups |

Five runs expect a violation; each is a place where the code does not do what it
says (`findings`):

| Run | What happens |
|---|---|
| `sync_drift` | A record is added between two pages of the listing. The last record of the first page is the first of the second. `build_plan` sees two records of its name: the first is kept ("no_change"), its duplicate, the same id, is deleted. |
| `sync_refile` | Another writer renames a listed record out of the managed suffix; the update planned for it is sent by its id and makes it a managed record again. "Records outside `MANAGED_RECORD_SUFFIX` are left unchanged" (README). |
| `watch_start` | The initial sync reads the files, then a file changes, then the watcher takes its first signature: the change waits for the periodic timer. |
| `lease_torn` | The lease file is set aside between discovery and read. Its path now names an empty file; the read succeeds without its rows. |
| `lease_order` | Old rows are merged into a file whose modification time is then the latest; they replace newer rows. |

**Bounds and why they are enough.** Two names are the fewest that a move of an
address between names needs, and the fewest among which one can be broken by
the handling of the other; one of them has a second spelling. Three records give
a name a right, a stale and a spare record. One late request, one retry and one
edit can each fall at every point of the cycle, in every combination of the
three. One edit is enough for the violation in the zone, and no property
counts edits. `PageSize` is 100 in the runs that are not about pages, 2 or 1 in
those that are. For the watcher, a channel of one is the hardest: it is full
after one event; two files make a torn signature possible, and two changes of
one of them a change that follows a lost event. In `service` one name with or
without an address is what a change of the file can be about; retries and late
requests are `sync_core`'s and `sync_converge`'s, and what matters here is that
the file may change, the zone be edited, a scan, a read or the process fail at
every point of a cycle, a debounce and a scan. For the lease files, five writes
allow a clean-up with rows before, between and after its two steps. Hostnames of
three characters hold a letter between two marks, a mark between two letters and
everything that is trimmed, with labels limited to three characters and names to
eight, so that both limits are met and passed. What the bounds cannot show for
every size is proved where it could be.

**Fairness.** `SyncCycle`: weak fairness of the service as a whole. `main.rs` calls
`sync_once` again at least after each `SYNC_INTERVAL_SECONDS`, and each await in
it ends, as the HTTP client has a timeout and a request a bounded number of
attempts. Which way a request ends is not assumed: `Convergence` asks for a zone
in line only if, from some time on, requests succeed and nobody disturbs.
`Watch` and `Service`: weak fairness of each task, which the runtime drives, and
strong fairness of the shutdown branch, since `select!` polls its branches from
a random one and so takes one that is ready again and again. None of the
periodic timer: what reaches a sync, reaches it because it changed. Only
`Mirrors`, which is about the timer, has its fairness as a hypothesis: the sleep
of a round does come to an end, as long as no event ends the round first, and
then the event does.

**Deadlock** is checked everywhere but in the runs of `Watch` and `Service`, whose
process stops on a signal, and `DesiredState`, whose loop ends.

## 4. Proofs

All hold for every value of the constants that meets the named assumptions of
the modules.

| Theorem | States | From |
|---|---|---|
| `TypeCorrect` | `Spec => []TypeOK` | the assumptions on constants |
| `HoldsOwnIdsAlways` | every id in a listing, a plan or a late request is of a record of the service or of one that is gone | `~EditorRefiles` |
| `PublishesLeasedAlways` | every address on its way was leased to that name | the assumptions on constants |
| `UnmanagedSafe` | `Spec => UnmanagedUntouched` | `~EditorRefiles` |
| `Implements` | `Spec => KeepsPromise` | `~EditorRefiles` |
| `NeverVanishesAlways`, `ServesThroughoutAlways`, `CleanCycleAlways` | `Spec => []NeverVanishes`, `[]ServesThroughout`, `[]CleanCycleServes` | the assumptions on constants |
| `AccountsAlways` | `Spec => []AccountsForPlan` | the assumptions on constants |
| `MinimalPlanAlways`, `DryRunForetellsAlways` | `Spec => []MinimalPlan`, `[]DryRunForetells` | the assumptions on constants |
| `PlanReachesAlways`, `StaysAlways` | `CalmSpec => []PlanReachesDesired`, `CalmSpec => StaysInSync` | no `DRY_RUN` |
| `WatchTypeCorrect`, `NoWakeupIsLost` | `Spec => []TypeOK`, `Spec => []NoLostWakeupOnceCovered` | the assumptions on constants |
| `SkippedIsKeptUndisturbed` | `Spec => [](~disturbed => SkippedIsKept)` | the assumptions on constants |
| `ImplementsItsParts`, `StopsOnlyBetweenCycles` | `Spec => IsComposed`, `Spec => StopsBetweenCycles` | `ServiceAssumption`: one lease file |
| `AtRestAlways` | `Spec => []AtRest` | `ServiceAssumption`, no `DRY_RUN` |
| `ProgramKeepsPromise` | `Spec` of the program `=> KeepsPromise`, `UnmanagedUntouched` | `ServiceAssumption`, `~EditorRefiles` |
| `ProgramServes`, `ProgramMissesNoChange` | `Spec` of the program `=> []` of `NeverVanishes`, `ServesThroughout`, `CleanCycleServes`, `MinimalPlan`; of `NoLostWakeupOnceCovered` | `ServiceAssumption` |
| `LeaseFilesTypeCorrect`, `SteadyIsComplete`, `InOrderIsFresh` | `Spec => []TypeOK`, `[]CompleteWhenSteady`, `[]FreshWhenInOrder` | the assumptions on constants |
| `KeepsTheBest`, `LoopIsOrderIndependent` | `Spec => []BestSoFar`, `Spec => []OrderIndependent` | the assumptions on constants |
| `KnowsItsOwnAlways`, `ScopeByTheRulesAlways`, `OneNameOneHostAlways` | `Spec => []KnowsItsOwn`, `[]ScopeByTheRules`, `[]OneNameOneHost` | the assumptions on constants |
| `NormalizeIdempotent` | `normalize_fqdn` leaves what it returns as it is, for every string | `DnsNamesAssumption` |

`~EditorRefiles` says that other writers may add, delete and change any record,
but do not rename one into or out of the managed suffix or change its type to or
from `A` in place. Without it the results on ids are false of this code: a
record renamed out of the suffix after it was listed is updated or deleted by
its id (`executor.rs:70`, `:97`), against the README's words on records outside
the suffix. `sync_refile` shows it.

Several of the properties speak of a cycle that is not `disturbed`: no other
writer and no request of an *earlier* cycle touches the zone between the first
page of its listing and its end. `NeverVanishes`, `ServesThroughout`,
`CleanCycleServes` and `DryRunForetells` have that as their premise, and without
it they are false: a late delete takes a record that is to be kept, and so does
a plan made of pages that drifted (`sync_drift`). The cycle's own requests, late
or done twice, do not disturb it.

*The zone.* That no foreign record is touched is not inductive: at the moment of
a request one must know that its id, chosen many steps ago, still belongs to
the service. The invariant is `IInv == TypeOK /\ HoldsOwnIds /\ PublishesLeased`;
the last two are each inductive together with the types. `HoldsOwnIds` says it
of every id held anywhere. It enters with a page (a record in the listing is as
it is in the zone), passes to the plan (the planner's filters), from there to
the late requests, and survives the other writers because they do not refile
and because a new record never gets an id still held. `PublishesLeased` follows
the addresses the same way: leases, desired state, plan, late requests; other
writers may do what they like. From `IInv` each step of `SyncCycle` is a
`Publish` or a `Retract` of `ManagedZone`, a `Foreign`, a `Grant`, or leaves its
variables alone.

*One cycle.* What `CycleProofs` shows of a cycle that no one disturbs rests on
`CycleInv`. While the zone is listed, the listing holds the records of the pages
fetched so far, as they are (`Mirror`); pages do not overlap and the last one
ends with the last record, which is arithmetic on `Position` and `PageSize`. So
when the plan is made no record is in it twice (`Distinct`) and none is missing.
From then on each request, done once, twice, late or not at all, leaves a record
as it was or makes it what is wanted (`EffectOn`), and none deletes the record a
name keeps (`Serving`); that there is one to keep is that a set of entries has a
first, for which ids are numbers. `Cleaning` says what is still to be done as
long as nothing failed: an owned record that is not right has its update or
delete in `todo`. With `todo` empty that is `CleanCycleServes`. `sync_drift`
shows what becomes of `Serving` when a listing is not a mirror;
`SkippedIsKeptUndisturbed` says that nothing else brings it about, since in a
listing that is a mirror a record has one action of the plan. The summary is
counted over `plan \ todo`, a finite set as there are finitely many ids and
names (`FiniteAssumption`: both are strings of bounded length).

*Plans.* An entry of a listing is known by its id and its page, even in a listing
that drifted, so that a name keeps one entry and no more, and `MinimalPlan`
comes down to counting. It counts entries: where the same record is on two
pages, one entry may be kept and the other deleted. A dry run sends nothing, so
that a zone no one else touches remains as it was listed (`DryListed`); then each
name has the action its own records ask for (`Reported`), and what the summary
counts of the plan is what `DryRunForetells` counts of names and records
(`CountNames`, `CountRecords`). When nothing disturbs the service `Tasks` holds as well:
what is still in `todo` is still to be done, and of two records of a wanted name
one has its delete in `todo`. So an empty `todo` leaves exactly what is wanted,
and in a zone that is in line nothing but `noop` is left.

*The watcher.* `SyncComing(f)` names every way a sync that reads `f` can be on
its way: one under way that has not come to `f`; an event in the channel; an
error in `previous`; a scan that has found a difference or will. The invariant
`NoLostWakeupOnceCovered` is inductive with the types and with what the phases
say about `status`; the case that matters is `Compare` with a full channel: the
event is dropped, but the one in the channel has not been received, and the
sync it starts has yet to read every file.

*The composition.* That a step of `Service` is one of `SyncCycle` needs to know
that the two parts are in step: a cycle is under way only while the main task is
in it (`InStep`), and after it all its locals are gone (`Blank`), so that a
restart or a signal that finds no cycle leaves `SyncCycle` where it is. That the
program stops only between cycles, on a signal that found the handlers, is the
same invariant.

*At rest.* `AtRest` needs both parts: that no change is lost between file and
loop, and that a cycle makes of the file what it says. `ServiceAssumption`
includes what the parts assume of their constants, so that their invariants and
step lemmas can be cited from instances of their proof modules; that these
speak of the same steps as `Service`'s own instances is the first part of
`ProgramProofs`. The invariant `RInv` has those of both parts, and `Settled`,
which ties them: if nothing has gone wrong since the file changed (`fresh`) and
the last version was read, then a cycle under way is one that `CalmInv` of
`PlanProofs` is about, with the present leases as its desired state, and when it
has returned the zone is in line. A read establishes it, which needs that a
cycle begins undisturbed (`Begun`); `CalmKeeps` and `CalmReaches` carry it
through the cycle; a change of the file makes its premise false, as no version
is read before it is there (`Heard`); whatever else could break it clears
`fresh`. From `NoLostWakeupOnceCovered` one has at rest that the last version
was read, and so the zone. A dry run changes no zone, hence the hypothesis.
The fairness of `SyncCycle` is not part of what the program implements, so
the theorems of a part, which are about its whole `Spec`, are not cited for the
program; their invariants are carried through its steps instead.

*The lease files.* Of an address the lease file has the newest row, then the file
set aside, then the merged one (`Ages`), whatever the server does. A pass over
the files that no clean-up cuts into has, for each address that had a row, read
one or still has one to come; and if the times were in order, what is to come is
newer than what was read (`Pass`).

*The loop.* `BestSoFar` is inductive because `prefer_candidate` is a strict
order, total on the leases of a name: addresses differ. A lease preferred to all
others is the one of the lowest address among the latest, which gives the
README's words (`OrderIndependent`), for rows as the lease file has them.

*Names.* Strings are sequences of any length. The labels of a normalised name lie
between neighbouring cuts, and there is a nearest cut on either side of each
position; so each character of the name is in a label or a dot, and the first
and the last one are letters or digits (`NameChars`). Hence there is nothing to
trim and nothing to lower, and a name is what normalising gives for it and
for each of its spellings (`CoreOfSpelling`). A record name is a label, a dot and
the suffix (`RecordNameIs`), which makes it one below the suffix, and, being
below is transitive (`BelowBelow`), one below the zone; and the label can be
read off it, which is `OneNameOneHost`.

**Only model-checked:** liveness (`Convergence`, `ChangesReachSync`,
`StopsWhenAsked`, `ChangeReachesZone`, `Mirrors`), which the prover cannot do
under fairness. Every safety property of the passing runs is proved.

## 5. Not modelled

* The settings that stand in no relation to another: intervals, timeouts, the
  TTL, the path, the token and the URL, each parsed by itself. A duration is not
  a number here: back-off, debounce, intervals and timeouts are steps that happen
  some time. A lease that expires without a write to its file is a change of
  `source`; only the periodic timer notices it.
* CSV syntax. A row parses or does not; which ones do is the csv crate's and
  serde's affair.
* Unicode. The character `_` stands for all that no label may have; names that
  differ in letters outside ASCII are all invalid.
* A reply to a listing without `result_info`, which ends the listing after a page.
* A watcher task that panics and so closes the channel: it has no step that does.
* Errors as types, logging, packaging.

## 6. Plan

*Done:* the zone, the planner and the cycle with their faults: ownership, the
refinement of `ManagedZone`, the properties of a cycle and of its plan proved; the
watcher and the main loop with the wake-up invariant proved; the composition of
both, with its refinement, the zone at rest and what it has from its parts
proved; the lease files, with completeness and freshness proved; names,
configuration and desired state, with the choice of the lease and the properties
of names proved.

*Left:*

1. `LeaseFiles` inside `Service`, so that torn reads and the zone are in one
   model; the instance that TLC can hold is small already.
2. Of liveness, the safety half: that in a calm service what is left to do of a
   cycle only ever shrinks, as a theorem beside `Convergence`.
