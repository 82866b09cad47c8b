# A TLA+ model of rs-ioc-vault

This directory holds the verification project for `rs-ioc-vault`: a local
database of indicators of compromise (IoCs) that downloads open threat feeds,
normalizes, merges and scores what they deliver in one SQLite file, and answers
searches over it. The modules are translated from the Rust and SQL sources;
`PROJECT.json` maps each definition to the lines it stands for.

## 1. Inventory

Paths below are relative to `src/`. `store` is
`crates/ioc-vault-store/src/lib.rs`, `facade` is `crates/rs-ioc-vault/src/lib.rs`.

| Component | State it keeps | Operations | What is hard | What makes it correct |
|---|---|---|---|---|
| Store: writes (`store`, `migrations/0001_init.sql`) | tables `sources`, `iocs`, `ioc_sources`, `tags`, `ioc_tags`, `cves`, `ioc_cves`, the FTS5 index and its triggers | `upsert`, `bulk_upsert`, `link_cve`, `upsert_cve`, `register_source`, `apply_decay`, `resolve_source` | a pool of 8 connections and several processes on one file; deferred transactions that read before they write; `SQLITE_BUSY` with no retry; rows read outside the transaction that updates them | every row is the aggregate of its sightings; the index is in step; batches are atomic; no observation is lost; calls return |
| Store: reads | none | `search`, `lookup`, `get`, `hydrate`, `list_sources`, `count_iocs`, `counts_by_type` | four SELECTs per record and one for the ids, in no common transaction; paging in SQL or in Rust | records are consistent enough, still match, and pages are complete |
| Confidence (`store:814`) | column `iocs.confidence` | `recompute_confidence` | floating point at rounding ties | it is the probability that some source is right; monotone |
| Update runs (`facade`, `store`) | `sources.etag/last_modified/enabled`, `collection_runs` | `update_source`, `run_collect`, `update_kev`, `update_all`, `set_source_enabled` | crashes between the data, its validators and the log; power loss with `synchronous=NORMAL`; two updaters; partial KEV ingestion | a validator never outruns its data; logs tell the truth; failures are isolated; everything published is ingested in the end |
| Collectors (`crates/ioc-vault-adapters`, `crates/ioc-vault-collect`) | the ThreatFox key | `collect`, the parsers | 304 answers, error pages, keys, windows of days | what a version holds is delivered once it is fetched |
| Normalization (`crates/ioc-vault-core/src/normalize.rs`) | - | `normalize`, `value_hash` | spellings that must share a key | canonical and idempotent per type |
| Decay (`crates/ioc-vault-core/src/decay.rs`) | - | `half_life_days`, `score` | future timestamps | falls with age, 1.0 for age <= 0 |
| Defanging (`crates/ioc-vault-core/src/defang.rs`) | - | `defang`, `defang_auto`, `defang_json`, `is_defanged` | overlapping rewrites | the output passes `is_defanged` |
| Queries (`crates/ioc-vault-core/src/query.rs`) | - | the builder | - | see store reads |
| Export (`crates/ioc-vault-export`) | - | CSV, JSONL, STIX, MISP writers | escaping in STIX patterns; who flushes | a pattern reads back as the value; all records reach the file |
| Opening and the builder (`facade`, `store`) | the file, `_sqlx_migrations`, `sources` | `open`, `migrate`, `build` | two processes at once; a process that dies halfway; defaults overwritten at every start | the loser of a race recovers; every built-in source has a row; what an operator chose is kept |
| CLI, configuration (`crates/ioc-vault-cli`) | the configuration, the output file | commands, `--since`, key precedence, `export` | blank keys; a buffered writer that is dropped; days that are truncated and clamped | the first usable key is used; an export that reports success is complete; an update reaches back as far as it was asked to |

They interact by calls only: the CLI calls the facade; the facade calls a
collector over HTTP and then the store; the store calls core's `normalize`,
`value_hash` and `DecayModel::score`. The state that is shared is the database
file, between the connections of one pool and between processes. Concurrency
comes from callers that share an `IocVault`/`IocStore` (all operations take
`&self` and are async) and from processes that open the same file, such as a
scheduled `ioc-vault update` beside an interactive one.

`PROJECT.json` lists the hazards of this code with the line each bites at and
the properties that cover it.

## 2. Modules

```
Confidence, Defang <- Normal  <--  MCValues
                                      +-- ValuesProofs
                                      +-- TextProofs  <--  NormalProofs

IocTables  <-- SerialStore <----(refines)---- IocStore <-- MCIocStore
    |               ^
    |               +--(writers of)-- Search <-- MCSearch
    |                                     +-- SearchProofs (with IocTablesProofs)
    +-- IocTablesProofs  <--  IocStoreProofs

FeedMirror <----(refines)---- UpdateRun <-- MCUpdateRun
                                  +-- UpdateRunProofs

CommandLine <-- MCCommandLine
    +-- CommandLineProofs
```

### Pure functions

Text is a sequence of tokens: a token is a character or a run of characters that
the code treats alike (`"a"`, `"7"`, `"http"`, `"://"`, `"."`).

**Confidence** is `recompute_confidence()` (store:814-834):
`round(100 * (1 - PROD (1 - c/100)))` in exact rational arithmetic. At an exact
tie the f64 product may lie on either side, so `Aggregates` is a set of outcomes.

**Defang** is `defang`, `defang_auto`, the checker `is_defanged`, and the STIX
pattern of a value with its escaping.

**Normal** is `normalize()` for every type whose conversion is in the repository
(domain, e-mail, IPv4, hashes, ASN, other) and the needle of an exact search.

**MCValues** drives them: its steps add a token to a text of some type, or a
sighting to an indicator. `Alphabet` gives each type the tokens its conversion
tells apart, and those it lets through: the library behind domains accepts `@` and
`://`, and nothing looks at the local part of an e-mail address.

### The store

**IocTables** is the schema as one record of total functions (`None` where there
is no row) and each statement or group of statements as an operator on it:
`UpsertInTx` (store:701-807), `LinkCveIn`, `UpsertCveIn`, `Rescored`. It also
holds what makes a value of the tables coherent (`Aggregated`, `Indexed`,
`Linked`) and the order in which tables grow (`Extends`). Abstractions:

- a row of `iocs` is identified with its dedup key. Rows are never deleted, so
  `id` and `value_hash` name the same thing. The constant `Canon` says which
  spellings share a key and which `normalize()` refuses.
- `malware_family` is handled like `threat_type` by the code
  (`COALESCE`, indexed, filtered) and one label stands for both. `tlp`,
  `metadata` and `raw_data` are written once or opaquely and are left out, as is
  `is_allowlisted`, which no code sets.
- `decay_score` is represented by the age the row was scored at: the score is a
  decreasing function of it for a row's type.
- tags are a set of names per row (rows of `tags` are not modelled).

**IocStore** is the store under concurrency. A client runs one `bulk_upsert`
(or `upsert`, a batch of one) or `apply_decay` at a time; `call[c].pc` is the
statement it is at:

| pc | code | actions |
|---|---|---|
| `resolve`, `create` | `resolve_source` (store:85-103) | ResolveSource, CreateSource, CreateConflict |
| `begin` | after `pool.begin()` | SelectFirst, RejectItem, CommitEmpty |
| `reading` | the first `SELECT id FROM iocs` has pinned a snapshot | UpsertItem, RejectItem, UpgradeBusy |
| `writing` | the write lock is held | UpsertItem, RejectItem, Commit |
| `rows`, `stamped` | `apply_decay` before its transaction | StampDecay, DecayUpdate, DecayEmpty |

Statements of the holder of the write lock are invisible to others until its
commit, so one indicator's statements are one step. `link_cve`, `upsert_cve` and
`register_source` are single statements or transactions that start with a write:
they are single steps. `Abort` is a dropped future, a dead process or any
failing statement: it may happen to any call at any time.

SQLite's part (marked external in `PROJECT.json`) is modelled from how the code
uses it: WAL mode, deferred `BEGIN`, immediate `SQLITE_BUSY(_SNAPSHOT)` on a
read-to-write upgrade, a busy timeout for write-first statements, rollback on drop.

**SerialStore** is the abstract specification: whole calls, one after the
other, each on what the one before left. Only `Rescore` shows that
`apply_decay()` is weaker than that: it may use rows as they once were.

**Search** is `search()`, `lookup()` and `get()` as a reader beside the writers
of SerialStore, one SELECT at a time; post-filtering and paging as in the code;
`BuildQuery` is the command line's `build_search_query()`. `Fail` is any error
on the way, a regex that does not compile among them, which is noticed only after
every candidate has been hydrated: the caller gets no records.

### Updates

**UpdateRun** is the facade's update. `proc[p].pc` is where
`update_source()`/`update_all()` stands; `disk` is the committed database,
`safe` the prefix of its commits that would survive a power loss. A feed
publishes versions; an ordinary source stores a version in one `bulk_upsert()`
(atomic, by IocStore), the KEV catalog one CVE per transaction. `Refused` are
versions with an entry the store will not take, which fails the whole batch.
`StoreError` is any failing database call, with the error path the code takes at
that point (run_collect's `?` and update_source's `failed` record; update_kev's
narrower one). Of `collection_runs` the newest row per source is kept: rows are
only inserted.

**FeedMirror** is what a caller may rely on: for each source the versions that
are stored whole, the one the validators vouch for and the one the newest run
claims, of which the last two are always among the first, in the database as
after a power loss. `UpdateRun!Mirrored` is the refinement mapping.

### The program

**CommandLine** is `ioc-vault` as processes on one vault. `proc[p].pc`:

| pc | code | actions |
|---|---|---|
| `idle` | the shell | Launch (the configuration, the Auth-Key) |
| `open` | `IocStore::open`, the migrator's look at `_sqlx_migrations` | Open |
| `migrate` | the migration's transaction | Migrate, MigrateConflict |
| `register` | `build()` registers the collectors; when none is left, the command | Register, then Answer, SourceAdd, SourceSwitch, Update, CreateFile |
| `write` | `export` through a BufWriter | WriteRecord, FinishExport |
| `done`, `failed` | `main()` returns | Exit |

`Fail` may end a process at any point before. What an update does to the data is
UpdateRun's matter; here it only overwrites validators. `left`, once an update
is done, keeps the sources it fetched; `lost` and `chosen` are history.

## 3. Runs

| Run (module) | Question | Bounds |
|---|---|---|
| `values` (MCValues) | do the pure functions agree with their references? | 3 sources with 15 levels including 0, 100, 33 and neighbours of 50, where ties and near-ties fall; texts of up to 5 tokens beyond the shortest that normalizes (`MaxLonger`), digests of 3 digits (`HexLen`) |
| `store_merge` (MCIocStore) | do rows, sightings, index and links agree and is nothing lost, in any order of calls? | 1 client beside the single-step calls; 2 sources, 2 indicators (two spellings of one), a CVE, a default of 200, batches of 0 to 2 with a confidence over 100 in one; clock 0..1 (`MaxTime`); symmetric in sources |
| `store_serial` (MCIocStore) | does the store implement SerialStore, are transactions' views sound, statistics exact, decay harmless, does every call return? | 2 clients, 1 source, 2 indicators, clock 0..1; batches that touch one row twice, and that are refused halfway |
| `search` (MCSearch) | are records and pages right while writers commit? | 6 queries (each filter, order, and paging on both paths; three through `BuildQuery`), 3 commits (`MaxWrites`), before or during the search |
| `update_race` (MCUpdateRun) | do two updaters of one feed, a crash or a power loss keep validators and log truthful? | 2 processes, 2 versions, 1 crash or power loss (`MaxCrashes`) |
| `update_kev` (MCUpdateRun) | is each source handled, does the log tell the truth of a catalog stored in part, and does the pipeline implement FeedMirror? | 1 process, KEV then an ordinary source, 1 version of each, a catalog of 2 CVEs, 1 crash or power loss |
| `update_live` (MCUpdateRun) | is what was published last ingested in the end? | 1 process, 3 versions of which the second is refused, 1 crash or power loss |
| `commands` (MCCommandLine) | do starts, source commands, updates and exports of two processes keep what operators chose? | 2 processes, one managing, one scheduled; 3 names, 2 collectors; keys missing, blank or usable in either place; 3 records through a buffer of 2, room for 0 to 3 (`DiskSpace`); a process may lose the migration twice (`MaxLost`), to see that it does not |
| `source_race` (MCIocStore) | violated: `resolve_source` "auto-creating" | two clients |
| `disabled` (MCUpdateRun) | violated: "Disable a source." | one process |
| `export_lost` (MCCommandLine) | violated: "the number of records written" | as `commands` |
| `defang_guarantee` (MCValues) | violated: "guaranteed to satisfy `is_defanged`" | as `values`, one source, 3 tokens |

Why the bounds are enough: a conflict in the store needs one reader and one
committer, and a third client would only repeat the role of one of them. Two
indicators let a batch span rows and two clients write different ones; two
instants let a window widen at either end. `store_merge` keeps one client so
that all the other calls fit; that its invariants hold for any number is proved.
In UpdateRun a second version is what makes a stored validator stale, a third
what comes after a refused one; a second crash only repeats the first. For an
export a buffer smaller than the records and a disk smaller than both are the
cases there are. The rules of Defang and Normal look at a token and its two
neighbours, or at the first or last token of a kind; five tokens put two such
places side by side.

`values` and `defang_guarantee` do not check for deadlock: a text that has grown to the
bound ends. All other runs do.

Every property has a mutant in `PROJECT.json`, an alternative definition (a
forgotten clamp, a missing reset, a swapped order) under which its run fails.

### What the passing runs show

- However upserts of several sources interleave, fail or are dropped,
  `first_seen`, `last_seen` and `confidence` are those of the sightings, the
  full-text index holds the current text of each row, and the statistics a
  batch returns are exact. This rests on SQLite refusing to upgrade an outdated
  snapshot: with the `CanWriteStale` mutant it fails.
- `apply_decay()` reads its rows outside its transaction. That is harmless to
  all other columns, and a row that is refreshed meanwhile scores too low,
  never too high.
- A record that `search()` returns may mix several moments, but its sightings
  always cover its window, and it passes all filters that later writes cannot
  undo.
- A validator is stored only when all of its version is stored, including after
  power loss and with two updaters. A feed whose version is refused whole catches
  up with the next that is not.
- Of processes that open a new vault at once some may fail, but none does twice;
  every command finds a row for every built-in source. `enabled` and validators
  survive any number of starts.
- `defang_auto()`, and so `defang_json()`, leaves nothing `is_defanged()` takes for
  live and can be reversed. `defang()` can be reversed too, but for the case of a
  scheme; it leaves nothing live in a value with no more links in it than its type
  is one (`OneLink`). For others see `defang_guarantee` below.
- `normalize()` is idempotent, but for a domain that ends in dots followed by
  spaces and dots. A STIX pattern reads back as its value unless that holds a
  backslash, which is not escaped.

### What the violated ones show

1. `source_race`: two first calls for one source both find it absent; the second
   INSERT breaks `UNIQUE(name)` and its whole call fails, against
   "auto-creating a minimal row if absent" (store:84).
2. `disabled`: `update_all()` never reads `sources.enabled`, so
   "Disable a source." (`crates/ioc-vault-cli/src/main.rs:80`) does not keep
   `update` from fetching and storing it.
3. `export_lost`: `write_jsonl()`, `write_stix()` and `write_misp()` drop their
   writer without a flush. When the disk is full at the last buffer, the command
   still prints how many records it exported, against "the number of records
   written" (facade:193).
4. `defang_guarantee`: `defang()` breaks what its strategy for the type looks for
   and nothing else. The dots of an IPv4-mapped IPv6 address, an `@` or `://` in a
   domain, a `://` in the local part of an e-mail address and a second `://` in a
   URL stay live, against "The output for every actionable type is guaranteed to
   satisfy `is_defanged`" (`crates/ioc-vault-core/src/defang.rs:56`). A debug build
   fails at the `debug_assert!` (`defang.rs:68`); a release build prints the value.

### Divergences without a run

Each of these is seen in one call, by reading the lines named, and keeps no state:

- *Windows.* `collect()` is to "Fetch indicators updated since `ctx.since` (or all
  if `None`)." (`crates/ioc-vault-collect/src/lib.rs:118`). ThreatFox is asked for a
  number of days (`crates/ioc-vault-adapters/src/threatfox.rs:84-91`): the age of
  `since` without its fraction, not below 1 or above 7, and 1 if there is none. What
  is between `since` and the last whole day, or older than a week, is not fetched.
- *Confidence.* `source add` is to "Add (or update) a source."
  (`crates/ioc-vault-cli/src/main.rs:68`). The confidence it gives a built-in source
  is overwritten when the next start registers the source again (facade:155).
- *Auth-Key.* "blank values are ignored" (`crates/ioc-vault-cli/src/config.rs:41`), but
  a blank variable hides the key in the file: blanks are filtered after the choice
  (`config.rs:44`).
- *Timestamps.* They are "left untouched" (`docs/cli.md:24`), but one with a fraction
  of a second, as the store gives an indicator without dates, has a dot between two
  digits, which `defang_json()` breaks (`defang.rs:102`).
- *Paths.* "file extensions in paths" are to stay intact (`defang.rs:178`), but the
  dot of `evil.exe` is between two letters and is broken.
- *Trailing dots.* `normalize_domain()` is to "strip a single trailing dot"
  (`crates/ioc-vault-core/src/normalize.rs:92`) and strips all there are.

## 4. Fairness

`IocStore!FairSpec`: weak fairness on `Continue(c)`, everything a client that
has started a call may do next. Tokio polls ready tasks and SQLite answers each
statement, with `SQLITE_BUSY` at the latest when the busy timeout runs out.
Nothing forces a call to start, to abort, or time to pass.

`UpdateRun!FairSpec`: somebody keeps calling update (the usecases document a
scheduled job), a running process is driven on, and, strongly fair, a cache read,
a fetch or an ingestion that is attempted again and again for the same source
does not fail for ever. Publishing, crashing, power loss and syncing are not
forced.

CommandLine states no fairness: nothing there must happen in the end.

## 5. Proofs

The proof modules are checked by TLAPS for every value of the constants, within
the named ASSUMEs of the modules they are about: sets do not contain `None`, raw
indicators, batches, defaults, queries, plans and commands are well typed, a buffer
holds something, feeds are finitely many and state percentages, and the
aggregate `Agg` of the tables is one. The last is a theorem of the function the
code computes (`AggregateIsPct`). TLC evaluates the assumptions in every run.

**The store** (`IocTablesProofs`, `IocStoreProofs`): any clients, sources, keys,
labels, batches, any `Canon`.

1. Each operator on the tables (`UpsertInTx`, `LinkCveIn`, `UpsertCveIn`,
   `Rescored`) maps a value of the tables to a value of the tables, keeps it
   `Coherent`, and `Extends` it (lemmas UpsertKeeps, LinkCveKeeps,
   UpsertCveKeeps, RescoredKeeps). `Extends` is reflexive and transitive.
2. `IInv` adds to the invariants what the steps need. The committed tables being
   coherent is not inductive alone: a commit installs a client's view, so views
   must be coherent too (`ViewsOK`); and nothing is lost only if a view extends
   the *current* tables, which holds because the one client that has written
   holds the lock (`LockOK`) and got it on a snapshot that was up to date
   (`ViewsOK`: a reading view that is not stale equals `db`). `CallsOK` says that
   a call in the transaction knows its source, and one of `apply_decay` its rows.
3. `Inductive` (Spec => []IInv) is proved action by action. `Typed`,
   `AggregatesAlwaysMatch`, `FtsAlwaysInSync`, `LinksAlwaysResolved` and
   `ViewsAlwaysOK` follow; `NothingLost` is the action property that every step
   extends `db`, proved from IInv.

**Its calls** (`IocStoreProofs`): `StatsAlwaysExact` and `DecayAlwaysHarmless`.
`ClientOK` says of each client that `added` is the number of rows its view has
and the tables have not, that no row `apply_decay()` read has gone or become
older, and that what it wrote is the latest tables rescored. It is kept by the
client's own steps since an upsert adds at most the row of its key (UpsertAdds),
and by those of others since a client that has written holds the lock, so the
tables stand still, while before they only grow (Bystander).

**Updates** (`UpdateRunProofs`): `ValidatorsAlwaysSound`, `RunsAlwaysTruthful`,
`EverySourceAlwaysHandled`, and the refinement `ImplementsItsMirror`. That a
stored validator is sound is not inductive alone: a process is about to store
what it has in hand. `PInv` says that all of a fetched version that is not before
the process is in the database, and that a validator it sent is sound; since data
is only added, another process disturbs neither (PInvMonotone). After a power loss
no process remembers anything, and `safe` satisfies what `disk` does (`DInv`).

**The program** (`CommandLineProofs`): all four invariants of the `commands` run.
`Known` says that a process that is registering has left a row for every collector
it has dealt with;
`schema = ledger`, because the migration is one transaction, is why nobody loses
twice; `Written` counts records sent, held and on the disk.

**One call after the other** (`IocStoreProofs`): `AlwaysSerial`, that the
interleaved store implements SerialStore. A commit must show what SerialStore's
whole call would have made of the tables as they are *then*. `SerialInv` says so
for a part of the call: the view of a client that has written is what the part
of the batch it has done makes of the current tables, one indicator after the
other. It is kept by every upsert because that is the next step of the fold, and
by every other client because the lock keeps the tables still
(BystanderProgress). What the fold does at each position is a fact about a
recursive function, proved by induction along the batch.

**Search** (`SearchProofs`): `AlwaysCovered`, `AlwaysMatches`, `AlwaysExact`.
`SearchInv` says that the records read and the ids still to read are together one
page of the rows that were selected, in their order, and that each record lies
between the tables the ids were selected from and the current ones: its window
and confidence were those of a row in between, the sightings, tags and CVEs that
were read later extend those of that moment. Writers only extend tables
(StoreStep, from the store's lemmas), so each of the four SELECTs moves a record
up and never out. The page is exact since post-filtering keeps a subsequence
(PostFilterPicks, PostFilterOrders).

**Confidence** (`ValuesProofs`): the aggregate is a product over a set
of sources. Induction over data is done on finite sets, as induction on an
interval of cardinalities (SetInduction), and every lemma about `Product` and
`SumFunction` takes one element out.

- `AlwaysWithinBounds` and `AlwaysMonotone`: a product of percentages lies between
  none and all, and rounding to the nearest, on either side of a tie, keeps
  the order of what is rounded (RoundedBetween).
- `AlwaysCombinesEvidence`: inclusion and exclusion over all subsets of the
  sources is the expansion of the product over complements (Expansion), by
  splitting the subsets on one source.

**Texts** (`TextProofs`): texts of any length. A rewriting is a sequence of
blocks, one for each token, joined by `FlattenSeq`. FlattenLaid says where each
block comes to lie; Recut, that rewriting a joined text token by token is
joining the rewritten blocks.

- So the passes of `defang_auto()` are one cut of the text it was given (AutoIs),
  whose blocks begin and end like the tokens they stand for as far as
  `is_defanged()` looks (CutDefanged), and each of which reads back as its token
  (ReadBack). `AlwaysAutoDefanged` and `AlwaysAutoLegible` follow from `TextInv`,
  that a text holds no placeholder of its own.
- `AlwaysDefangedAsTyped` is the same for the types of `defang()`: what is
  stored still has the form of its type (`ShapeInv`, StoredForm), the rewriting of
  each type is reversible, and nothing it leaves unbroken is live if there is one
  link (DotsShown, MailShown, UrlShown, Ipv6Shown).
- `AlwaysStixReadsBack`: a literal is blocks of one or two tokens, and which of
  its tokens are escaped is a recursive function of all before. A block starts
  escaped only behind a backslash, which is not doubled (StartsFresh): without
  one each block gives its token, with one fewer tokens are read (TakenLess).

**Normalization** (`NormalProofs`): `AlwaysSearchFindsStored`, that normalizing
what was normalized changes nothing. Each conversion trims, lowers or prints again
parts of the text (Part, PartOfPart); what it gives starts and ends such that there
is nothing left to trim, splits at the same `@` and dots (LastAt, FourOctets), and
has the same number without its leading zeros (NumberZeros, by induction along the
fold over the digits). Only `normalize_domain()` may leave a dot at the end, which
takes a dot and a space behind it in the text (DomainIs).

**Only model-checked**: liveness (`CallsReturn`, `CatchesUp`), which with ENABLED is
beyond TLAPS. All invariants and action properties of the passing runs, and both
refinements, are theorems.

## 6. What is not modelled

- `--since` and the number of days ThreatFox is asked for: in UpdateRun a feed
  delivers a version whole.
- What the parsers of the three feeds make of a body: each maps the fields of one
  entry and keeps no state. HTTP itself.
- The normalization of URLs, IPv6 addresses and networks and the conversion of
  international names, which libraries do; the hash of the dedup key.
- The decay formula: an exponential of the age and the type's half-life.
- What the export formats hold besides values: serialization. Object ids are
  hashes of the value.
- The text of tables, `Display`, `FromStr` and serde of the core types.
- Clocks that run backwards: `clock` is monotone.
- The completion of a partly ingested KEV catalog by later runs: it has no
  validator, so each run fetches and stores all of it. RunsTruthful says that a
  partial one is never recorded as a success.
- The counts in `collection_runs`, and the rows but the newest.
- The pool as a resource: no operation holds two connections.
- The listings (single SELECTs); the tables `sightings`, `allowlist` and
  `watchlist`, which no code uses; the trigger for deletions, which never happen.
- Corrupt databases and SQL errors other than those named, beyond `Abort`,
  `StoreError` and `Fail`.

## 7. Plan

What is left, in this order:

1. `TagTable`: rows of `tags` with ids, where `UNIQUE(namespace, name)` does not
   hold for NULL namespaces.
2. The MISP and STIX identifiers, whose determinism makes re-exports comparable.
