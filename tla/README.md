# CodeKG in TLA+

CodeKG turns checked-out sources (Python, SQL, PostgreSQL's C and SQL) into a
Neo4j knowledge graph and serves read-only queries about it to MCP clients.
This directory holds TLA+ models of CodeKG, of two sorts:

* of what depends on *order*: several processes or threads on shared state,
  commands that fail or are killed half way, files that change while they are
  read, bounded requests that are continued by cursors;
* of what is *computed*: the resolution of names and calls, the projection of a
  graph in shards, the links between repositories. Each of these algorithms is
  checked, over many small inputs, against a reference that says the same thing
  without its caches, batches, bounds and shortcuts.

The models are checked with TLC on small instances; of the publication of
registries, candidates, corpora, imports, exports and runtimes, of the serving
threads, of most requests and of the linking and staging of corpora, what matters most is
proved with TLAPS for instances of any size.

All paths below are relative to the repository; a line such as `graph_lifecycle.py:534`
is in `src/codekg/`. `PROJECT.json` maps every definition of the models to the
lines it stands for.

Contents: [inventory](#inventory), [plan](#plan), [the modules](#the-modules),
[the runs](#the-runs), [fairness](#fairness-and-deadlock), [the proofs](#the-proofs),
[what disagrees with the documentation](#where-code-and-documentation-disagree),
[what is left out](#what-is-not-modelled).

## Inventory

### How the parts work together

```
 working trees --(bulk / corpus export)--> CSV generation + manifest.json
                                                |  graph freeze
                                                v
                                    frozen generation descriptor
                                                |  graph prepare
                                                v
                 Docker volume --(offline import)--> Neo4j container
                                                |  graph bootstrap (counts, schema, marker)
                                                v
              candidate registry TOML --(graph activate / rollback)--> active registry
                                                |  read once, on first use
                                                v
                    MCP server --> federation --> one Neo4j client per graph generation
```

Beside this runs the older path: `codekg index` loads one repository into a
running Neo4j and a local lexical index, and `run-compose.sh` publishes a bulk
generation to one development database.

Apart from the MCP server, everything is a command that a person or a script
starts. **There is no lock anywhere**: two commands may overlap, and shared
state is the file system, the Docker daemon and the databases.

### Components

"Modelled" means that every operation that changes state is an action of a
module; `PROJECT.json` says of each part what is left out and why.

| component | state it keeps | operations | hard behaviours | what makes it correct | |
|---|---|---|---|---|---|
| **Registry activation** (`graph_lifecycle.py:503-599`) | candidate, active and `.previous` registry files | `activate_registry`, `rollback_registry`, `_atomic_write` | overlapping commands, files read twice, failure between two writes, power failure | only a checked registry is ever active, now and after a power failure; the replaced one is retained first; what a command acknowledged stays | modelled |
| **Candidate preparation and bootstrap** (`graph_lifecycle.py:48-266, 383-475`, `graph_artifacts.py:10-37`) | Docker volumes, containers, labels; the markers in each Neo4j | `prepare_graph_candidate`, `bootstrap_graph`, `verify_import_counts`, `write_generation_marker`, `verify_graph_marker` | look-then-create against other users of the daemon, kills during an import, retried writes, MERGE without a constraint | nobody's volume is imported into; a container is started on a whole import only; a marker vouches for counted data; a second marker only where two MERGEs race | modelled |
| **Corpus export and freezing** (`corpus_export.py`, `graph_artifacts.py:40-104`) | generation directories, root manifest, frozen descriptors, the batch registry, the supplemental graph | `export_corpus`, `_write_supplemental_graph`, `_compose_graph`, `_validate_composed_graph`, `freeze_generation_manifest` | sources edited while they are read three times; failures, interrupts, kills; overlapping exports; diagnostics that arrive while nodes are written | whoever follows a manifest finds a whole generation of one moment; its graph has every fact, owned, once, and no loose end; a frozen descriptor settles once no freeze is on its way to it | partly |
| **SQLite import** (`sqlite_cli.py`) | dump file, `sqlite3` child, pipes, monitor thread, READY event | `write`, `finish`, `abort`, the monitor | two threads and a process; a child that fails, hangs or talks; interrupts; a killed parent; truncated dumps | all rows or none, as if inserted in order; SQL only past the READY barrier; no child left behind; `finish` ends | modelled |
| **Native registry** (`corpus_registry.py`, `native_ir.py`) | a SQLite database per export, the open import batch | batches of facts, `resolve_corpus_facts` | estimated and measured sizes at the rotation bound; names hidden by nearer ones, macros, guards, several versions of a server | bounds hold and no file is lost or staged twice; a link is asserted exactly if the name means one thing | modelled |
| **Corpus configuration** (`corpus_config.py`) | none | load and validate | dependency closure, cycles | no closure joins two versions of a repository | modelled |
| **Graph registry** (`graph_registry.py`) | the loaded TOML, one handle per graph generation, lazily created clients | `GraphRegistry.load`, `GraphHandle.client`, `close` | double-checked lock around a client; contexts checked by direct dependencies only | one client per handle; accepted contexts are closed over one PostgreSQL | modelled |
| **Federation** (`federation.py`) | the registry it pinned on first use | trace, usages, compare, resolve | markers against replaced backends; deadlines and budgets at every step; cursors across restarts | answers come from the pinned generations; cursors yield each usage once; what is not marked truncated is complete | modelled |
| **Graph catalog** (`graph_catalog.py`) | none (reads) | the reads behind federation | ordering, overload selection | as above | partly |
| **Bulk export** (`bulk_export.py`, `bulk_spool.py`, `bulk_projection.py`, `bulk_identity.py`, `bulk_import.py`, `csv_limits.py`) | spool files, worker processes, directory manifest | export one or many repositories, project, import | window of `workers*2` batches, failing and dying workers, nodes shared by partitions, a temporary under a fixed name | shards build the graph of one pass; a manifest names a whole generation | partly |
| **Search staging** (`bulk_search.py`, `search_index.py`, `zvec_store.py`) | lexical collection, its staging directory | build, validate, search | two stores that change separately | a hit exists in the graph | partly |
| **Transactional loader** (`loader.py`, `cli.py`) | Neo4j nodes of a repository, lexical records | `load_repository`, `delete_repo`, reindex | delete, then many write transactions, then another store | after success the graph is the repository's, after any failure before | modelled |
| **Compose publication** (`run-compose.sh:175-269`) | runtime generation file, containers | `index-sources`, `start`, `stop` | failure or death between write, start, schema and validation | graph and search index of one validated generation are served; a failure restores the previous one | modelled |
| **Neo4j client** (`neo4j_client.py`) | process-wide driver | read, write, close | retried transactions, unconfirmed commits | one driver | partly |
| **MCP server** (`mcp/server.py`, `queries/code.py`) | the loaded service | read-only handlers with cursors and budgets | pages of a ranking made again for each page; identifiers that name several symbols | pages neither lose nor repeat; structural answers agree with one another | partly |
| **SQL and corpus queries** (`queries/sql.py`, `queries/corpus.py`, `corpus_queries.py`) | none | one parameterised read each | none | | not modelled |
| **Python ingest and resolution** (`ingest.py`, `ir.py`, `resolver.py`, `docs.py`, `source_locations.py`) | symbol tables of one run, a bounded cache of linearizations | extract, resolve | local variables rebound in loops, handlers, comprehensions; inheritance with cycles and gaps; an evicting cache | a call resolved exactly calls that method | partly |
| **SQL parsing and resolution** (`sql_*.py`) | search path and temporary objects of a script, registry of one run, a cache | parse, register, resolve, rows of the graph | the path changes in a script and in routines; temporary objects and common table expressions hide names | exact exactly if the session gives the name one meaning | partly |
| **Native C extraction** (`native_parser.py`, `native_evidence.py`, `native_sql.py`) | none | extract | none | | not modelled |
| **Evaluation, benchmarks, stress corpus** (`evaluation/`, `evaluation.py`, `tools/`, `scripts/`) | results | run measurements | outside the program | | not modelled |
| **Scripts** (`init-neo4j-data.sh`, `rebuild-kg.sh`, `convert2txt.sh`, `docker/`) | | straight-line shell | | | not modelled |
| **Logging** (`logging_config.py`) | | | | | not modelled |

### The hazards

The list the properties are for is `PROJECT.json`, "hazards": each at its line,
with the properties that would catch it. In short: interleavings of lock-free
commands on files, volumes and markers; state read, checked and read again;
power failures around a rename; kills between any two calls; retried writes;
edits under an export; a child process that fails, hangs or speaks out of turn;
threads around a half-made client; bounds and deadlines that cut a search which
is then taken for complete; pages of an answer that changes; a graph loaded in
many transactions beside a second store; a node that several partitions share;
caches; and names whose meaning depends on what ran before.

Three have no property: two overlapping exports of which the older wins, the
manifest of an export renamed without an fsync, and the revision of a
single-root export, read after its files. Of none of them do the code or its
documents promise anything.

## Plan

The order followed the path of a generation to its readers, from the end where a
mistake is visible to everybody, and then the algorithms.

| | modules | composes | state |
|---|---|---|---|
| 1 | `RegistryActivation`, abstract `RegistrySwitch` | files and commands | checked and proved |
| 2 | `CandidateLifecycle` | Docker, Neo4j, `prepare`, `bootstrap` | checked and proved |
| 3 | `CorpusPublication` | exports, freezes, working trees | checked and proved |
| 4 | `SqliteCsvImport`, abstract `AtomicImport`, shared `TaggedRows` | two threads, a process, pipes | checked (safety, refinement, liveness); proved, but for liveness |
| 5 | `GraphServing` | registry files, server threads, handles, backends | checked (safety, liveness), safety proved |
| 6 | `Requests`, `FederationCatalog`, `FederatedUsages`, `FederatedTrace`, `CatalogComparison`, `GraphRegistryLoad`, `SymbolDiscovery`, `SymbolRelations` | requests, catalogs, restarts, clients that follow cursors | checked and proved |
| 7 | `CallResolution`, `ReceiverTyping`, `SqlNames`, `SqlGraph`, `GraphProjection`, `RepositoryIndex` | extractor, resolver, spools, partitions, loader, lexical index | checked, the hits of `RepositoryIndex` proved |
| 8 | `CorpusResolution`, `CorpusStaging`, `CorpusGraph` | snapshots, batches, the composed graph | checked, proved |
| 9 | `RepositoryExport`, `RuntimePublication` | process pools, directories, containers, operators | checked (safety, liveness), safety proved |
| 10 | the remaining requests, the builders | | to do |

What step 10 should prove: of `RepositoryIndex`, that a load converges; of `SqlNames`, that
what is exact is what the names mean. `ReceiverTyping` uses `RECURSIVE` operators
and stays with TLC until they are written as functions, as those of `CallResolution`
are. What is worth modelling beyond that is
named under [what is left out](#what-is-not-modelled).

## The modules

### RegistryActivation

`codekg graph activate` and `graph rollback`. Both load a registry file, verify
that every backend in it carries its registered marker, read the file *again*
and install those bytes with `_atomic_write` (temporary, fsync, rename, fsync
of the directory); an activation first writes the active bytes to `.previous`.

* `live` is the directory all processes see, `disk` what a power failure would
  leave; an entry is its bytes and whether they were fsynced. The journal may
  commit the whole directory at any time (`JournalCommit`); `SyncDirectory` does
  so for certain. `PowerFailure` brings back `disk`, with bytes that were never
  fsynced possibly torn.
* `op[o]` holds the local variables of a command: what it loaded, the payload,
  the old payload, the write it is in. One action per system call that others
  can observe: `Load`, `ValidateBackends`, `ReadPayload`, `ReadOld`,
  `WriteTemporary`, `SyncTemporary`, `Replace`, `SyncDirectory`. `Abort` is every
  way a command may end early, a kill included.
* `EditCandidate` is whoever writes the candidate file. While no command has the
  candidate in hand anything may be written to it; while one has, whatever is in
  `LateEdits`. The code reads the file again after its checks, so such an edit is
  installed unchecked ([below](#where-code-and-documentation-disagree)), and the
  properties say that nothing *else* gets in unchecked. One run has torn bytes for a
  late edit, the other a registry nobody validated.
* File contents are abstracted to what `GraphRegistry.load` makes of them: a
  member of `Registries`, or `Malformed`.

`RegistrySwitch` is the promise without commands or temporaries: the active
registry changes in one step, only to a vetted registry or to what slips in behind the
checks (`Unvetted`, here `LateEdits`), and by activation only once the registry it
replaces is durably retained.

### CandidateLifecycle

`codekg graph prepare` and `graph bootstrap`. A candidate is named by its
generation and a token; container and volume have the same name and carry the
token as a label.

* `prepare_graph_candidate`, call by call: list containers, list volumes,
  `docker volume create` (which *succeeds* on an existing name), inspect the
  label, import, `docker run`, inspect, and the clean-up of a container that
  did not stay up. An import container goes on when the command that started it
  is killed (`ImportEnds` belongs to Docker).
* `bootstrap_graph`, one action per query: the counts, the existing markers, the
  first query of `write_generation_marker`, the MERGE as its match and its
  create (nothing in the schema makes it one step), the verification. Operators may
  bootstrap the same database at once; `SecondMarkerOnlyByRace` says when that, and
  nothing else, leaves two markers. The schema
  statements, which touch no marker, are not actions. A transaction the driver
  runs again goes back from create to match.
* Others make volumes and containers of the same name, stop and start containers.
* `maker` is a history variable: who really created a volume.

### CorpusPublication

`codekg bulk corpus export` and `codekg graph freeze`.

* The working trees are `source`, a version per file; an edit may happen
  between any two reads. An export reads every file for its first identity
  (`ReadBefore`), again to extract facts (`Extract`, one read for both parsers),
  again for the identity recorded per snapshot (`ReadAfter`, compared with the
  first), and a last time before it publishes (`CheckSource`, compared with what
  was recorded). `FirstOf` and `LastOf` give each file's snapshot, so the order
  of the reads is that of the code: all of one snapshot's extraction and
  comparison before the next.
* A generation has a directory status, the contents its facts come from, the
  contents its recorded revisions come from, and (history) the trees when the
  last comparison began.
* `Fail` removes the directory (`except BaseException`), `Kill` leaves it.
* A freeze reads the manifest, looks for the target, renames over it. There may be
  several, and between the look and the rename another may have made the target:
  `FrozenSettles` says what is left of "immutable".

The resolution and the composition of the graph read nothing but the registry the
export has filled; here they are the steps `Resolve` and `Compose`, and what they
compute is modelled by `CorpusResolution` and `CorpusGraph`.

### SqliteCsvImport

`SqliteCsvImporter`: rows for several tables go to a private CSV file with a
trailer; `finish` sorts it by table, starts `sqlite3`, lets it `.import` the
dump into a stage, waits for the READY line, sends the SQL of one transaction
through a pipe and waits for SUCCESS and exit.

* `parent` is the thread in `finish` or `abort`, `monitor` the thread reading both
  outputs, `child` the process; `control` is the pipe the SQL goes through,
  `stdout`, `stderr` what was printed. `monitor.event` is the `Event`.
* The child: `Import` (which, with `Corrupt`, may lose a row or the trailer without
  saying so), READY, `ReadSql` (all of it, or the end of the pipe), `Transaction`
  or `Rollback`, SUCCESS, `Exit`. `ChildFails` and `ChildWarns` at any time. It is at
  work as soon as it is made (`StartSqlite`), the monitor only from `StartMonitor` on;
  what fails in between stops it.
* `_stop_child`: SIGTERM, two seconds, SIGKILL, then the pipes. Between SIGTERM and
  SIGKILL the child may still take any step, a commit included.
* `Fail` is an exception anywhere in `finish`, KeyboardInterrupt included;
  `ParentKilled` ends both threads and closes their pipe ends.

`TaggedRows` says what inserting a row does to the database under the three
conflict modes. `AtomicImport` is the promise: the accepted rows are loaded
together, as if one by one in the order written, or not at all, and "ok" is
answered only if they are. "failed" may follow a commit: the caller cannot tell.

### Requests, and the modules that answer them

`Requests` is the frame of all modules that model one call at a time: `request`
is what was asked and answered, `progress` the local variables of the function
that works on it, `pc` among them. A step is one iteration of a loop or one call
that may fail. `Expire` and `Deadline` are the clock of a request passing its
limit and the code noticing.

**GraphServing**: server threads, handles and backends. `registry()` pins what is
active at the first request; a handle's client is created under the handle's
lock after an unlocked first test, verified, and only then shared. One action per
test, lock, creation, verification and read. Meanwhile operators activate other
registries, backends are stopped or replaced, and the server exits or is killed.

**GraphRegistryLoad**: `GraphRegistry.load` over the graphs, manifests and contexts
of a registry file. A context must name an application graph, a database graph and
extensions of it (`ContextNamed`), and is then checked by the *direct* dependencies of its
extensions; that this suffices, because every extension's closure was walked
before, is what `AcceptedContextsClosed` says.

**FederationCatalog** holds what a federated query reads: routines with schema,
arity and search path, evidence, and edges. A *deployment* is one activated
registry: a context and two generations. **FederatedUsages** walks the edges
backwards to the routines that reach an object, then reads the application's
evidence of their names, a page at a time; `Restart` puts another deployment
behind a cursor. What the walk ought to find is stated without a walk: `Reaching` is the
least set that holds the target and the sources of what it holds. **FederatedTrace** goes forwards: the calls of an entry function,
the evidence its functions own, the routine each means, the body of an
application routine, and the simple paths from there to the target, all under one
budget. What there is to be found is stated without budgets and without a walk: `Callable`, the
least set that holds the entry and what it calls, and `AllPaths`, every simple path from what that
evidence means. **CatalogComparison** compares two snapshots page by page, rows in the order of
the identities; what a query selects from ordered rows is `Among`, and how rows are put
in order is `Ordered`, both in `RowSelection`.

**SymbolDiscovery** is `search_symbols`: the snapshot is chosen, graph and lexical index
are read, hits are merged and ranked, a page is cut and its cursor made, while
`Reindex` may put another content behind each of these steps. **SymbolRelations**
resolves an identifier and answers by call sites and exact calls; each tool is a
query of its own, and `RelationsAgree` relates their answers.

### The builders of the code graph

**CallResolution** is the resolver: names through imports, owners, the linearization
of types (C3, with a cache of bounded size that also must not keep what was found
while a cycle was being cut), methods, local variables, constructors.
`MroRight` asks for linearizations in any order and compares each with what
linearization means, by a definition that caches nothing.

**ReceiverTyping** extends it by what the extractor records of the local variables of a
function, and *runs* the function: `Assign`, `Enter` (one of a statement's ways),
`Comprehend`, `Raise`. Whenever the resolver concludes that `x.run()` is a certain
method, every run that gets to the call must call that method.

**SqlNames** parses a script statement by statement, as the code does: `SET
search_path`, temporary relations, routine bodies with a path of their own, common
table expressions; then all files are registered, and each reference resolved, from a
small cache. The reference says what the *session* would do, without a builder or
a cache.

**GraphProjection** builds the graph of a snapshot twice: in one pass, and in shards, where
each partition sees its own files and the shared registry, and decides alone
which shared nodes it emits. **SqlGraph** adds the rows of SQL files to both.
**RepositoryIndex** loads it into Neo4j in batches, each a transaction, beside the lexical
index; any call may fail, and the repository is then indexed again, perhaps at
another commit. A stand-alone `delete` is the beginning of a replacing run that
fails after `DeleteGraph`.

### Corpora

**CorpusResolution** accepts or refuses a manifest, then links the facts of its snapshots:
evidence to routines through the schemas of the search path, calls of C through
static, own and foreign definitions, routines in C to the functions of a module or
of the server, fact by fact and table by table (`Passing`). What a snapshot depends on is the least set that
`Following` says. The reference, `AssertedIff`, says which names *mean* one thing and
demands an asserted link exactly then; a call is evidence too, and the function it is in
has, line by line, the links of its calls (`OwnerRight`). **CorpusGraph** continues with the nodes and
relationships of these facts, whose writing adds diagnostics and links, and the
validation of the composed graph. **CorpusStaging** is the reading that comes before:
every file is read once and goes to the open batch of the importer and, if it is an
ordinary source, to the open spool, each with its bounds, while sizes change
between two looks.

### Publications

**RepositoryExport** has processes that share one output directory, each with its pool:
futures are queued, done, failed or lost with the pool, workers fail or die, the
coordinator submits, is refused by a pool that lost a process, fails by itself,
waits and drains. Files keep their identity when they are renamed, so that the
fixed name of the temporary manifest can be followed. **RuntimePublication** is
`run-compose.sh index-sources` command by command, with `set -e`: which generation
`runtime.env` names, Neo4j holds and the MCP server reads, and which keys are
staged, imported and indexed.

### Abstractions worth knowing

* Keys that the code hashes or joins from strings (occurrences, call sites, spool
  names) are tuples of what goes into them.
* `SymbolDiscovery`: scores are numbers of the rows, since texts determine them.
* `CorpusResolution`: evidence without an ordinal (of registries
  older than it) and the derivation of a control file's name are left out.
  `CorpusGraph`: an owner is matched by the last part of its name, the `LIKE` of
  the code with its wildcard `_` is not.
* `CorpusStaging`: what was read of a file is its number of bytes; any failure removes
  the generation.
* `RepositoryIndex`: the batches of SQL are written one label after another; the code
  writes a label's batch when it is full, between others.
* `RuntimePublication`: one script or one operator's command at a time; `docker compose up`
  makes a container anew if its volumes have other names.

### The MC modules

`MCRegistryActivation`, `MCCandidateLifecycle`, `MCCorpusPublication`, `MCSqliteCsvImport` and
`MCServing` give model values to one module each. `MCServerQueries` puts the modules of
requests side by side: a behaviour is about one of them, chosen in `Init`.
`MCGraphBuilding` does so for the builders (with the corpora of `MCCorpora`), and
`MCBulkPublication` for the two publications.

## The runs

Every property of a passing run has a mutant in `PROJECT.json`: a faulty variant
of one definition, kept beside the original and marked so, under which the run
finds the property violated.

| run | instance | shows |
|---|---|---|
| `activation_concurrent` | two operators, two registries, any overlap, torn late edits of the candidate | the active registry, and what a power failure would bring back as active and previous, passed some command's checks or is a late edit, and a power failure never tears a command's write |
| `activation_serial` | one operator, three registries, of which one may be a late edit | an acknowledged command is durable; the commands implement `RegistrySwitch`, which retains the replaced registry, on disk, before the switch, and lets in nothing unchecked but the late edit |
| `candidate_lifecycle` | two operators, who may bootstrap one database at once, two generations, two tokens, three candidates | containers run on whole imports only; a marker vouches for counts; a second marker comes only of two racing MERGEs, never of a retry, a lost confirmation or a restart; imports go to one's own volume |
| `corpus_publication` | two exports, two freezes, two snapshots of two and one files, one edit of each, two directories | manifests name whole generations; revisions describe the facts; the facts are those of one moment; a descriptor that exists is never removed, and is replaced only by freezes that had already looked, once each |
| `sqlite_import` | three tables, one per conflict mode, one key, two rows, empty or full database, lossy import | implements `AtomicImport`; SQL only past the barrier; no child left; `finish` ends; an orphaned child ends |
| `graph_serving` | two threads, two graphs, two registries, two events (activation, replacement, outage, exit, kill) | threads work on one pinned registry and answers come from it (`AnswersFromPinnedRegistry`); never a second open client of a handle (`OneClientPerHandle`); requests end (`RequestsEnd`) |
| `server_queries` | three deployments, four registries to compare, 771 registry files, four index contents, 64 code graphs, all under small caps | following cursors to the end yields every usage once (`UsagesExactlyOnce`); an answer not marked truncated and not filled has every path, and every path is real (`TraceComplete`); pages that name one pair of generations add up to their difference (`ComparisonConsistent`); accepted contexts are closed (`AcceptedContextsClosed`); pages of symbols are of one snapshot, and from one content give each symbol once (`DiscoveryPagesOnce`); the structural tools agree (`RelationsAgree`) |
| `graph_building` | inheritance graphs of five types, small snapshots of Python and SQL, functions of two or three nested statements, scripts of three statements, corpora of four snapshots | linearizations are right whatever is cached (`MroRight`); shards build the graph of one pass (`ShardsAgree`); a run that succeeds converges after any failed one (`IndexConverges`), and no search hit dangles meanwhile (`SearchHitsLive`); exact receivers are those of every execution (`ReceiverRight`); a reference is exact exactly if the session gives it one meaning (`SqlNamesRight`); links of a corpus (`CorpusLinksRight`), its graph (`CorpusGraphWhole`), its staging (`StagingBounded`) |
| `bulk_publication` | two exports of three batches, pools of one process; two runs of the script, two callables | the manifest names a whole generation (`ManifestRight`); exports end (`ExportsEnd`); graph and index that are served belong together and were validated (`ServedGeneration`); a script that fails leaves what was current (`PreviousRestored`) |
| `trace_truncation`, `receiver_handler`, `shard_parity` | as above | the disagreements [below](#where-code-and-documentation-disagree) |

### Bounds and why they are enough

* *Two operators, exporters.* The hazards are races between a command's read and
  its write; two commands show each of them, in every order. The theorems of
  modules 1 and 2 need no bound.
* *Registries.* With two, one can be active, the other on its way. The serial run
  has three, so that active, previous and candidate can all differ.
* *Three candidates*: two generations under one token, and one generation under
  two tokens. Each operator has its own token, as the code's random tokens do. The generations have
  different counts, so that a bootstrap pointed at the wrong candidate is seen.
* *Three files, two snapshots.* Two files in one snapshot, so that an edit falls
  between two reads of the same walk; a second snapshot, so that an edit of the
  first goes by while the second is read. `MaxVersion = 1`: one edit of each
  file is all a comparison of equality can see, and an edit never restores an
  old content.
* *Two generation directories.* One may be current while another is built,
  failed or killed. When the names are used up no further export gets past
  `CreateGeneration`.
* *Two rows, one key.* Two rows collide in a table or are in two tables written in
  the opposite of the mapping's order; with a full database they also collide
  with what was there. Losing one row, or the trailer, is the smallest damage.
* *`graph_serving`.* Two threads race for one client; two events are an activation and
  a replacement, or a replacement and its undoing, between any two steps. `Bolts = 4`
  is more clients than are ever open.
* *`server_queries`.* Each cap stands for one of the code and is small enough to be met:
  `PageSize` 2 and `WorkCap` 3 cut the five postings within and between names,
  `CandidateLimit` 2 is met by two overloads, `EdgeCap` 10, `VisitedCap` 14, `EvidenceCap`
  and `IntentCap` 5, `PathCap` 2, `MaxDepth` 3 and `ResponseCap` 2 end walks of graphs with a
  cycle, a body and two ways; `CandidatePool` 3 and `MaxOffset` 5 lie within the rows of an
  index and a comparison. A third deployment differs from the first only in its
  database, the second in its application.
* *`graph_building`.* Five types are the least with which C3 fails for one order of bases and
  not for another, with a cycle or a gap beside; `MroCacheCap` 3 evicts among them. Batches of two files or
  bytes, and one or two workers, give every division of four files. `BatchRows` 2 splits
  most operations of a load; two loads (`MaxIndexed`) show whatever a failed one leaves.
  Programs are one compound statement between two simple ones, or in another:
  each rule of the extractor is about one statement and what surrounds it. Scripts
  have two statements that change what names mean, since the code keeps a path and a
  set of temporary names and no history. `LinkCap` 1 stands for 32 candidates. Sizes 1,
  2 and 3 are below, at and above `MaxFileBytes` and `BatchByteLimit`.
* *`bulk_publication`.* With one process the window is two, and the third batch waits. A second
  run of the script finds what a first published or left.

Symmetry is used for operators and registries, and for exporters, freezers and
generations; never in a run with a liveness property.

## Fairness and deadlock

Three specifications have liveness properties and state fairness.

`SqliteCsvImport`:

* `WF(Finishing)`, `WF(Watching)`: the two threads of the process are scheduled
  by the operating system. Every step of theirs is enabled or not without a
  timeout; the bounded waits of the code (two seconds for SIGTERM) are steps that
  may end either way.
* `WF(~stopping /\ Sqlite)`: `sqlite3`, left alone, goes on. Nothing is assumed of it
  once it is being stopped: it may ignore SIGTERM, and `FinishEnds` then rests on
  `KillChild`.
* None for what may happen or not: `Write`, `Finish`, `Fail`, `ChildFails`,
  `ChildWarns`, `MonitorFails`, `ParentKilled`.

`FinishEnds` is about the event without a timeout (`sqlite_cli.py:208`): it holds
because each way for the monitor to end sets it. A child stuck forever in
`.import` is excluded by the third assumption; the code has no timeout there.

`GraphServing`: `WF(Step(t))` for each thread, which the interpreter schedules, and
`SF(Lock(t))`: a lock that is released again and again is some day obtained, as
it is from Python's locks when the others also go on to something else. The
verification and the reads are bounded by the driver's timeouts, so they are
steps. No fairness of `Begin`, of the operators or of the failures.

`RepositoryExport`: `WF(Coordinate(e))` for the coordinating process and `WF(WorkPool(e))` for
its pool, where a worker ends its batch, fails, or dies: none works forever. No
fairness of `ExportFails`, `KillExport` or `BeginExport`.

The runs of requests, builders, imports and publications
(`sqlite_import`, `graph_serving`, `server_queries`, `graph_building`, `bulk_publication` and those
that expect a violation) do not check deadlock, because there a request is over
when it is answered, an export when it has ended, and a server may have no events
left. The runs of activation, candidates and corpora do.

## The proofs

One module of proofs stands beside each of `RegistryActivation`, `CorpusPublication`, `SqliteCsvImport` and
`GraphServing`; that of `RegistryActivation` also holds the theorems about `RuntimePublication`, the other way to change
what is served. `LoadingProofs` is about the two ways into a database, `CandidateLifecycle` and `RepositoryIndex`. `ExportProofs` holds the theorems about what exports build, which are `RepositoryExport`, `CorpusStaging`, `CorpusResolution` and
`CorpusGraph`; `RequestProofs` those about `GraphRegistryLoad`, `SymbolRelations`, `CatalogComparison`, `SymbolDiscovery`,
`FederatedUsages` and `FederatedTrace`, each of which does one request at a time; and `DataProofs` the lemmas about data that several of them need. The theorems
hold for any sets of operators, registries, generations, names, exports, files,
tables, rows, threads, scripts, batches, graphs and sizes. They assume what the ASSUMEs of the
specifications say of the constants, and what a theorem's own ASSUME says. TLC evaluates the
ASSUMEs in the runs. They say that special values differ from ordinary ones, that
counts, caps and sizes are naturals and that lists are sequences, and beyond that:

* the files of a snapshot are consecutive;
* `ServingAssumption`: there is a client to be had for every graph (the driver makes as many as it is
  asked for), and a request reads at least one graph;
* `GraphsAssumption`: no two symbols of a graph have one key, which the schema makes a
  unique constraint (`schema/bootstrap.py:30-32`), and depths begin at 1, to which they are clamped;
* `ComparisonAssumption`: a generation has one content, so that the generations an answer names
  determine what was compared; and facts are finite, each with the columns that are compared;
* `SearchAssumption`: rows of one key are of one symbol (`loader.py:955-956` makes the key of what
  identifies it), the full-text index yields a symbol once, and an index has finitely many snapshots;
  `CursorAssumption`: a cursor is not the absence of one;
* `CatalogsAssumption`: what SQLite's primary keys give the catalogs (routines and postings have one
  row per key), that names are ordered, that positions grow along a catalog and begin
  after 0, and that a generation identifies its catalog, being named by the digest of its
  manifest and revisions (`graph_registry.py:437-443`);
  `ContinuationAssumption`: a continuation is not the absence of one;
* `TraceAssumption`: calls, evidence and edges are lists, no two pieces of evidence of a catalog have one key (the
  primary key of `fact_keys`, `corpus_registry.py:271-272`), and a question has a depth and a limit of at least 1, others being refused (`federation.py:160-161`);
* `ImportAssumption`: the tables of an importer are listed once each, being the keys of a mapping
  (`sqlite_cli.py:477`), and the database is one of rows of these tables;
* `CorporaAssumption`: what the tables of the native registry hold: every routine and symbol has its columns and a
  name, and each call of C is written together with a piece of evidence of its own, of the origin `native_call`, to which it
  refers by ordinal. `LinkCapAssumption`: one candidate may be kept (32 in the code);
* `FilesAssumption`: what extraction writes, file by file: facts and diagnostics are of files the registry has, finitely
  many, with lines and columns that are naturals; and the evidence of a call says what the call says, of the same
  owner and file, `<dynamic>` for a callee without a name (`corpus_registry.py:1118-1156`);
* `StagingAssumption`: a batch may hold one file (128 in the code, for importers and spools);
* `IndexAssumption`: a batch of the loader has at least one row, a source has a commit, a snapshot has a path once, and what the
  parsers hand over of a file are lists and finite sets, with ranks that are naturals; the calls of a file are numbered
  (the keys of call sites take their positions, `loader.py:959-975`), and a file of SQL has none of Python's; the body of an SQL routine holds no routine of its own, which PL/pgSQL does not have.

Where a run puts several modules side by side, a theorem is about one of them by itself: `ScriptSpec`,
`ExportSpec`, `LoadSpec`, `RelationsSpec`, `ComparisonSpec`, `SearchSpec`, `StagingSpec`, `CorpusSpec`, `CorpusGraphSpec`, `UsagesSpec`, `TraceSpec` and `IndexSpec` are the initial states and steps of
that module, which are also what the run's specification takes for its behaviours about it.

| theorem | assumes | argument |
|---|---|---|
| `TypeCorrect` (activation, candidates, corpora, serving), `ExportTypeCorrect`, `ImportTypeCorrect` | | one lemma per kind of record, then a step per action |
| `OverlapSafe`: ActiveWasValidated, and `PowerFailureSafe`: PowerSafe | | `OverlapInv`. ActiveWasValidated is not inductive: nothing in it says that the bytes *on their way* into the file were validated. The invariant follows them: what a command has in hand, and what it will read again after the checks, is vetted or a late edit, payload and old payload are vetted, a temporary about to be renamed is fsynced, and both files, live and on disk, are vetted and fsynced. A rollback's second read needs no more than that: whoever replaces the previous file replaces it by vetted bytes |
| `AcknowledgedSurvives`, `RetainsPrior` | one operator | `RetainInv`: from the read of the old bytes to the rename nobody else moves either file, so the old bytes, the previous file and its disk copy agree with the active file |
| `ImplementsSwitch`: refinement of `RegistrySwitch` | one operator, who rolls back to the previous file | `SwitchInit`, and `SwitchStep`: each action is a step of the switch or stutters, from the invariants above and `SourceInv`: nobody but a late edit changes the source between load and second read |
| `StartedImported` | | `ImportSafe`: a volume goes from absent over empty and partial to the generation of its name, and a prepare at `docker run` has seen the last |
| `MarkedCounted` | | `CountedInv`: past the counts a bootstrap may rely on them, because imported data never changes (`DataStays`), whatever is stopped or started |
| `SecondMarkerNeedsRace`, `MarkerSettles` | | nodes are made by the create of a MERGE only (`CreatingBegins`, by the actions), whose match found none. So a second one needs a second create on its way while there is a first or one on its way, and that needs a match before the first create is done; a database with one marker and no create on its way keeps it (`SettledStep`) |
| `ImportsOwn` | no two operators share a token | `LabelInv`: a label tells who made the volume |
| `ManifestWhole` | no interrupt after the rename of the manifest | `OwnInv`: whoever builds a directory is alone in it, because `mkdir` refuses an existing name. `ManifestInv`: what is named by the manifest, the descriptor or a freeze in progress is complete, and an export about to publish is not yet named, so whoever removes a directory removes one that nobody follows |
| `DigestCorrect`, `OneMoment` | | `FactsInv`. Contents only move forward, so where two reads of a file agree, so does every read between them. The first identity and the recorded one bracket the extraction; the recorded one and the last comparison bracket the moment at which that comparison began, which is the same for all files. `Walked` says how far the walk over files and snapshots has come. Each reading step is a lemma of its own about the two records and the trees |
| `DescriptorSettles`, `FrozenStays` | | a freeze sets out to rename only where it saw no descriptor, so with a descriptor there the set of those on their way only loses members, each by its one rename or its end; when it is empty nothing is left that writes |
| `NoChild` | | `ChildInv`: there is no child before `StartSqlite`, and past the stopping it has exited |
| `Barrier` | | `BarrierInv`: READY is the first thing a child prints, or what it printed before is on stderr, where it stays; so the monitor cannot overlook it when it accepts READY |
| `ImportIsAtomic`: refinement of `AtomicImport` | | `RowsInv`: the stage is the sorted dump or lacks one of its rows, and a child that has committed has passed the check of the counts, one per table, which a stage that lacks a row does not pass (`StageIsSound`). So a commit inserts `Grouped(Grouped(written))`, table by table, where the abstract step loads `written`, all tables mixed. That both leave the same database (`AtomicLoad`, `AtomicClashes`) is argued cell by cell: what `Load` puts into a cell, and whether a plain INSERT clashes there, depends on the rows of that cell alone and their order (`LoadOfCell`, `ClashOfCell`), and grouping, which is stable, keeps it (`GroupsAre`). Every other step of thread, child and monitor opens, closes, answers or stutters |
| `PinnedAnswers` | | `PinnedInv` (with `LockInv`, `HoldingInv`, `HandlesInv`): the property is about the answer, what it needs is about every step before: until something is replaced, the graphs a thread has behind it carry the pinned registry's markers, also those of which another thread made the client while this one waited for the lock |
| `NoClientLost`, `ClientsStayUsable`, `ClientsBounded` | | `LockInv`: who is between lock and unlock holds the lock, and holds no other. `HoldingInv`: what a handle *holds* is its client or, while it is verified, that of the lock's thread; every open client is held by exactly one handle. `OneClientPerHandle` alone does not exclude that two threads verify for one handle |
| `OneGenerationServed`, `FailureRestores` | | `ScriptInv`: by the place in the script, which generation `runtime.env` names (`FileInv`), what the volumes hold (`VolumeInv`), and that the server is down wherever the two could differ (`ServiceInv`) |
| `ManifestNamesWhole` | | `StagesInv`: how far the futures of a stage have come, so that a stage is left only with every batch done. `FilesInv`: files are known by identity, and each that is complete describes the export that wrote it. `AloneInv`: without overlap, temporary and top are those of the one export that runs; the torn manifest of overlapping ones needs no invariant, the property excepts it |
| `ContextsClosed` | | `LoadInv`. In one direction, the walk of each extension has seen a set closed under dependencies (`Walked`: what is pending or seen is needed, and what the seen need is pending or seen), so the least one is in it, and the selected extensions with PostgreSQL are another. In the other, what was refused is traced to the step that refused it; that the direct dependencies of a selected extension lie in a closed choice is where `Needs` being least is used |
| `QueriesAgree` | | no invariant beyond the answer's form: the content is in the lemmas. A path is grown at its end in one query and turned round in another (`PathGrows`, `PathTurned`); the shortest length is in the depth's range exactly if some path is (`WithinPaths`), by the least member of a set of naturals |
| `PagesAddUp` | | `ComparisonInv`: as long as all pages named one pair of generations, they are the first `offset` rows of its difference (`PagesInv`), although nothing binds the offset to it: a restart in between adds a pair, and never takes one away. `PageGrows` is the step. That the rows the other way round are the same with additions and removals exchanged (`DifferenceMirrored`), and that what differs has a row (`UnlikeDiffers`), are lemmas about the query, by the cases of how many meanings each side has |
| `SearchPagesOnce` | | `SearchInv`. As long as the index stays, the pages are the first `offset` answers of *one* ranking, that of the snapshot the cursor names, although each page reads the sources and ranks again (`ReadSoFar`); within a page, what has been read so far is what that ranking is made of (`PageInv`). Once the index changes only the snapshot is left of this. What a ranking is needs the lemmas: `OrderedIs`, that sorting by a strict total order lists every member once, in order; `RankedIs`, that of a key that both sources give exactly one row is kept; `PoolIsWhole`, that the graph's candidates leave nothing out unless there are more than the pool holds |
| `UsagesOnce` | | `UsagesInv`. A continuation has no list of what was reported; what makes it sound is that a place, a name and a position in its postings, *means* a set of postings, those `Told` before it, which is the same in every deployment the continuation is good for (`SameListed`). `ClientInv` says that what the client was told are the usages among these, once each, whatever it was restarted or asked with since. `PlaceOfUsages` carries this through a request: the page at hand is the beginning of the postings still to come (`PostingsAre`), each step over one of them moves the place by exactly that posting (`ToldNext`, `ListedNext`), a stop names the place it stopped at, and a name's end is the beginning of the next (`NameRead`). `WalkOfUsages` is what the names rest on: a node visited was expanded or is still in the queue, so when the queue is empty what was visited is closed, and it is `Reaching`, the least that is (`ReachingIs`). None of this is claimed of a walk that was cut, which is why its answer may have no continuation. That every usage has the name of a routine that reaches the target, so that reading the postings of these names misses none (`UsageNamed`), looks through scopes, search path and the choice of one routine per meaning |
| `TraceIsComplete` | | `TraceInv`, by the place in the request (`TracePlace`). While calls are walked, what was seen is in the queue, or its calls were seen and it is listed if it owns evidence; so with the queue empty what was seen is `Callable`, the least closed set. Then the evidence of an owner is held or the owner is still to come. Then what was followed is reported (`Followed`), and of the evidence that is followed now, what is not reported is among the bodies, or found, or some path in the queue *begins* it (`Begins`): a path that is taken from the queue leaves its continuations there (`WalkThatBegins`, `PartialGrows`). All this is claimed only until something is `cut`. What is reported is a real path, cut or not (`GoodPaths`). The paths of the reference are levels, as many as there are edges, and come to all walks without repetition (`PathsAreWalks`), because such a walk enters each of its nodes by an edge of its own (`WalkIsShort`) |
| `SearchHitsStayLive` | | `IndexInv`, along a run of `index_repository`. Before anything is deleted the descriptions are (`HitsLive` at `index.delete`); what is loaded afterwards never takes a function or a method away (`BatchKeeps`, `ClearedKeeps`, `WithoutSqlKeeps`: `MERGE` replaces a node by one of its label and key, and the clearing of SQL takes nodes of other labels); and descriptions are written only after the rows of initializers, functions and methods, operations 1, 5 and 6 of the load (`RowsLoaded`), from which every callable of the snapshot has its node (`CallablesLoaded`, `HitsComing`). That each operation is a *list* of those rows, which the batches go through to the end (`OperationsListed`, `RowFound`), is the longer part: the rows are sets that depend on calls resolved and SQL parsed, and must be shown finite, for scripts statement by statement through the builder (`ScriptRefsListed`) |
| `RunsConverge` | | `ConvergeInv`, with `IndexInv`. The data first: `PlanIsRight` says of the 32 operations of a load that their rows are the graph of the snapshot, row by row and back (`PlanMakes`); that a relationship's ends are in its row or in an *earlier* operation (`Anchored`), so that no `MATCH` of a run that gets that far comes up empty; that the graph has one node for a label and key (`OneEach`), so that no row replaces what another wrote; and that no operation before the clearing of resolutions writes any, nor one before the clearing of SQL a node of it. Then the states: what is behind the place of the load is in the graph (`PlanWritten`), which a `MERGE` of a row of the same graph keeps, whatever an older commit left beside it (`MergeAdds`, `BatchAdds`); and after each clearing there is nothing of its sort but today's (`DerivedWanted`, `SqlWanted`). The second needs what runs of other versions may have left: that keys of SQL are on nodes of SQL only, and every relationship has its ends (`GraphsShaped`), or `DETACH DELETE` of the nodes would not take the relationships |
| `StagingWithinLimits` | | `StagingInv`. The bound of a batch is not inductive, for it speaks of bytes read and the code tests bytes *counted*, of which one file's are an estimate: `OpenImporterInv` relates the two at each point. `StagedInv` says of each file where its rows are: before it nothing, while it is read one row in the last batch, afterwards all in one batch and one spool. That bytes read are a sum over a set, in an order that is chosen, is dealt with once (`SumGrows`) |
| `CorpusLinks` | | `LinkInv`: while the tables are gone through, what is linked is exactly what the facts behind the one at hand are linked to, so at a commit it is `AllLinks`; nothing of it depends on diagnostics or on links made before. That `AllLinks` is right is then argued without states. `VisibleInSight`: what the code unites, a snapshot and the closure of its direct dependencies, is the least set that has it and is closed; so a link leads into it, what is seen from there is in it (`SightIsClosed`), and chains stay (`ChainsStay`), where the manifest admitted one version of a server (`OneServerInSight`). `EvidenceFound`, `CallFound`: the code's search, schema by schema or by priority, own before foreign, finds what nothing *hides*. `DistinctIsOne`: of facts that are equal but for their places one remains, so "one is left" is "they are the same", and what decides about one decides about all (`EqualsAlike`). `AtEvidence`, `AtRoutine`, `AtCall`, `AtOwner`: the links that start at a fact are made at one place, for calls at that of their evidence |
| `CorpusGraphIsWhole` | | `WholeInv`, by the phase. While links are made, `NoteInv` adds to `LinkInv` that a call behind the one at hand has its one owner or is noted as a diagnostic. While nodes are written (`WriteInv`), the nodes are exactly those of the facts behind the place, label by label, and the links are `AllLinks` and those of the evidence behind; those never change a status that was written, because they do not start at evidence (`StatusKept`), and diagnostics added meanwhile get nodes because their label is the last. What was put together is then argued without states: every end of a relationship is the key of a node (`EndsAreKeys`) and no key has two (`OneNodeEach`), so the validation cannot refuse it; `AllHang`, `AllOwned`, and `AllCompared`: of equal routines the one with the least key is primary, of equal definitions of C the first, and every static one, and of declarations the first of a file and signature where nothing of the name is defined (`PrimaryOnes`, `DefinitionsCompared`, `DeclarationsCompared`) |

`TypeCorrect` and `RetainsPrior` of `RegistryActivation` are theorems only: the runs do not
check them as well, since `RefinesSwitch` implies the second, of activations. `OneAtATime`, tokens that are not shared
and `~LateInterrupt` are not conveniences: without them the properties are false, as the
disagreements [below](#without-a-run) explain for the first and the last; tokens are
random unless an operator chooses one (`graph_lifecycle.py:78`).

Induction over data is out of reach as the library states it, with a predicate as parameter.
Where these proofs need it, it is over a *set*: `Induction` (a set with 0 that has n + 1
with n has every natural), `SequenceInduction` (a set with the empty sequence that has
`Append(s, x)` with `s` has every sequence), and `Recursion`, that a function defined by recursion over the naturals
exists, from which `SumExists` and the paths of `SymbolRelations` follow. The folds of
`RowSelection`, `TaggedRows`, `FlattenSeq`, of the SQL builder and of the loader are such functions too (`AmongRuns`, `LoadRuns`, `Flattened`, `ScriptRuns`, `MergeRuns`).

*Only model-checked*: liveness (`FinishEnds`, `OrphanEnds`, `RequestsEnd`, `ExportsEnd`), which is
outside what TLAPS proves; what rests on `RECURSIVE` operators, of which the provers can use nothing (`ReceiverRight`); what
a recursive definition computes for every input, which needs induction over data that the provers do not have
(`MroRight`: C3, with its cache); and, without such a reason, what is not proved: `ShardsAgree`
and `SqlNamesRight`.

## Where code and documentation disagree

### Shown by a run

| run | what happens |
|---|---|
| `trace_truncation` | A trace that fills its paths within the body of an application routine ends without `truncated` (`federation.py:316` skips 358-360, and 361-362 breaks), although evidence was not looked at. "Results report traversal truncation when the depth/fan-out/path budget is reached." (`docs/federated-kg-demo.md:134-135`) |
| `receiver_handler` | The binding of a handler's name takes effect at the end of the handler (`ingest.py:328-340, 571-592`): inside, the name keeps its former type, and a call on the exception gets an exact target. "Created only for exact resolution" (`docs/kg-model-detailed-spec.md:31`) |
| `shard_parity` | Shards look for a call's owner among types too (`resolver.py:185`), one pass among callables; and a base that means the class itself is passed over by shards and ends the search in one pass. The first gate of the design is parity. |

The properties that hold leave out exactly these constructs, each by a named
predicate: `TraceComplete` says nothing of an answer filled to the limit,
`ReceiverRight` of functions that call on the exception they caught (`UsesCaught`) or
bind a name by an import, def or class (`Defines`),
`ShardsAgree` of snapshots with either disputed construct.

### Without a run

Met while modelling, and kept out of the passing runs by an assumption or by the
choice of inputs:

* `activate_registry` reads the candidate a second time after checking it (`graph_lifecycle.py:533`): an edit in
  between is installed unchecked; likewise in a rollback (573). The runs have such edits (`LateEdits`), and their
  properties except them. And of two overlapping activations the second may replace a registry that neither retained.
* Two bootstraps of one database at once leave two markers, for MERGE has no uniqueness
  constraint (`graph_artifacts.py:28`); the database never verifies again. The run has them, and
  `SecondMarkerOnlyByRace` says that this is the only way.
* Ctrl-C between the rename of the manifest and the return removes the generation that
  has just become current (`corpus_export.py:213-216, 277`). `LateInterrupt`.
* A second freeze at the same time replaces a descriptor that was frozen
  (`graph_artifacts.py:90-104`), though "existing destinations are immutable"; `FrozenSettles` says what
  remains true.
* Python: an import, def or class in a function that binds a local name again is recorded only in
  loops (`ReceiverRight` excludes such functions, `Defines`). A with statement is taken not to stop
  exceptions.
* SQL: `DROP TABLE t` of a temporary table resolves exactly to a persistent `t`
  (`sql_parser.py:602-628`); CREATE TEMP VIEW and SEQUENCE are registered as persistent; `RESET ALL`, `DISCARD
  ALL`, `set_config`, `SET LOCAL`, a rollback and a SET under an IF of PL/pgSQL leave the path known, which
  `docs/sql-ingestion.md:40-51` denies; temporary names made in a routine's body stay
  for the rest of the file; ALTER and DROP of one kind of relation look past a relation of another kind
  in an earlier schema. The scripts of the run hold none of these.
* Corpora: stored links go through the schemas one by one, own definitions before dependencies in each,
  while the detailed specification describes the federation's order, own routines over all schemas first.
  The native resolver is exact where `sql_resolver.py` would ask for the argument types.
  A routine of unknown arity is no candidate of a call whose arity is known. Diagnostics are inserted with
  INSERT OR IGNORE at computed ordinals and may drop one another.
* Of equal definitions of C the first is compared, and every static one; `static` is not part of what
  is equal (`corpus_export.py:624-646`, `native_parser.py:219`). So a definition that is not static, after an
  equal one that is, is not compared, and nothing else stands for it. `ComparedOnce` states the rule as the code has it.
* The catalog asks a routine for `argument_types` (`federation.py:911`), which nothing that exports evidence writes.
* The suffix of a symbol is matched without a dot before it (`queries/code.py:1205`), so `x.f` finds `ax.f`;
  `mcp/server.py:809-812` speaks of a qualified suffix. `SymbolRelations` has such names.
* `search_symbols` limits its candidates before it filters by scope; rows of `find_callers` repeat a caller for each
  depth, which uses up the limit; chains without a target may be longer than `max_depth`; the offset of a comparison
  is not bound to the generations it was counted in, hence the premise of `ComparisonConsistent`.
* `index_repository(replace=False)` at a second commit always ends "inconsistent"; no command calls it so.
* Overlapping single exports write one temporary manifest (`bulk_export.py:204`): the top manifest may be torn or the other's.
  An export of several roots overwrites its files before the manifest. `ManifestRight` says what remains true.
* A script that is killed between writing `runtime.env` and validating leaves a generation that a later `start`
  serves unvalidated (the outcome `cut`); a `docker compose stop` that fails while the previous generation is being restored ends the
  script before it is, contrary to `README.md:127` (the same outcome). Nothing keeps an operator from starting services during the script.

## What is not modelled

Within the modelled components:

* what a registry's backends answer to an activation: `ValidateBackends` succeeds or the command
  aborts; a backend that changes after it was checked is in `GraphServing`;
* the Docker network, ports, memory and images: failures there are `Abort`;
* markers of *other* graphs in one database: a database is one graph's;
* power failure of an export or a freeze: neither fsyncs before its rename, and no
  document promises that it survives;
* an edit that is undone between two reads of a file: equal digests hide it, and
  nothing that compares contents could do better;
* in the import: an interrupt between the start of `sqlite3` and the assignment that makes it
  known to `_stop_child`, the interval of 50 ms the monitor polls with, a second interrupt
  inside `_stop_child`, unexpected lines on stdout (they count as what stderr
  does), temporary files left by a kill; a child that fills the output pipe after
  the monitor thread has failed;
* of the extractor, Python closures that rebind a name of the enclosing function,
  generator expressions that are evaluated later, and local variables that hide a class;
* of the projection, the CSV texts, their limits and escaping; of corpora, the
  merge of the snapshots' search stages and the headers of the composed files;
* of the server, tools that read rows and format them: source excerpts, summaries,
  listings of SQL objects and entities; the signature of cursors.

Not modelled at all, with the reasons in `PROJECT.json`: the parameterised reads of
`queries/sql.py` and `queries/corpus.py`; the native extractor, a set of patterns over the
text of one file, whose results are the input of `CorpusResolution`; evaluation, benchmarks
and the scripts around the program; logging. Of the parsers, what is left are
texts, dialects and locations, of which no property that could be checked here
speaks.
