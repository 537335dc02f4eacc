# serverlist-go: specification and proofs

This directory holds TLA+ modules for serverlist-go, the Go port of the Luanti
server list: game servers announce themselves over HTTP, the program verifies
them, keeps them in a list, and publishes that list as `list.json`. The modules
are translated from the Go code in `src/src/`; `server.py`, the program it
ports, is quoted where the port keeps the behaviour a comment there describes.

    tlc -workers 2 -config ServerList.cfg MCServerList.tla     # model-check
    tlapm ServerListProofs.tla                                 # check proofs

## 1. The system

| component | state it keeps | operations | works with |
|---|---|---|---|
| Server record (`model.go`) | one announced server: address, metadata, counters, verify level | `ServerFromRequest`, `TrackUpdate`, `IsDuplicate`, `AverageClients`, `Score`, the two JSON forms | made by a handler, then owned by one verification, then shared through the list |
| Server list (`list.go`) | the slice, `modified`, two record maxima; `store.json` and `list.json` | `Get`, `CheckDuplicate`, `Update`, `Remove`, `PurgeOld`, `Save`, `Load`, all under `mu` | handlers, verifications, the timer; readers of `list.json` |
| Error tracker (`errors.go`) | map from (ip, port, address) to the last complaint and its expiry | `Put`, `Remove`, `Get`, `Cleanup`, under its own mutex | a verification writes it, the next announcement reads it |
| Announce handler (`handlers.go`) | locals of one request | `announce` and its checks | reads the list once; starts a verification |
| Verification (`finish.go`) | the new object | `finishRequest`: forget, resolve, check duplicates, ping, list | list, error tracker, DNS, the announced server |
| Main and timer (`main.go`) | next cleanup | boot, first save, then every 5 s: purge and sweep once a minute, save | list, error tracker |
| Request validation (`validation.go`, `isServerBanned`) | the JSON object it rewrites | `normalizePort`, `checkRequestSchema`, `checkRequest`, `checkRequestAddress` | called by the handler |
| Client address (`handlers.go`) | - | `remoteIP`, `forwardedIP`, `normalizeIPString` | called by the handler; bans and the list's keys compare its text |
| Ranking (`model.go`) | - | `Score`, the order of `list.json` | called by `Save` |
| Ping (`ping.go`) | one UDP socket per call | `ServerUp`: resolve, hello, read one datagram, give the peer id back | called by the verification; the network, the game server |
| Configuration (`config.go`) | the settings, fixed for a run of the program | `LoadConfig`: defaults, file, environment, paths | the container's variables, every other part |
| GeoIP (`geoip.go`) | one open database | `OpenGeoIP`, `Country` | the file the container prepared; the verification |
| Container entrypoint (`docker-entrypoint.sh`) | the data volume, the config file, the database file | copy the config, download and move the database, check it, hand the directory over, run the program | runs as root before `main`; its files outlive the container |
| Python original (`server.py`) | | | not part of the program; quoted for what the port keeps |

### What is hard about it

* **No lock spans a request.** A handler reads the entry of its server (`old`),
  decides against it and computes the new object from it; a goroutine then
  resolves a name, checks for duplicates and pings for up to seconds before it
  replaces *whatever entry the key has by then*. Other requests of the same
  server, the purge and a delete may run at any point in between.
* **Identity.** `Remove` searches by pointer, `Update` and `Get` by (ip, port).
  Nothing but the discipline of the callers makes (ip, port) a primary key, and
  a reload makes new objects.
* **Two files, one flag.** `Save` writes `store.json` only if the list is
  modified and `list.json` if it is modified or missing; each write may fail,
  the process may die in between, and the flag is cleared only at the end. The
  record maxima that `list.json` shows are raised after `store.json` was written.
* **Lost counts and stale verdicts.** Counters accumulate from a snapshot; an
  update that keeps its address inherits the verdict of an earlier address check.
* **In-place validation.** The schema check visits fields in the random order
  of a Go map and converts values while it goes; later code asserts types
  without looking.

* **Texts for identities.** One IP comes in many spellings, with ports, brackets
  and proxies around it; bans are looked up before the request is normalised.
* **UDP.** An answer may be late, repeated, meant for an earlier call that had
  this port, or not an answer at all; the peer id given back is read from it.
* **A start that is cut off.** The entrypoint decides from files that an earlier
  start, killed at any point, left behind: a config file half copied, a database
  half moved. Script and program take their settings from different sources
  and must still mean the same directory and the same database.

`PROJECT.json` lists each hazard at its line with the properties that watch it.

### What makes each component correct

* List: (ip, port) is a primary key; a clean list equals both files; what is
  published can be recovered; maxima never fall; a change reaches the files.
* Error tracker: a complaint stands for exactly its validity.
* Handler and verification: only verified servers with a checked address get
  onto the list; no update counts twice; averages stay below maxima; a server
  disappears only at its own request or by silence, measured by when it announced
  itself (earlier only if verifications of it finished in the wrong order); every
  request ends, and is answered unless the program dies.
* Validation: no assertion about a request can fail, the map order does not matter,
  an accepted request is in normal form with natural numbers for counters (but for
  numbers that came as strings), an accepted address is plain.
* Client address and bans: the requester is who the first source says that says
  anything; neither the requester nor the address a client named is banned, whatever
  is rewritten after the look-up.
* Ping: only a game server is up, or what sends a datagram that passes for its answer;
  no client that the server knows by another port is dismissed; it ends.
* Start: a required database is the one in use; the program writes where the
  script made room; no whole database is lost; the container comes up.

## 2. The modules

| module | models | composed from |
|---|---|---|
| `ServerRecord` | the record and its two JSON forms, as operators | |
| `ServerList` | `list.go`: memory, the two files, failed writes, crash, reload | extends `ServerRecord` |
| `ServerTable` | what the list promises: a keyed table with a checkpoint and a published view | abstract |
| `ServerListImplements` | the refinement mapping `ServerList` -> `ServerTable` | `INSTANCE ServerTable` |
| `MCServerList` | an instance of the list: three objects, two keys | |
| `ServerListProofs` | proofs about `ServerList` | extends it and `TLAPS` |
| `ServerListImplementsProofs` | the proof of the refinement | extends `ServerListImplements`, `ServerListProofs` |
| `ErrorTracker`, `ErrorBoard` | `errors.go` and what it promises | `INSTANCE ErrorBoard` |
| `ErrorTrackerProofs` | proofs about it, the refinement included | |
| `Service` | the whole program: handlers, verifications, timer, clock, crash | `INSTANCE ServerList`, `INSTANCE ErrorTracker` |
| `MCService` | instances of the program | |
| `ServiceSilence`, `MCServiceSilence` | the program with a history of when its servers announced themselves | extends `Service`; the instance also `MCService` |
| `ServiceProofs` | proofs about the program | extends it, `INSTANCE ServerListImplementsProofs`, `INSTANCE ErrorTrackerProofs` |
| `ServiceHistoryProofs` | proofs about its counters, and about who leaves the list | extends `ServiceSilence`, `ServiceProofs` |
| `ClientAddress` | `remoteIP`, `forwardedIP`, `normalizeIPString`, as operators | |
| `AddressCheck` | `checkRequestAddress`, as operators | |
| `Admission`, `MCAdmission` | what `announce` asks of a request before and after the look at the list | extends `ClientAddress`, `AddressCheck` |
| `AdmissionProofs` | proofs about it | extends it |
| `Config` | `config.go`, as operators | |
| `Startup`, `MCStartup` | container entrypoint, `LoadConfig`, `OpenGeoIP`; kills and restarts | extends `Config` |
| `StartupProofs` | proofs about it | extends it |
| `Ping`, `MCPing` | `ServerUp` with the network and the hosts around it | |
| `PingProofs` | proofs about it | extends it |

**ServerRecord.** A record per Go object. `id` is the pointer: the request that
allocated the object, or `FromDisk`. Of the metadata map only `uptime`,
`clients` and `clients_top` are kept, the ones the program computes with.
`TrackUpdate` and `IsDuplicate` are the methods of these names. The average is
Go's rounded quotient, in integers. `Address` values are opaque and `Fold` gives
the form that `strings.EqualFold` compares.

**ServerList.** One variable per Go field (`list`, `modified`, `maxServers`,
`maxClients`), one per file (`store`, `public`), and two for control: `saver`
is "public" while `Save` holds `mu` between its two files, `phase` tells a dead
process, `main` before it serves, and a serving one. The slice is a set: its
order only decides which of two entries with one key would be met first, and
`\E old` leaves that open. An operation under `mu` is one step; `Save` is two,
because readers of the files and a crash can see it half-done. A failed write
leaves the old file (temporary file and rename). In `main` a failed save is
fatal, in the timer it is retried, hence `Abort` and the two cases of
`SavePublicFails`, which keeps the raised maxima as the Go code does.
`LosePublic` is an administrator deleting `list.json`, the case of the `os.Stat`.

**ErrorTracker.** `table` is the map, `now` the clock. `Get` is an operator,
`Put`, `Remove` and `Cleanup` are actions.

**Service.** Each element of `Request` is one HTTP request. Its `pc`:

    new --Receive--> read --File--> filed --Forget--> resolve --Resolve--> check
      --Check--> ping --Enlist--> over

with `DeleteMissing`, `DeleteListed` and `Refuse` leading from `read` to `over`
and the failures of DNS, duplicate check and ping through `failed`, where `Fail`
posts the complaint. `old` and `server` are the locals of `announce` and
`finishRequest`; a local out of scope is `NoServer`, so that states differ only
in what the program can still see. `Receive` is everything up to the only look
at the list. `Purge`, `Sweep` and the save are `runTimer`; `Boot` and the same
save are `main`. A crash kills handlers, verifications and the tracker; the
clients of unanswered requests never get a reply (`reply` stays "none").

The well-formed announcements are a constant: what `Admission` models is
the road there. Addresses are accepted or not by `ValidAddress`, the
set for which `AddressCheck!CheckRequestAddress` says "ok". `Service` takes
`clients` and `uptime` to be natural numbers; the finding on `IntegersAreWhole`
says which requests break that.

**ServiceSilence.** Adds variables that only remember: when each request was filed
(`filedAt`), the times of a server's listed announcements (`heard`), and whether the last
one listed had been overtaken by another (`late`, `overtaken`); `saved` is what a crash leaves
of this. The entry's own `updateTime`, which the purge compares, is no measure of silence:
the finding `overlap_time` shows it going back. Every step of `Service` is possible with `Record`.

**Admission.** One behaviour is one request. `raw` is what was sent, `config` the
settings it meets, `ip` and `req` the locals of `announce`; each check rewrites
`req`, and `todo` holds the fields the schema check has not visited, so that a
behaviour is one map order. `Receive` finds the requester, decodes the body and gives
the first answers (method, ban, form, action); it leaves `NilMap` for the JSON text
`null`, whose action is missing. With raw logging the body is cut off
before it is parsed, so `JSONData` is then a set: the whole body if what mattered lay in
front of the cut, or a fragment of it. The ban check comes before
the schema check, as in `announce`; a delete ends there. Values are tagged with their
JSON type. Numbers are counted in halves, with `NaN` beside them; a string is known by
what it parses to, whether it has bad characters, its stripped and lower-case
forms, and its rank in the order that lists are sorted in. `Fits` and `Converted` are one iteration of the schema loop, `Incorrect` and
`Cleaned` the verdict and the result of `checkRequest`.

**ClientAddress.** A text is known by what Go's `net` package makes of it: the host
it splits off, whether `ParseIP` accepts it. The operators do the trimming and splitting
in the order of the code. `Denotes`, which only a property uses, says which IP a
text stands for. The spellings are those of `MCAdmission!Spelled`; see section 6 for
those that are left out.

**AddressCheck.** An address is its form (domain, word, kind of IP literal) and
what is wrong with it; the operator asks the questions of the Go function in
its order.

**Config.** Settings and variables have one name; `Startup!Example` is the repository's
`config.example.scfg`. `LoadConfig` is defaults, then file,
then environment, then `NormalizeConfigPaths`; a path is a pair of directory and
name, and `Abs` says what a directory means from the working directory.

**Startup.** `pc` is the place in the script and then in `main`:

    down --Start--> config --Create/CopyConfig, KeepConfig--> download --Download-->
      move --BeginMove, Moving, EndMove--> finalize --> own --> load --> open
      --> list --Serve--> serving

An image without the example file (`HasExample`) copies none. `config`, `database` and
`rootOnly` are files: they outlive `Stop`, which is
a kill, or a command that fails under `set -e`, at any point. `cp` creates before it
fills, and `mv` to another file system is a copy, so each takes several steps;
to the same file system `EndMove` is a rename. A file made by `mktemp` is for root only
until `Own`. `why` remembers how the last start ended. `Load` and `OpenGeoIP` are those of
`main`; what follows `list` is `Service`.

**Ping.** `Call` are calls of `ServerUp`, any number at once; `socket` and `target`
are a call's local port and its remote end. A datagram is what `ServerUp` tells of it
(`Bytes`): whether there are 14 bytes, the protocol, the sender's id, the code and the id;
`IsAnswer` asks for just what `ping.go:35` asks for. The network is the set of all
datagrams sent by a call or a game server so far: one that is in it may be delivered at any time, again, or
never, and since ports are used again it may reach a later call on that port.
`GiveId`, `KeepAlive` and `Forget` are the game servers, which are not part of the
repository: what the code and `server.py` expect of them is all that is modelled. Any
other host sends what `Sends` says, whenever a call listens to it (`Intrude`).

Definitions marked `(fault)` change one definition the way a slip in the code
would, with its name and parameters; each stands before the definition it
varies and shows that some property notices. No specification uses them.

## 3. The runs

| run | instance | size | shows |
|---|---|---|---|
| `server_list` | 3 objects, 2 keys, 2 cutoffs, with fairness | 3 176 states | type, key, clean-means-saved, publish-only-stored, maxima, refinement of `ServerTable`; a change reaches both files |
| `error_tracker` | 2 keys, validity 2, time 0..6 | 679 | types, refinement of `ErrorBoard` |
| `service` | 3 requests: one server that comes, goes on, tries a refused address and leaves, and a rival for its name; time 0..1; with the history of `ServiceSilence` | 1 364 586 | types, addresses are checked, only verified servers, complaints are one's own, no update twice, average below top, only the silent or deleted leave |
| `service_live` | 2 requests of a server that comes, goes on or leaves; time 0..1, with fairness | 16 753 | requests end, answered unless the program dies; silent servers leave |
| `admission` | requests with up to 2 odd fields of 10, every kind of address, requester and body | 589 661 | who the requester is, what bans keep out, assertions hold, order irrelevant, normal form, natural counters, plain address |
| `startup` | 73 sets of variables (one without the example file), 5 config files, 3 sets of databases, 2 stops, with fairness | 78 963 | required database in use, directory prepared, a config half copied is harmless, whole databases stay, it comes up |
| `ping` | 3 calls, 2 ports, a game server, a host that sends misfits, one that mimics an answer, a silent one, with fairness | 581 909 | only games and what passes for one are up, no client of another port is dismissed, every ping ends |
| `overlap_time`, `delete_race`, `claimants`, `admission_strings`, `geoip_start` | | | the findings below |

### Bounds, and why they are enough

* *List.* The objects are two rivals for one key with different clients and
  ages, and one of another key: replacing, removing a replaced object, purging
  one of two, maxima that rise by replacement and by addition all occur. The
  list has no counter, so the state space is finite without a bound.
* *Clock.* `MaxTime` bounds it. The clock only matters by comparisons
  with `now - PurgeTime`, `nextCleanup` and expiries. At the bound a
  cleanup is always due: `nextCleanup` saturates at `MaxTime`, so that the last
  instant stands for all later ones, in which the timer goes on cleaning.
* *Requests.* The interesting races are between two verifications of one key,
  and between one and a delete of an entry that a third one listed:
  `service` has the three. A request is never reused: `Request` bounds
  how many a behaviour has. Requests are interchangeable, and `service`
  uses that symmetry; the liveness runs do not.
* *Names and IPs.* One port; two IPs suffice for each order of two claimants of
  one name. In `service` the resolver answers with the first, so that of the
  rivals one is verified and the other not. `claimants` adds an IP of the other
  family to the answers, so that all three verify levels occur there.
* *Files.* They are read by a boot only, so one store is all the history there is.
* *Validation.* Two odd fields are enough to see one field's error together with
  another's conversion; each rule of the code has at least one odd value.
  Addresses, requesters (peer, `X-Forwarded-For` of up to two parts, `X-Real-IP`, with
  and without a trusted proxy) and bodies are combined in full among themselves,
  with a request that is otherwise good.
* *Starts.* `MaxStops` = 2: the first leaves a file half written, the second meets
  the start that found it. Starts that end by themselves are not counted. The
  variables are those of the `Dockerfile` with one or more set to something
  else; directories are absolute and relative, in the volume and outside.
* *Ping.* `MaxId` = 3 gives two ids after the server's own, two ports let a
  third call use one again while the other is open. The network has no bound: it is a
  set, and there are finitely many datagrams. The misfits each fail one of the tests of
  `ping.go:35`, and the hello comes back as it was; the mimic passes them all.

### Fairness

`ServerList!Fairness` and `Service!Fairness` assume that

* goroutines are scheduled and the timer ticks (weak fairness of their steps);
* DNS ends with one of its outcomes (weak fairness of the disjunction, never of
  success alone);
* a ping ends: it may fail at any time, and a verification whose ping did not fail comes
  to wait for `mu` and gets it (strong fairness of `Enlist` alone, so that no `PingFails`
  is owed to one that waits);
* a goroutine that waits for `mu` gets it if the mutex is free again and again:
  Go's mutex hands over to a starving waiter (strong fairness of the steps that
  take `mu`);
* the disk does not refuse every single write of `list.json` (strong fairness of
  `SavePublic`); failed saves are possible any number of times (a listed `NaN`,
  see `admission_strings`, would break this: it fails every save while listed);
* a start of the container goes on until it ends (weak fairness of `Script \/ Main`),
  and a download that is tried again and again succeeds in the end (strong
  fairness of `Download`); stops are bounded, so the container is finally left alone;
* in `Ping`, the caller's own steps and its deadline happen; neither the network nor
  a host owes anything;
* the supervisor restarts the program (`docker-compose.yml`: `restart`), and
  time goes on.

Clients owe nothing: `Receive` and `LosePublic` have no fairness. Nothing is
assumed of crashes, so `ChangesAreSaved` and `SilentServersLeave` are stated for
behaviours in which the process finally stays up (`<>[](phase = "serving")`);
`EveryRequestEnds` needs no such premise: a crash ends a request as well, so its second
half says that one that was read is answered or the program has died.

## 4. The proofs

Assumed: the constants are as the `ASSUME`s say - `NoServer`, `NoFile` and
`NoError` differ from every record (they stand for Go's nil and a missing file), as does
`None` of the abstract table from every entry;
`Submitted` holds server records, cutoffs are integers, times are naturals, and
announcements are records with natural counters; in `Admission`, `NaN` and a failed
parse are no integers, a request has the fields `Field`, `null` has no action, lists are
finite, strings of different rank are different, only the empty text is empty in lower case
(`LowerAssumption`), and what was stripped of its bad characters has none left to strip;
in `Startup`, names are texts and "unset" is not one, an image has the example file or has
not, the example and an empty file are config files, and the example's "3h" is three hours;
in `Ping`, game servers are hosts, `Sends` is defined for the others, and a port is no host.
TLC evaluates the assumptions in the runs.

**ServerListProofs** proves, for any number of servers and any metadata:
`TypeCorrect`, `PrimaryKey`, `CleanIsSaved`, `PublishedIsStored`,
`ServersPeakIsKept`, `ClientsPeakIsKept`. The argument:

* `UniqueKey` and `CleanMeansSaved` are not inductive. A reload brings back
  what `store` holds, so the key must be unique *in the file*, and the file must
  hold a finite set. While `Save` is between its files the store must already
  be what memory says. `SavedInv` adds these counterparts.
* The maxima are harder: `store.json` is written with the maxima from before
  `list.json` raises them, and still the published maxima never fall. What makes
  it true is that the list saved beside the old maxima has the servers
  that raise them again. `PeakInv` says so: the published maximum is at most
  the stored one or the size (the clients) of the stored list, and while the
  process lives it is at most its own maximum or that of its list. For
  clients this needs that storing and reloading a list does not change its
  sum, which is why the sum is a cardinality of pairs and no recursion.

`SavedInv` and `PeakInv` were model-checked as invariants before they were proved.

**ServerListImplementsProofs** proves `ListImplementsTable`, step by step: under the
mapping an announcement is one `Put`, a purge one removal of old keys, the first half of a
save a checkpoint, the second a publication, a reload the way back to the checkpoint.
The mapping looks entries up by key, so it is only a function of the list because keys
are unique, in memory *and* in the store (`SavedInv`); and `Load` is the restart of the table
only because a dead process holds no entries (`TableInv`). `StoredAgain` is the
lemma about the two JSON forms: reading a store and storing it gives the store back.

**ErrorTrackerProofs** proves the type invariant, `TrackerTypeCorrect`, and
`TrackerImplementsBoard`: every step of the tracker is a step or a stutter of the board,
on which complaints age with a clock of its own. `Cleanup` is always a stutter, which the
refinement states on top (`SweepIsInvisible`), since a board that is cleared would allow a
sweep that drops a live complaint; a tick needs the type invariant, that no expiry lies further ahead than `Validity`.

**ServiceProofs** is about the whole program, for any number of requests.

* `ServiceTypeCorrect` is the type invariant. Its part about requests is what
  `announce` and `finishRequest` rely on without looking: a handler that has read
  the list has a request, a verification has a server object, its own.
* `ProgramDrivesServerList` shows that every step of the program is a step of
  `ServerList`, with `Submitted <- Server`, or leaves the list alone (`ListStep`).
  The lemmas `Same...` only say that an operation reached through two instances is one
  operation. The theorems of the list then hold of the program without
  another proof: `ProgramKeepsListPromises` (keys, files and maxima) and
  `ProgramImplementsTable`, that the whole program implements the abstract table.
* `ProgramDrivesTracker` says the same of the tracker: every step is an operation on it,
  with a key of `ErrorKey`, or leaves it alone, or is the crash that empties it. Hence
  `ProgramImplementsBoard`: a complaint stands for `Validity` in the program too, unless
  its server is verified again or the program crashes.
* `AddressAlwaysChecked` and `ListedAreVerified` are not inductive either. A listed
  object comes from a verification or from `store.json`, and an update takes the
  verdict on its address from the object it read, which may be off the list by
  then. `CheckedInv` therefore speaks of the list, the store, the objects read and
  the objects in verification, whose level is set once they are past `resolve`.
* `ReadByKey`: what a request read has the request's key, so that removing *that object*
  cannot hit somebody else's entry. Hence the lemma `KeyLeaves`: a key leaves the list of a
  serving process by a purge or by a delete of its own. Only `Enlist`, `DeleteListed` and
  `Purge` change that list, and `Enlist` puts an entry of the same key where it takes one away.
* `ComplaintsAreYourOwn`: the tracker outlives the verifications that wrote to it, and
  several may share a key. `ComplaintsKept` says that a verification that is about to
  complain, and every entry, has the ip, port and address of its own request,
  which is what the next announcement asks with.

**ServiceHistoryProofs** proves `UpdatesAreCountedOnce` and `AverageStaysBelowTop`. Neither
property is inductive: a count goes from the list to a handler's `old`, from there, plus
one, to an object in verification, back to the list, and through the store past a
crash. `CountInv` follows it: wherever an object is, its updates are at most the
requests *filed* for its key, its clients in all at most updates times
`clients_top`. Filing adds one request to that set (`OneFiled`) and one update to an object
read before, so it needs that what was read has the request's key (`KeyInv`), and that a
filed request keeps its announcement. The set is a finite subset of `Request` because
filing is one at a time: nothing is assumed of `Request`. `RoundedQuotient` is the step
from the sums to Go's rounded average. TLC checked `CountInv` on all states of `service`.

It also proves `OnlyTheSilentLeave`, of the program with its history. What the purge compares
is the update time of an entry; what is promised is about announcements. `SilenceInv` relates
the two for the list, for `store.json` and for every object in verification: an object's time
is when its request was filed, an entry's time is that of one of its listed announcements, and
it is the latest of them unless the one listed last was overtaken. For that a verification that
is not `late` must be newer than everything listed of its key: the listed ones were filed
before it, or it would have been marked. `KeyLeaves` does the rest.

**AdmissionProofs** proves, for any fields, requests and configuration:

* `AssertionsNeverPanic`. `TypedInv` says for every stage what is known of each field: the
  port after `normalizePort`, the fields already visited during the schema check,
  all of them after it; the conversions and the clean-up keep it.
* `OrderNeverMatters`. `OrderInv` relates `req` to what was sent: a field that is not
  in `todo` fits and is converted, one that is in it is untouched. It needs that the
  schema check leaves the port alone that `normalizePort` made.
* `BansAlwaysHold`. `BanInv`: what a ban asks about a named address and the port is the same
  when the request is filed as when it was looked up, although the schema and the clean-up
  rewrite the request; and where no address was named, what is filled in is the requester's.
  That one was looked up as `ip/port` only, never as a host: see section 6.
* `AcceptedStaysNormal`. `CleanedFits` says that what `checkRequest` leaves still fits the
  schema, but for a fraction that came as a string, `CleanedAgain` that it would accept this
  and leave it as it is. For lists this is `SortKeepsTexts`: no two texts of a
  list have as many smaller ones, so by counting each text has exactly one place, and
  the sorted list has the texts of the list it came from.
* `CountersStayNatural`: what `Service` takes for natural numbers is one, unless a string stood
  for it (the finding `admission_strings`); by `OrderInv` it is what was sent, or it counts
  the names.
* `RequesterIsTheFirst` proves `FirstThatSays`, the part of `RequesterIsKnown` that holds
  whatever texts stand for: `SenderInv` says whom `remoteIP` found, `FirstSource` that this is
  the normal form of the first source that has one, for any number of parts in
  `X-Forwarded-For`.
* `AcceptedAddressIsPlain`: what `CheckRequestAddress` calls "ok" has none of the faults.

**StartupProofs** proves `RequiredIsOpened`, `DirectoryIsPrepared`,
`DatabasesAreKept` and `HalfACopyIsEnough`, for any variables, config files, databases and number of stops.
`StartOK` says, for each place in the start, what the exported variable and the
settings are by then and, once `finalize` is passed, that the required file has a size.
`EnvironmentWins` is the lemma behind it: whatever the file says, the directory and the
database are the ones the script exports. `HalfACopyIsEnough` rests on `SettingsOK`, that the
settings of a program that runs are those of the file as it is now, and on
`ExampleIsDefault`: what the example sets is the default, setting by setting.

**PingProofs** proves `UpMeansGame` and `GoodbyeIsItsOwn`, for any number of calls, ports,
hosts and ids, and for anything that other hosts send. `PingInv` says where each datagram in the
network can come from: a "set peer id" only from a game server, with an id it gave that very
port; a "disco" to a game server gives such an id back. Ids are never given twice, so a late one is
nobody's or still that of the same port. (A later call on that port, to which the server
repeats the id, is the same client for the server: a late goodbye ends its connection too.)

*Only model-checked:* all liveness (fairness and `ENABLED` are out of the
prover's reach), and `RequesterIsKnown`: what IP a text stands for, and that it is left with one
spelling, is data of the run's spellings, which leave out those of section 6.

## 5. Findings

Each is a run that TLC refutes, and quotes what the repository says.

* `overlap_time`: two verifications of one server that finish in the other order
  leave the entry with the older update time, count and clients.
* `delete_race`: a delete that overlaps a finishing update removes nothing and
  answers "Removed from server list.".
* `claimants`: a less trusted claimant listed first stays beside the more trusted.
* `admission_strings`: "1.5" or "NaN" as a string passes for an integer field.
* `geoip_start`: a container stopped while it moves the downloaded database into the
  volume never starts again, although GeoIP is optional.

`OnlyRequiredIsFatal` can be broken in two more ways: a database downloaded to a
place outside the data directory stays readable by root only, and a config file
may name a database that is missing while the script reports GeoIP as disabled.
`Startable`, the premise of `ComesUp`, leaves these out by name.

## 6. What is not modelled

* **Ranking** (`Score` and the order of `list.json`) is floating-point arithmetic and
  nothing depends on it.
* **GeoIP lookup and logging** only decorate, but for the cut that raw logging
  makes in a body, which `Admission` has.
* **The Python original** is not part of the program.
* **Some spellings of addresses.** `normalizeIPString` cuts the prefix `::ffff:` off
  outside and inside the brackets, once each and in lower case. A trusted proxy may
  send others: the prefix more often or in capitals, which can stay, or an address whose
  last groups are hexadecimal, of which nothing usable is left. `RequesterIsKnown` is
  checked for the spellings that a connection or a proxy normally writes.
* **A host ban on an address that is filled in.** A request without an address is filed with its
  requester's IP (`handlers.go:182`, `validation.go:174`), after the bans were looked up: an IP
  that is banned as a host, and not as a client or with the port, is let in. The
  Python original does the same (`server.py:166`). `BansHold` says what is looked up and
  what is not.
* **Stores of older programs.** `store.json` is what this program wrote. An entry of a legacy store
  may have no `uptime` (`list_test.go:71`): the first update for it panics in the handler at
  `handlers.go:152`, which ends that request.
* **Hosts that mimic a game server**, and datagrams with a forged sender: `ServerUp` cannot tell
  the first, which `OnlyGamesAreUp` names, and the network of `Ping` has none of the second.
* **HTTP**: framing and form parsing are outcomes of `Receive` (form error, missing, too
  large), not modelled further.
* **Users and groups** in the entrypoint, beyond "only root can read this".
* **Power failure**: a crash is that of the process. A rename that is lost or an empty
  `store.json` after a power failure is outside.
* **The data race on the metadata map** (the handler logs from it while the verification
  writes to it, `handlers.go:160`, `finish.go:70`) may abort the process,
  which is one of the crashes `Service` allows; which accesses meet is not modelled.
* **Durations**: `parseDuration` is a constant function, its overflow
  (`config.go:172`) is outside. A change of bans or settings between two runs of
  the program over one `store.json` is outside as well.
* **DNS without a deadline**: a lookup is assumed to end with one of its outcomes.

## 7. Plan

Done, in this order: `ServerRecord`, `ServerList` with `ServerTable`,
`ErrorTracker` with `ErrorBoard`, `Service`, `Admission` with `ClientAddress` and
`AddressCheck`, `Startup` with `Config`, `Ping`, and the proofs of the list, the
tracker, the program, the admission, the start and the ping.

Proved so far: every safety invariant, action property and refinement that a passing run
checks, except `RequesterIsKnown`. Next: the parts of the liveness arguments that need no fairness, as invariants and
action properties (what a waiting `Save` or verification can still do).

Extending the model further: the window of the metadata map, settings that change
between two runs of the program, ranking in integers.
