# revpro in TLA+

`revpro` (`src/plugins/revpro`, the largest plugin of cmnds-registry) keeps the
configuration of an nginx reverse proxy: a routing table (`sites.conf`), the
certificates its sites need (ACME), one generated server block per site, and a
web UI to edit all of it.  Its state is a directory of plain files.  Its
processes - command lines, the renewal daemon, the routines daemon, the web
server and the subprocesses it streams - share these files **without any lock
between them**.  That is where this project looks: each file access is a step,
processes interleave freely, and commands are killed between steps.

## 1. The system

### Components

| component | source | state it keeps | operations | properties that make it correct | here |
|---|---|---|---|---|---|
| certificate and configuration pipeline | `main.go`, `certs.go` | `conf/*.conf`, `certs/<name>/{crt,key,issuer.crt}`, nginx's loaded configuration | `renew [--daemon]`, `issue [--force] [names]`, `generate`, `regenerate`, `clean`, `reload`, `restart`, `add`, `edit-site` | nginx ends up with what the table and the disk say; no generated file takes nginx down; a renewal is served | `Deploy` |
| editors of sites.conf | `groups.go`, `manualize.go`, `web.go` 466-528, 860-887, 944-993, `main.go` 366-446 | `sites.conf`, `.bak`, `manconf/` | raw save, group save / add / delete, "Edit config" (move to `manconf/`), `add`, `edit-site` | it parses; no site is lost; a crash leaves a whole text | `SitesConf`, `SiteRegistry` |
| text of sites.conf | `groups.go`, `sites.go` | - | `readConfBlocks`, `writeConfBlocks`, `parseSites`, `renderGroupHeader`, `parseGroupHeader` | reading and writing back changes only what was edited; both parsers agree | `ConfText` |
| local login limit | `webauth.go` 200-230 | failures per address | `checkLocal` | the limit is overrun by a bounded number; a lockout ends | `LoginLimit` |
| sessions, OIDC | `webauth.go`, `web.go` 156-258 | session map, OIDC metadata; the browsers' cookies | create, look up, log out, purge, discover, start, callback, exchange | nobody is logged in as somebody else; a session that was logged out is never accepted; no session is lost to another login | `Sessions` |
| routines scheduler | `routines.go`, `web.go` 1649-1686 | `routines.json` | daemon pass, panel save, run-now | not before its time; again and again; settings stick | `Routines` |
| web server | `web.go` 30-60, 530-660, 1120-1180 | the mutex of one action at a time | `streamCommand` and its callers | two actions overlap only when one was cut off; the mutex is free again and again | `Streams`; what a kill does to files: `Deploy`, `SitesConf` |
| webhooks, audit log | `webhooks.go` | back-off per webhook and process, `webhooks.json`, `audit.log` | `fireWebhook`, `appendAudit`, `compactAuditLog`, save and delete of a hook | the log stays bounded; a rate-limited hook is left alone | `Webhooks` |
| certificate jobs, wildcards | `certs.go` 337-423, 440-556, `wildcardcerts.go`, `manconf.go` | `wildcard-certs.json`, the names of each certificate | `certSites`, `manconfCertSites`, `registerWildcardCert`, the passes | an issuance takes no name away | `CertJobs` |
| ACME account | `certs.go` 139-268 | `account.key`, `account.json` | load or make, register | an issuer holds the key of the account it names | `Account` |
| WEDOS DNS-01 | `dns_wedos.go` | TXT rows at the provider, the committed zone | `Present`, `CleanUp` | the record the CA looks for is there | `Wedos` |
| ports, machines | `ports.go`, `machines.go` | `machines.conf` | `suggestPort`, `resolveMachine`, set, rm | a suggested port is free, inside its category and the next one | `Ports` |
| fail2ban | `fail2ban.go` | `jail.local`, the service's configuration, `revpro-manual` | setup, ban, unban | the service runs with what `jail.local` says | `Jails`, `Guard` |
| AbuseIPDB guard | `abuseipdb.go`, `iplog.go` | `abuseipdb-cache.json` | `guardScan`, `prune-cache` | only who was called bad within a day is banned | `Guard` |
| GeoIP cache | `geoip.go`, `web.go` 1371-1401, 1506-1587, 1808-1835 | `geoip-cache.json` | look up for a page, save, `prune-cache` | a page waits for a bounded number of lookups | `GeoCache` |
| renewal status, site metadata, brand | `renewstatus.go`, `sitemeta.go`, `brand.go` | one JSON file each | read, change, write | nothing decides on them | not modelled |
| statistics, diagnostics, redirect, panel | `iplog.go`, `analyze.go`, `securitycheck.go`, `redirect.go`, `sitelogs.go`, `dashboard.go`, `web/*.html` | - | read-only | - | not modelled |
| other plugins, registry | `cpc`, `dc`, `perf`, `prjkt`, `rcmount`, `rec`, `reg`, `remount`, `smartchck`, `ssh-init`, `system-update`, `registry.json` | - | run one external program each | - | not modelled |

### How they interact

* The CLI and both daemons are processes of the operating system; the web
  server starts further ones for streamed actions (`streamCommand` kills its
  child when the browser goes away or after 15 minutes) and edits `sites.conf`,
  `manconf/`, `routines.json` and the small stores in its own process, one
  goroutine per request.
* They meet only in files and in nginx.  `actionMu` keeps two *streamed*
  commands apart and nothing else.
* Every file is read as a whole and written as a whole by `os.WriteFile`, which
  truncates and then writes from the start: a reader in between sees an empty
  file, a crash in between leaves one, and two writers that both truncate before
  either writes leave the one text followed by what sticks out of the other.
* The components that keep stores of their own - sessions, audit log and
  webhooks, the account, the caches, `machines.conf`, `jail.local`, the DNS zone -
  share no state with one another.  Each is a module by itself.
* nginx reads `conf/` and the certificates on `nginx -s reload` (guarded by
  `nginx -t`; the old configuration stays when the new one is refused) and on
  container start (it does not start when a file is missing; docker tries again).

Hard to test, and so what the properties are about: two processes between
`clean` and `generate`; a table read twice by one command; three certificate
files written in the random order of a Go map; a group's index used after
another edit; a value read before a password verification or a task that takes
minutes and written after it; cookies and answers on their way while a session
ends; a cache copied, used for minutes and written back; calls that had their
effect although they failed; kills in between.  `PROJECT.json` lists these
hazards at their lines.

## 2. Modules

| module | what it is |
|---|---|
| `Deploy` | the pipeline: processes running commands over table, `conf/`, certificate files and nginx |
| `SitesConf` | who writes `sites.conf` when: the editors, each file access a step |
| `SiteRegistry` | what the editors promise: a table and a set of hand-written sites, changed as one operation says |
| `ConfText` | what an edit makes of the text of `sites.conf` |
| `LoginLimit` | `checkLocal` |
| `Routines` | the routines daemon and the panel over `routines.json` |
| `Sessions` | sessions, OIDC flow, browsers with their cookies and tabs |
| `Streams` | streamed commands: mutex, child, its own command, the kill |
| `Webhooks` | `audit.log` with its compaction, deliveries and back-off, edits of `webhooks.json` |
| `CertJobs` | which names a certificate is issued for |
| `Account` | account key and registration |
| `Wedos` | the TXT rows of DNS-01 challenges |
| `Ports` | the next free port, machine slugs |
| `Jails` | `fail2ban setup` and the host of the error page |
| `Guard` | scans of visitors, bans, the AbuseIPDB cache |
| `GeoCache` | lookups of addresses for a page, their cache |
| `MC*` | instances for TLC: sets, initial texts, which process runs what; `MCLoginLimit`, `MCPanel` and `MCCertificates` put several components into one run |
| `*_proofs` | theorems and their proofs |

Definitions named "Variant of the next definition" are faulty forms of the
definition below them; they are used by nothing and serve to show that the
properties notice the fault.

### Deploy

`pc[p]` is where process `p` is in its command (`cmd[p]`).

* `BeginPass` is `certSites()` at the start of `issueCmd` or `runOnce`;
  `JobSkip` / `JobObtain` / `JobFail` one turn of the loop; `TruncateFile` and
  `FillFile` one `os.WriteFile` of `writeCert`'s loop over a map - hence any
  order; `PassDone` the branch on `renewed > 0`.
* `ListDir`, `PurgeOne`, `PurgeAbort`, `PurgeDone` are `purgeContents` on
  `conf/` (`os.ReadDir`, then `os.Remove` in that order, giving up at the first
  error) inside `clean`, which only warns.
* `Check` and `Probe` are `certFilesMissing`: the read of the table, and one look
  at a `.crt`; `Parse` is the second read (`mustSites`), `GenerateOne` the branch
  on `missing` and the truncation of one file of `conf/` by `generateOne`,
  `FillConf` its write.  What is written to a file that a `clean` removed
  meanwhile is nowhere (`open`).
* `Reload`, `Restart`, `DockerRetry` are what nginx does with the files.
  `Loadable` is `nginx -t`: every named file exists, is not empty, and
  certificate and key belong together.
* `BeginAdd`, `AppendLine`, `GenerateAdded`, and `BeginEdit` before them, are
  `add` and `edit-site`.

A certificate file is the number of the issuance it comes from, 0 when absent,
-1 when truncated.  Of the expiry only "inside the renewal window" is kept.

An empty file of `conf/` (`blank`) is one without a server block, so that a
reload which comes between truncation and fill loads no such site: nginx serves
it again with the next reload, at the latest that of the writer.  `Loadable` is
an assumption about nginx, and no property is about it alone.

Taken as one step: `nginx -t` followed by `nginx -s reload` (the reload reads
the files again and refuses them just as the test does; reading at one of the
two instants is what the step does); the removal of `edit-site`'s old line, whose
steps are in `SitesConf`.  Two writers of one file of `conf/` write the same
site's block.  A pass whose `newIssuer` fails changes nothing and is not begun.
`writeCert` skips a part that is empty; the CA sends all three.

### SitesConf and ConfText

Two abstractions of one file.  In `SitesConf` a text is a sequence of blocks
(domain, has a `[machine]`, site lines) and what counts is the order of reads,
checks and writes: page load and submit, the two reads of `removeSiteLine`, the
validation in a temporary file, backup, truncation, filling, and for a move the
`stat`, the write and the undo of the manual file.  (The deletion of
`conf/<fqdn>.conf` at the end of a move is left out: nothing here reads `conf/`.)

* `Fill` writes from the start of the file: over a file another editor has filled
  since it was truncated it leaves its own text and, if that was the shorter one,
  the end of the other (`Overlaid`).  That end may begin anywhere, so its first
  line is read as any line or as one that `parseSites` refuses (`LeftOver`), and
  lengths are left out: any end may stick out.
* A write fails before it begins or half-way (`WriteFails`, `Cut`).
  `BackupFails` is the error that `writeAndValidateBlocks` ignores - the
  truncation follows all the same - and on which the raw editor gives up.
* `SubmitConf` submits any text of `Submissions` that parses, whatever the page
  showed; `SubmitGroup` any index on the page and any header, so that a save may
  give a group another domain (`rename`, counted as an operation of its own).
* `spoilt` remembers that a write was laid over another one or failed, `bare`
  that the file was truncated without a backup of it.

The write of `.bak` and of a manual file is one step each, which fails or not.
(A `.bak` is torn for a moment while `sites.conf` is whole; two editors may lay
one over another's, and nothing is claimed of backups made by several.)
In `ConfText` an edit is one step, and a text is a sequence of lines, with the
comments, blank lines and headers `SitesConf` leaves out: a line is a member of
`Line`, which is what `readConfBlocks` and `parseSites` tell apart.  `Words` are
the names, labels, certificates and parts of domains there may be; `InOrder`
gives the line numbers of the headers, or of the sites, as the scanning loops
find them.

`SitesConf` implements `SiteRegistry` under a mapping that has the table change
where `sites.conf` is truncated (until it is filled the new text stands for it)
and takes a site with a line *and* a manual file to be in the table.  At rest the
registry begins a save, which is one of the operations: `Add`, `Remove` and
`ToManual` one site, `Rename` the sites of one group, `Save` the table that was
submitted, or the table as it is.  While it saves (`Phase`) it may lose sites
(`Lose`), as an interrupted or failed write does, and after that a move takes its
manual file back (`Withdraw`).  So the registry forbids that a site appears that
nobody asked for, that one leaves for `manconf/` without its file, that an
operation takes along what it is not about, and that a manual file disappears
otherwise.

### LoginLimit, Routines

`Admit` and `Refuse` are `checkLocal` up to the release of the mutex, `Succeed`
and `Fail` what follows the password verification.  (An address is locked out
for the window; `lockoutTime` stands in the message only.)  In `Routines`, `Wake` is
the read of `routines.json`, `RunTask` one turn of the loop, `PassDone`,
`DaemonTruncate`, `DaemonFill` the save; `Submit`, `PanelTruncate`, `PanelFill`
are the panel's handler, of which any number run at once, each in its goroutine.
`Filled` lays one write over another (the file then cannot be parsed, and reads
as one without entries), `DaemonWriteFails` is the save that is only warned
about, `PanelWriteFails` the one the browser is told of.  Time is counted in
ticks, ages up to a bound beyond which nothing changes any more.

### Sessions

The server's memory (`sessions`, `discovery`), what a browser keeps (`jar[b]`:
the session cookie and the cookie with the state of an OIDC flow) and what each
tab has under way (`tab[t]`).  A request is sent with the cookies of that moment
(`Send`, `OpenCallback`), served later (`Serve...`, `Exchange`), and its answer,
which may set cookies, arrives later still (`Arrive`) or never (`Lose`); page
loads and password logins read nothing before they are served and are one step.
`CreateSession` is `createSession` with its sweep, `Looked` the lookup of every
request, `ServePost` `requireSession` with the token a page holds.
`BeginDiscovery`, `EndDiscovery` and `Discovered` are `sync.Once` around the
provider's metadata.  A token is a number used once; sessions all live for
`sessionTTL` and so expire in the order they were made (`horizon`).

### Streams, Webhooks

`Streams` keeps of a streamed action the child, the command it runs itself, and
who holds the pipe: `Admit` and `Refuse` are the `TryLock` of `streamCommand`,
`Done` the end of the request's context (which kills the child and the child
alone), `Returned` says when `cmd.Run` returns, `Finish` is the deferred unlock.
`kind` tells a command that holds the pipe (`run` of `main.go`) from one whose
output is captured (`runRoutineNow`).

In `Webhooks` a thread fires an event: `Fire` appends, `Stat` looks at the size,
`ReadTail`, `TruncateLog`, `FillLog` are the compaction, `LoadHooks`, `Deliver`,
`Answered`, `RateLimited`, `FireDone` the loop over the hooks.  Threads of one
process share its back-off table, which dies with it (`KillProc`).
`BeginEdit`, `TruncateHooks`, `FillHooks` are the panel's save and delete.

### CertJobs, Account, Wedos

Three sides of an issuance, which `Deploy` has as a whole.  `CertJobs` has the
names: `CertSites` is `certSites` over the sites of `sites.conf`, the moved ones
and the registered wildcards, `Look` the loop over the jobs with the test for
freshness, `Obtained` the new certificate, `Enlist` and `FillWild` the registry.
A save of `sites.conf` truncates and fills it (`Save`, `FillConf`), and a pass that
begins in between finds a table without sites (`Read`); `SwitchSite` gives a site
another certificate of those it may have (`Uses`).  Saves come one after another
here: what two at once do to the text is `SitesConf`'s.
`Account` has the two files every issuer begins with: `LoadKey`, `TruncateKey`,
`FillKey` are `loadOrCreateAccountKey`, `LoadSaved`, `Register`, `FillReg` the
registration.  `Wedos` has one zone: `Present` with `Commit`, `CleanUp` with
`CommitDeleted`, and a failure of each call, with or without its effect; that
the library presents, validates and cleans up in that order is not in `src/` and
is taken from how it calls the provider.

### Ports, Jails, Guard, GeoCache

`BeginAsk`, `ResolveAsk` and `TryPort` are `suggestPort`: the targets in use,
the machine (read a second time), the ports in `scanOrder`, one probe each,
whose outcome may be either.  `Route`, `SetSlug`, `FillSlugs` are what others
change meanwhile.

`Jails` is `f2bSetup` from the installation to the restart, beside the panel's
save of the one setting it renders.  `Guard` is `guardScan` over its copy of the
cache: `ScanSkip`, `ScanCached`, `ScanAsk`, `ScanError` one turn of the loop,
`ScanDone` and `FillAbuse` the save; `PruneAbuse` is `prune-cache`, `BanByHand`
the panel and the command line.  Ages are classes: under a day, under 30 days,
beyond.  `GeoCache` is the same shape with a counter: `ShowCached` and `Lookup`
are `boundedGeoLookup`.

## 3. What the runs check

All instances bound the number of issuances, blocks, lines, kills or ticks by a
constant that the guards name.  `CHECK_DEADLOCK FALSE` everywhere: when no
command is asked for, the system may rest, and the bounds are ends too.

### Passing runs

| run | instance | shows |
|---|---|---|
| `Deploy_rebuild` | 2 sites, 2 certificates; daemon beside `regenerate`/`reload`/`restart`; 2 issuances; fairness, no faults | `RestConfCurrent`: purges that trip over one another leave no stale file and writers no empty one; `RestServesDisk`: the last reload saw the finished `conf/`; `RenewalServed`: a certificate in the window is in time renewed *and* served |
| `Deploy_faults` | 2 sites on one certificate, also registered as a wildcard; `issue` beside `generate`/`clean`/`add`/`edit-site`; kills, failed writes, a broken table | `GeneratedHaveCert`: what was generated after a look names a certificate that exists; `TypeOK` |
| `SitesConf_two` | two moves, or a move beside a group save, of different sites of one group; 5 operations (`MaxOps`) | until two writes overlap, `ParsesAlways`: the file parses, torn or whole; `NoSiteLost`: at rest every site is in the table or in `manconf/` |
| `SitesConf_one` | every operation, one editor at a time, 3 operations, 3 texts to submit, kills, crashes and failing writes, two groups, a domain that extends another | `ImplementsRegistry`, `Recoverable`, `TypeOK` |
| `ConfText_edits` | every text of up to 3 lines, of 7 kinds of lines, and those of 5 that begin with a header and go on with blank lines, comments, sites and a header | `Stable`: what was written is read and written back as it is; `OthersKept`: an edit keeps the label, the lines, the sites and the header of every other group |
| `LoginLimit` | signing in.  `LoginLimit`: 3 attempts at once from 2 addresses, limit 2, a window of 3 ticks; fairness.  `Sessions`: 2 browsers with a tab each, 2 sessions, 1 OIDC flow, 1 restart | `OverrunBounded`, `LockoutEnds`, `TypeOK`; `OwnIdentity`, `EndedStaysEnded`, `LiveSessionKept` |
| `Routines` | one task, an interval of 2 ticks, passes of any length, 2 handlers of the panel at once, 2 kills or failed writes; fairness | `NotEarly`, `RunsAgain`, `TypeOK` |
| `Panel`, `Certificates` | nine components (below) | a property or two of each |

`Panel`, `Certificates` and `LoginLimit` are sums: the first state picks one component, and the
others stay as they began.  As components in a sum share no state, exploring
each alone leaves out no behaviour of any of them, and a state of the sum is a
state of one of them.

| in `Panel` or `Certificates` | instance | property |
|---|---|---|
| `Streams` | 2 requests, every kind of child | `OverlapsCutOff`: two actions are alive at once only when one was cut off; `PanelFreed`: the mutex is free again and again |
| `Webhooks` | a panel with two threads and the guard with one; limit and tail of one line, 7 events, 1 edit, 1 kill | `AuditBounded`: the log holds its limit, a line for each writer, and one for each writer killed; `RefusedOncePerThread`: a hook that answers 429 is called again only by calls already under way |
| `Guard` | 2 jobs at once, a public and a private address, ages passing twice | `BansAreFounded`: a scan bans no one AbuseIPDB has not called bad within a day, and no private address |
| `GeoCache` | 2 pages at once, 3 in all, 3 addresses, limit 1 | `LookupsBounded`: lookups that fail count as well |
| `Jails` | 2 setups at once, 3 in all, 2 saves | `JailsApplied`: the service runs with what `jail.local` says |
| `Ports` | 1 asker, 1 setter, one slug, a category of 3 ports, 2 targets, 2 probes | `NextFree`: in the category, not in use under any name of the machine, and the next after the highest |
| `Account` | 2 issuers, 4 processes | `AccountAccepted`: who is connected holds the key of the account it names |
| `CertJobs` | 2 passes, 2 sites and 2 certificates, one site with either, 3 saves | `NamesKept`: an issuance takes no site's name from its certificate that had it in the table when the pass began |
| `Wedos` | 2 orders of 2 names at one record | `RecordsUp`: while the CA looks, what was presented is published |

Why the bounds are enough: what goes wrong here goes wrong between two
processes (none of the code looks at more than one other's work), so two are
run, of every kind that can meet.  Two sites are enough for a purge that aborts
in the middle, for a site that is generated while another is not, and for a
certificate two sites share.  Two issuances are an old and a new certificate.
In `SitesConf_one` one name in two domains makes two sites, blocks grow to
two lines, and the texts to submit are one with one site, one with the other site and the
groups the other way round, and one that does not parse (none is without sites or
with both: an operation that lost all, or added two for one, would then be one
that was asked for); in `SitesConf_two` two sites share a block, so that a wrong line or
a wrong index takes the other one.  In `ConfText` five lines hold a header, a
body, a comment run and the header after it; that nothing changes with longer
texts is proved.  Three attempts are two that
overlap with the one that fills the limit.  One task is enough for what the
daemon and the panel do to one entry; that it holds for any number of tasks is
proved for `NotEarly` and not checked for `RunsAgain`.

In `Sessions` two browsers are a person and another whose link, cookie or token
comes in between, and two sessions are one that ends and its successor; with two
OIDC flows and no restart the properties hold as well, in a run too long to be
kept (1.35 million states).  In `Panel` and `Certificates` two are run of everything that meets its
like, and a third only where a third is needed: a page opened after two others
have written their caches, a setup after two that overlapped.  An order of two
names at one record is what a wildcard and its domain are.

`renew` runs in `Deploy_rebuild` without faults, `issue` in `Deploy_faults` with
them, `issue --force` in no run: it differs from the others by two guards
(`cmd[p] = "force"`).  Type correctness and `GeneratedHaveCert` are proved with
all of them among the commands, and with faults.

Where a property has a condition, it is one the code needs.  `GeneratedHaveCert`
excepts files written by `add` (which does not look) and by a `generate` for a
site added between its two reads of the table; `Recoverable` excepts a truncation
without a backup (`bare`), which a failed backup and `add` make; `ParsesAlways` and
`NoSiteLost` stop where a write is laid over another one or fails (`spoilt`);
`NotEarly` stops at a save that overlaps a pass or another save, at a kill and at a
failed write, each of which may lose a `lastRun`.  `NoSiteLost` is about moves and
group saves: an `addGroup` does lose sites (below), and a raw save of a page
that was loaded from a torn file would; groups keep their places in its
instance, so that it says nothing of an index that has shifted.  `OverlapsCutOff` excepts a
browser that left, and a time limit that ended an action whose command's output
is captured: `cmd.Run` returns then while the command lives.  `AccountAccepted`
stops when two issuers make a key at the same time (`crossed`), `JailsApplied`
when a setup is cut short between the file and the restart (`cutShort`),
`NextFree` when a slug changes between the two readings; `NamesKept` excepts
issuances for a wildcard, sites that got the certificate after the list was made,
and a manual config on the certificate if the list was made of a truncated
`sites.conf`, which has no site to make `certSites` skip it.
`AuditBounded` says what the size comes to, not that the newest lines survive.

### Runs that find a violation

Each checks one sentence of the repository and finds it not to hold.

| run | what the repository says | what the code does |
|---|---|---|
| `SitesConf_torn_group` | every other group's text is preserved (`groups.go` 3-4) | `addGroup` reads the truncated file and writes it back with its own group alone |
| `CertJobs_moved` | a site moved to `manconf/` "doesn't silently stop renewing" (`certs.go` 347-349) | its job is dropped when `sites.conf` has another site on the certificate (`certs.go` 366-368), and the next issuance is for that one alone |
| `ConfText_header` | optional parts of a header may be left out (`groups.go` 122, `sites.go` 203-207) | without `<flags>` the certificate is read as a part of the domain |

### Other disagreements met while modelling

The steps that lead to these are in the modules; no run is kept for them.

* `add` generates the new site without looking for its certificate
  (`main.go` 410-421), so that the next start of the container fails for every
  site, which `generate` takes care to prevent (`main.go` 327-329).
* A pass killed between two files of a certificate leaves a `.crt` without its
  key; `certFilesMissing` probes the `.crt` alone (`main.go` 355-364).
* `edit-site` leaves `conf/<old fqdn>.conf`, and the reload serves the old site
  on, although it "moves" the site (`main.go` 424, 437).
* `add` takes a longer domain that begins with the given one for its group and
  adds the line nowhere (`main.go` 388), and with two groups of the domain adds
  it to both, where the panel says "one line" (`index.html` 513).
* `removeSiteLine` uses an index from one read on the blocks of another; a group
  deleted in between makes it take another site's line (`manualize.go` 16-19, 48).
  A group form names its group by the index on a page loaded earlier: after
  another edit it renames or flags a different group (`groups.go` 177).
* Two writes of `sites.conf` that overlap leave the end of the longer text behind
  the shorter one; the file may then not parse, which `mustSites` answers by
  ending every command (`groups.go` 246).
* A backup that fails is ignored (`groups.go` 243-244), and the truncation follows;
  a crash, or a write that fails on the same full disk, then leaves no whole text.
  A move whose write fails half-way takes its manual file back although the line
  is gone, so that the site is in neither place (`manualize.go` 92-95).
* A pass that reads `sites.conf` while it is truncated finds no sites, skips no
  manual config, and issues a shared certificate for the manual config alone
  (`groups.go` 246, `certs.go` 366-368).
* `issue` renews and does not reload (`certs.go` 516), and the daemon's next pass
  finds the certificate fresh: nginx serves the old one until somebody reloads.
  That is as documented (`main.go` 348 has one run `issue`, then `regenerate`).
* A `reload` while a file of `conf/` is truncated and not yet filled takes that site
  out of service until the next reload (`main.go` 207).
* `convertSiteToManual` "refuses to clobber an existing manual config"
  (`manualize.go` 72) by a test and a write that are two steps.
* Of several comment lines above a header only the last survives the next save
  (`groups.go` 65); of a label above a blank line the two parsers think
  differently (`groups.go` 26 and 55, `sites.go` 110).  A comment that ends the
  file, with no newline behind it, is taken for the label of a header that does
  not come, and is lost; so is one that stands behind a header on its line
  (`groups.go` 79), at the next edit of any group.
* A certificate behind default flags that are written out (`==d <+w> --cert=c`)
  is read, and lost when *another* group is edited, since every header is rendered
  again without its flags (`groups.go` 130, `ConfText_header`).  `OthersKept`
  excepts it, and nothing else.
* A lockout lasts for the window, 15 minutes; the message says 5 (`webauth.go` 209).
* Settings saved while the daemon's tasks run are overwritten by what it read
  before (`routines.go` 156, `web.go` 1649).  Two saves of the panel at once, each
  in its goroutine and without a lock, may put an entry back without its `lastRun`,
  and a pass whose save fails has its runs on record nowhere (`routines.go` 156 only
  warns): the tasks are run again early.
* A kill between truncating and filling leaves `routines.json` empty, which
  reads as no schedule (`routines.go` 84).
* `regenerate` cleans `conf/` before it parses `sites.conf`; when that fails the
  next start serves nothing (`main.go` 59).
* The raw editor writes the page's text over whatever was saved since it was
  loaded (`web.go` 519); `edit-site` killed midway has removed the line and not
  added the new one (`main.go` 437); `add` makes no backup; a backup may be one
  of a torn file.
* "One subprocess action at a time" (`web.go` 46): when the browser leaves, the
  child is killed and the mutex released, while the command the child had
  started, `docker` or `apt-get`, runs on.
* `compactAuditLog` keeps the "most recent maxAuditEntries lines"
  (`webhooks.go` 159-160), but `tailLines` reads back at most 512 KB of a file
  that is compacted beyond 2.5 MB; lines appended during a compaction are lost.
* A wildcard and a site on one certificate name: `certSites` has two jobs of one
  name (`certs.go` 378); the renewal for the site replaces the wildcard, and the
  wildcard's own job then finds the certificate fresh, for freshness does not
  look at names.  The registry tells entries apart by the certificate name alone
  (`wildcardcerts.go`, `registerWildcardCert`).
* An issuer killed while it writes `account.key` leaves an empty file, and every
  later issue and renew ends with "malformed account key" (`certs.go` 229-231);
  two first issuers that both find no key end with a registration for one key and
  a file with the other; `REVPRO_ACME_STAGING` switches the CA and not the
  directory the account is kept in.
* A discovery that fails is remembered by `sync.Once` until the web server is
  restarted (`webauth.go` 261); neither it nor the calls on WEDOS have a timeout
  (`webauth.go` 262, `dns_wedos.go` 204).
* `rowIDs`, which "remembers which row was added" (`dns_wedos.go` 40-42), is never
  used: `CleanUp` finds the row by name and value.
* `guardScan` is "never called from a timer" (`abuseipdb.go` 245-247); the
  routine `f2b-guard` does so (`routines.go` 33).
* A "cache-only lookup" is to be had with `maxAge <= 0` (`abuseipdb.go` 113-114);
  with it the lookup is always a live one.
* `approachingBans` lists what is "not yet banned" (`fail2ban.go` 509): it looks
  at the log alone, and lists a banned address whose oldest hits have left the window.
* A setup cut short between writing `jail.local` and the restart leaves the
  service on its old configuration until it is restarted (`fail2ban.go` 355).

### Fairness

* `Deploy`: a started command runs on (`WF` of `Work(p)`: they are operating
  system processes); the daemon begins a pass again and again (it sleeps 24 h
  whatever the last pass did); the CA issues when asked again and again (`SF` of
  `JobObtain` - without it no renewal can be promised); docker restarts a
  container that is down (`restart: unless-stopped`).  The instances under
  fairness have a daemon that runs `renew` and no faults.  No fairness is assumed of
  people's commands, of time, or of faults.
* `LoginLimit`: time passes; nothing is assumed of clients or verifications.
* `Routines`: time passes and the daemon runs on (`Restart=always`).  The tasks
  are assumed to end: the code gives them no time limit.  Kills and failed
  writes are finitely many.
* `Streams` (`StreamFair`): time passes, so that `actionTimeout` comes; a command
  that a child runs ends some day; the handler's goroutine runs on.  Nothing is
  assumed of the children, which may hang, nor of the browsers, which may stay.
  A command that holds the pipe and never ended would keep the mutex for ever.
* `Sessions` and the other components are checked for safety only.

## 4. What is proved

The proof modules hold theorems about the specifications for **every** value of
the constants that satisfies their named assumptions (`ASSUME ...Assumption`,
which TLC evaluates on its instances): sites are numbers (they order a directory
listing), a map of commands or operations gives each process known ones, bounds
are natural numbers, names and domains exist and first contents are texts
(`SitesConf`), texts are made of lines and what the form is filled with is among
the words (`ConfText`), the tail kept of the audit log is not longer than its limit
(`Webhooks`), ports lie between 1 and `LastPort`, which `parseRangeToken`
enforces (`Ports`).  All of them follow the same line: an invariant that is
inductive, one lemma or step per action, temporal reasoning only in the last
step.  Those of `Deploy` were checked by TLC on the instances of section 3 first.

Theorems with a hypothesis of their own:

| theorem | hypothesis | why it is the code's |
|---|---|---|
| `ConfCurrent` | `Rebuilding`: no kills and no broken table; the commands are `renew`, `regenerate`, `generate`, `reload`, `restart` | an `issue` makes a certificate without generating the site it is for, a `clean` empties it and leaves it so, `add` and `edit-site` change the table themselves, a command killed midway leaves `conf/` as it is: at rest after one of these, the property is false |
| `ServesDisk` | `Rebuilding`, `OneRenewer`: besides, one process renews, and there is no `generate` | `generate` does not reload; two renewers that write one certificate at once may leave a `.crt` and a `.key` of different issuances, which nginx refuses |
| `AlwaysParses` | `WebOnly`, `ContentsParse` | `add` and `edit-site` append to whatever they find |
| `LoneEditorImplements`, `LoneEditorRecoverable` | one process, doing anything, submitting any text, killed anywhere, with any write failing | two editors do lose sites (`SitesConf_torn_group`) |
| `MovesLoseNoSite` | `MovesAndSaves`: any number of editors that move sites, no two of them the same site, or save groups; no faults | an `addGroup` loses sites (the same run), a host that goes down in a save loses the table, and of two moves of one site the one that fails may take the manual file of the other away |
| `AuditLogBounded`, `RefusalsBounded` | finitely many threads; for the first, a process at least | a cardinality is counted |

* `Deploy_proofs!DeployTypeOK`: `Spec => []TypeOK`.
* `Deploy_proofs!GeneratedSafe`: `Spec => []GeneratedHaveCert`, for every mix of
  commands and with faults.  The property is not inductive, for `generate`
  writes files on the strength of an earlier look.  `GenInv` adds what a
  generate knows between its probe and its last file - every certificate it
  looked for and did not find missing exists - and that files still to be
  written hold an issuance.  `ExistsStable` (a `.crt` once there stays,
  truncated or not, through every step of every process) carries it over the
  others' steps; `QuietKeeps` disposes of the many actions that neither generate
  with a look nor learn anything.  The histories `seen` and `blind` say which
  files were written after a look.
* `Deploy_proofs!ConfCurrent`: `Spec => []RestConfCurrent`, with any number of
  processes renewing and rebuilding at once.  `RestConfCurrent` speaks of the end,
  so the invariant says at each moment who will yet see to it.  `StaleInv`: every
  purge under way still has all stale files on its list (a purge removes in the
  order of the directory, and what is missing from its list was removed by
  itself); one that is to trip over a file another removed leaves the rest to that
  other, which is ahead of it; so no stale file outlives the purges.  `NextEntryLeast`
  is what it needs of the order.  `WillInv`: a site with a certificate whose file is
  missing is on the list of a process that will yet generate it (`Will`);
  `WriteInv`: a `.crt` that is empty is being written by somebody who goes on to
  regenerate.  A file of `conf/` that is empty is `open` at a process about to
  fill it, so that at rest none is.
* `Deploy_proofs!ServesDisk`: `Spec => []RestServesDisk`.  `ServeInv`: if a running
  nginx does not hold what is on disk, some process has a reload before it
  (`Pending`).  For that reload to succeed the certificates must load: `PartInv` has
  each complete and of one issuance but for the files its one writer still has
  to write; `GeneratedSafe` gives those that `conf/` names.
* `SitesConf_proofs!TypeCorrect`: `Spec => []TypeOK`.  `TypeInv` adds
  what an editor's request holds where it is used (`Indexed`); the lemmas about
  the texts (`LineRemoved`, `LineAdded`, `GroupsSaved`, `SiteTaken`) are over
  sequences of any length.
* `SitesConf_proofs!AlwaysParses`: `Spec => []ParsesAlways` for the web server's
  editors.  `ParseInv`: until `spoilt`, the file parses and so does what each
  editor is about to write; `Fill` writes over a truncated file or sets `spoilt`.
* `SitesConf_proofs!LoneEditorImplements`: `Spec => ImplementsRegistry` with one
  process, the refinement of `SiteRegistry` under the mapping of section 2:
  `RegistryNext` takes each step of the editor to a step of the registry or to a
  stutter.  `LoneInv` says that what a lone editor read still is in the file, and
  that what it is about to write is what one operation may make of the table
  (`Change`); a site that is about to be moved is in the file until the
  truncation, so that its manual file is taken back only after a failed write.
  `OverlaidAlone` has a lone editor's write be the text itself, `TextCut` a failed
  one a part of its sites.
* `SitesConf_proofs!LoneEditorRecoverable`: from `KeptInv`, the last whole text is
  in the file or in `sites.conf.bak`, and in the latter before the file is torn,
  unless the file was truncated without a backup.
* `SitesConf_proofs!MovesLoseNoSite`: `Spec => []NoSiteLost`, which
  speaks of the time until two writes overlap.  `SavedInv` follows
  every copy of the text there is, the file, the pages and what each editor is
  about to write.  All have the same groups or are empty (`Alike`), so that an
  index read from one means the same group in another; and each site is either
  in `manconf/` with nobody about to undo that, or in the file and in every text
  that is about to replace it (`SiteKept`).  A stale write can so bring a line back
  and never lose one.
* `ConfText_proofs!WrittenTextStable`: `Spec => []Stable`, for any texts of any
  length.  The invariant is short (`TextInv`: the text is made of lines and is
  stable); the work is in showing that reading undoes writing.  `Stands` says
  where in a written text the preamble, each block's blank line, label, header and
  body, and the last blank line stand (`WriteIs`); from it follow the lines on which
  headers are found (`WrittenHeads`), where `scanUpToHeader` stops before each
  (`ScanTo`, `ScanEnd`), and so that the blocks read are the blocks written
  (`WrittenBlocks`, `WrittenPreamble`), each but for a blank line and a header that
  renders as before (`RereadRenders`).
* `ConfText_proofs!EditsKeepOthers`: `Spec => OthersKept`.  `NextEdits` has each
  step write the blocks it read with one replaced, added or removed; `ReadsText`
  has `parseSites` find in *every* text, written by revpro or by hand, the groups
  and sites that `readConfBlocks` finds; `RereadKeeps` joins the two.
  Where these need induction, over the length of a text or the number of its
  groups, they take the least number for which the claim would fail (`Least`):
  so for the increasing list of the elements of a set (`Listed`), for the
  recursive function in the library's `FlattenSeq` (`JoinExists`, `FlattenLayout`)
  and for the last line that is not blank (`TrimIs`).
* `SignIn_proofs!LoginTypeOK`, `OverrunSafe`: failures counted plus attempts
  under way stay within `MaxFails + |Attempts| - 1`.  It is inductive with
  `TypeOK`; the work is in counting (`RoomForOne`, `OneMore`, `OneLess`).
* `Routines_proofs!RoutinesTypeOK`, `KeepsIntervals`: `Spec => NotEarly`, from
  `OnRecord`: until a save overlaps a pass or another save, a write fails or
  something is killed, the times written down are those of the passes - in the
  daemon's copy while it works, in what the one handler at work is about to write
  while it saves, in the file while neither has torn it.

* `SignIn_proofs!IdentityOwn`: `SessSpec => []OwnIdentity`.  `OwnIdentity` looks
  at cookies only; the invariant (`IdInv`) has to follow an identity through
  every place it can be in: there is an assignment `by` of flows to the browsers
  they were begun in, such that a state token is only in cookies and answers of
  that browser, a callback or exchange under way is one whose state matched, a
  code that is good is that of the person there, and a session is only in the
  cookies and answers of its person.  `by` exists and is not a variable: the code
  keeps no such record.  The state's being compared is what the step of
  `ServeCallback` needs.
* `SignIn_proofs!LogoutFinal`, `LiveSessionsStay`: from `Retired`, tokens are
  given once and one that was logged out is not in the map.
* `Certificates_proofs!AccountHolds`: `AcctInv`, unless crossed: a key is made
  while there is none and by one process from the truncation on, whoever is past
  it holds the key of the file, and a registration is for that key.
* `Certificates_proofs!IssuanceKeepsNames`: each job of sites on a list covers the
  sites its certificate had when the list was made, and one of a manual config is
  on a list only if no site had the certificate or the file was truncated
  (`Covers`); `CertSitesCover` proves that of `certSites`.
* `Certificates_proofs!RecordsStayUp`: orders under way have numbers of their own
  (`OwnNumber`), and what an order has up is in the zone *and* published (`Up`) - the
  zone, because another order's commit publishes it as it is.
* `Panel_proofs!BansFounded`: in no copy of the cache, the file's or a job's, does
  a rating against an address look younger than AbuseIPDB's last answer against
  it is (`Honest`).
* `Panel_proofs!OverlapOnlyCutOff`: the mutex is held by the one request that
  runs, and what is alive of another was cut off (`Sane`).
* `Panel_proofs!LookupsLimited`: calls never exceed the counter, nor the counter
  the limit.  `Panel_proofs!SetupApplied`: `JailsApplied` is inductive with types.

* `WebhooksPorts_proofs!AuditLogBounded`: `AuditInv` counts the threads between
  their append and the end of their compaction, each of which stands for a line;
  a kill of a process turns its own into lines that stay, as many as its threads
  at most (`LargestProcess`).
* `WebhooksPorts_proofs!RefusalsBounded`: while a process leaves a hook alone, the
  refusals counted and the threads that still wait for its answer are together no
  more than its threads (`RefusedInv`).
* `WebhooksPorts_proofs!SuggestedFree`: before there is an answer every port of the
  category that is not left to try is in use or was found busy (`AskOK`), and
  `NextPortGood` says what the next port of `scanOrder` is among those left.
  `MaxPort` and `MinPort` give the library's `Max` and `Min` their meaning, from
  the least element of a set of numbers.

Only model-checked: liveness (`RenewalServed`, `LockoutEnds`, `RunsAgain`,
`PanelFreed`), for it needs `ENABLED`, which the provers do not handle.  Every
other property that a passing run checks is stated by a theorem.

## 5. What is not modelled

* Formatting: the text of generated server blocks, of `jail.local` and
  its filters, of webhook messages, of the HTML panel; the flags and targets of a
  site line; reading the two directives out of a manual config.
* What only reads: `analyze`, `security check`, site logs, dashboard, access-log
  statistics, `port check` and the listings of ports, jails and addresses that
  approach a ban; the redirect server, which keeps nothing.
* Files nothing decides on: `renew-status.json`, `site-meta.json`, the brand.
  They are read, changed and written without a lock like `webhooks.json`, and
  one update may undo another.
* Single calls on others: the webhook test button, the report to AbuseIPDB,
  `authToken` of WEDOS, `web passwd`.
* `init setup`, `compose` and `convert`, which prepare a directory before
  anything runs; the raw editor over `ports.conf` and `machines.conf` (one
  `os.WriteFile`, as `SetSlug` has it).
* The other plugins and the registry: each plugin runs one external program.

Two issuers that write one certificate at the same time may mix `.crt` and
`.key`; this is in `Deploy`, and no property forbids it, since no line of the
repository does.

## 6. Plan

Done, in this order: `Deploy`; `SitesConf` and `SiteRegistry`; `ConfText`;
`LoginLimit`; `Routines`; `CertJobs`; `Streams`; `Sessions`; `Webhooks`, `Guard`
and `GeoCache` (read, change, write of a store); `Account` and `Wedos`; `Ports`;
`Jails`; the three violations; the proofs of section 4.

Left, in order of weight:

1. `RestServesDisk` with several renewers of different certificates, which takes
   a `PartInv` per certificate and writer in place of one writer.
2. The implementation of `SiteRegistry` by several editors that only move sites
   and save groups, under a registry that lets a site come back.
3. Composition: `Wedos` and `Account` under `Deploy`'s `JobObtain`, in place of
   an issuance that succeeds or fails; `Streams` around the commands of `Deploy`.
