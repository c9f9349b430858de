# Baruwa 2 in TLA+

Baruwa is the web front end of MailScanner: it records every scanned message in
PostgreSQL, lets users act on quarantined messages, and writes the rulesets
MailScanner scans with. This directory holds TLA+ modules of its parts, the
TLC configurations that check them on small instances, and theorems about them
that TLAPS proves for every instance. Paths below are relative to the root of
the repository (`PROJECT.json` prefixes them with `src/`).

`PROJECT.json` lists the components, runs, findings, hazards and theorems, maps
each definition to its lines, and gives for each checked property a mutant of the
model, modelled on a plausible bug, that TLC finds to violate it.

## 1. The system

| Part | State | Operations | What is hard |
|---|---|---|---|
| Message logger, `extras/perl/BS.pm` | table `messages` (PostgreSQL), table `tm` (SQLite), files and lock files in `restoredb/` | a MailScanner child sends a record or backs it up; the logger inserts each recipient's row or backs it up; after a success it restores backups | each of the three stores fails alone; a crash between INSERT and DELETE; lock files among the data files |
| Import script, `extras/perl/baruwa-backup2db.pl` | the same tables | SELECT, INSERT row by row, DELETE by message id | a second process on the same SQLite file |
| Quarantine pages and links, `controllers/messages.py` | the web session, `releases.released` | `detail`, `quarantine` (bulk), `process` (polling), `autorelease` | waits of 30 s for tasks that are not told; state read before the wait |
| Quarantine tasks, `tasks/messages.py`, `lib/mail/message.py` | files on the node, `messages.isquarantined` | search, release by SMTP, learn, delete, unflag | green threads on the same file; errors half way; early acknowledgement |
| Cleaner, `commands/cleanquarantine.py` | the same | list, UPDATE, rmtree of old directories | users delete beneath it; local days and UTC rows |
| Publication, `lib/api.py`, `lib/backend.py` | database, fanout exchange `ms` | commit, publish create tasks, publish update-serial | commit and publication are two steps; what is published depends on the new value |
| Rulesets, `tasks/settings.py` | a ruleset file per node, one `confserialnumber` for all | query, render, write; read, add one, write | old tasks overtake new ones; increments without a lock |
| Exim files, `tasks/mta.py` | files for exim | query, write, HUP | as the rulesets, without the serial number |
| Pages that change settings, `controllers/domains`, `accounts`, `organizations`, `lists`, `settings` | rows, files made from them | load rows, commit, publish, one statement after another | two pages at once; a commit that raises half way; pages that publish nothing |
| Mail queues, `commands/queuestats.py`, `tasks/status.py`, `controllers/status.py` | table `mailq` | mirror a node's two queues, act on selected items | two directories read one after the other; refreshes at once; `.one()` on rows |
| Quarantine and PDF reports, `commands/quarantinereportsng.py`, `pdfreportsng.py` | table `releases` | mail the links, then commit their records, on one node of many | failure between the two; windows of 24 hours; the lock |
| Command locks, `lib/cache.py` | memcached keys | add with 300 s expiry, delete, replace | expiry under a running command; deletion by another owner |
| Database cleaner, `commands/dbclean.py` | `messages`, `archive`, `releases` | copy to the archive, delete, reindex | rows that come between two statements; a path that exits before its commit |
| Running totals, `config/sql/functions.sql`, `lib/query.py` | tables `srcmsgtotals`, `dstmsgtotals` | a trigger adds and subtracts, pages add up | concurrent updates of shared rows; domains that come and go |
| Search index, `commands/updatedelta.py`, `bin/import-mbox.py`, sphinx | real-time, delta and main index, two counters | index, merge, count, rebuild, prune | logging between counting and rotating; failure of any step |
| Jobs, `tasks/accounts.py`, `domains.py`, `organizations.py` and their pages | uploaded files, session, celery results | upload, import line by line, poll, publish, give up | a session shared by several jobs; tasks that outlive their page |
| Password resets and first logins, `controllers/accounts.py`, `lib/api.py`, `lib/auth/middleware.py` | tokens, accounts, addresses | mail a link, set a password; make an account from a directory | mails lost; two requests at once; errors after the first commit |
| Filters, `controllers/reports.py`, `lib/query.py` | a list in the session | add, remove by place, save, load, turn into a query | old pages, several tabs |
| Signatures, `tasks/settings.py` | files and links of a node, rulesets | save, link, delete, make the ruleset | tasks in any order; aliases added later |
| Queries, predicates, `lib/query.py`, `lib/api.py`, `lib/auth/predicates.py` | organizations, accounts, status of domains | work out whom a message, domain or account concerns | a dozen queries that must agree |
| Model, parser, preview, graphs, templates, set-up | none of their own that outlives a request | | |

How they interact. MailScanner calls the logger by a unix socket, and the rows
the logger writes are what every page shows. Web processes never touch a node's
files: they publish celery tasks, to one node (direct exchange, routing key the
host name) or to all (fanout). A worker acknowledges a task before it runs it
and runs up to 100 green threads that switch at network and pipe operations
(`config/deployment.ini_tmpl:135-137`, `lib/mq/__init__.py`). Commands are run by
cron beside all this. Everyone shares PostgreSQL.

What makes each part correct, in one line: no row of the log is lost and few are
doubled; a row says quarantined as long as the file is there, and users are told
what was done; every MailScanner ends up with the settings in the database; the
queue table mirrors the queues; each message is reported once, with links that
work; the archive and the table together keep each message; what is stored is found;
counts, lists, searches and what opens agree; the workers are told of what was imported; whoever
lost his password gets a new one.

## 2. The modules

| Module | Models | Runs |
|---|---|---|
| `MessageLog` | `BS.pm` and `baruwa-backup2db.pl` | `backup`, `crash`, `script_loss` |
| `RowStore` | what the logging promises of a row; `MessageLog` implements it | `backup` |
| `Quarantine` | the quarantine pages, tasks, release links, cleaner | `quarantine_safe`, `quarantine_live`, `bulk_report`, `link_once` |
| `ConfigSync` | publication, ruleset tasks, serial number | `config`, `config_reset` |
| `Backend` | how any page commits and publishes, and a worker makes files | (instantiated by the next two, each with its own scripts) |
| `Directory`, `Settings` | the pages, their statements, what they publish, and the files | `pages` |
| `Pages` | `Directory` and `Settings` side by side | `pages` |
| `CommandLock` | the locks of commands | (extended by the next two) |
| `Reports` | the two commands that mail reports | `services` |
| `DbClean` | `prune-database` | `progress` |
| `QueueStats` | the table `mailq`, its refreshes and its page | `progress` |
| `Jobs` | uploads, imports, exports, status pages | `progress` |
| `Passwords` | reset tokens and passwords | `progress` |
| `FirstLogin` | authentication by an external server, and the account it makes | `services` |
| `Totals` | the trigger's running totals and who reads them | `services` |
| `Filters` | filters in a session, `DynaQuery` | `services` |
| `Signatures` | the files of one domain's signature | `services` |
| `SearchIndex` | three indexes and their counters | `services` |
| `Views` | what the pages show a person | `services` |
| `Services` | `Reports`, `FirstLogin`, `Totals`, `Filters`, `Signatures`, `SearchIndex`, `Views` side by side | `services` |
| `Progress` | `DbClean`, `QueueStats`, `Jobs`, `Passwords` side by side | `progress` |
| `MessageLogProofs`, `QuarantineProofs`, `ConfigSyncProofs` | the theorems about the module of that name | |
| `ProgressProofs` | the theorems about `QueueStats`, `DbClean`, `Jobs`, `Passwords` and their composition `Progress` | |
| `ListsProofs` | the theorems about `Totals` and `Filters` | |
| `ServicesProofs` | the theorems about `SearchIndex`, `Signatures`, `FirstLogin`, `Views`, `Reports`, and about `Services`, with those of `ListsProofs` | |
| `SettingsProofs` | the theorems about `Settings` | |
| `PagesProofs` | the theorems about `Directory`, and about `Pages`, with those of `SettingsProofs` | |
| `MCMessageLog`, `MCQuarantine`, `MCConfigSync`, `MCPages`, `MCServices`, `MCProgress` | the instances TLC checks | |

### MessageLog

A row is a pair of a message and a recipient; the code writes one row for each.
`copies` counts it in PostgreSQL (the table has no key on message and address, so
a second INSERT makes a second row), `tm` and `files` hold it in the two backups,
`locks` are the lock files. `stage` and `pend` follow a message from `BaruwaLog`
to the logger: a child either sends it, and never learns what became of it, or
backs its rows up itself. The logger is single threaded, so its place in the code
is one set of variables: `srv` (which function), `todo` (the rows its SELECT or
`readdir` has yet to yield), `rpc` and `held` (the place in the loop's body and the
row in it). Each statement that changes a store is an action, so that a crash, the
script or a MailScanner child can come between any two.

Failures are the constants `Faulty` and `MaxFaults`: SQLite refuses an INSERT or
a DELETE, a file cannot be written, an error is raised after PostgreSQL committed,
a process is killed. PostgreSQL goes and comes at any time without a bound, and
refuses the rows `Bad` always. `Garbled` messages have a frame that the logger cannot
decode: the uuencoded record is framed by `END`, which it may contain, and the
client writes it to a non-blocking socket without looking at how much was taken.

SQLite's locking is modelled by its effect: nobody writes `tm` while another
process has a SELECT open. Nobody waits in the code (the busy time-out is
commented out), so a writer that meets the lock has its statement refused: that is
the failure of kinds `sqlite_insert` and `sqlite_delete`, which the bounds allow at any time.

Left out: `index_record`, which swallows its errors and touches no state here (it is an
action of `SearchIndex`); the start of the logger (pid file, lock file, `kill -9`), one
step `Start` here.

`RowStore` is the promise in the abstract: a row handed over is waiting, kept, or
delivered, and moves in this direction only. `PlaceOf` is the refinement mapping: a row
with a copy in PostgreSQL is delivered, else one in `tm` or `files` is kept, else one that
is in flight is waiting; a row that is nowhere would be `"lost"`, a place that `RowStore`
does not have. It is delivered only while the database is up, and (`Live`) once that stays up.

### Quarantine

`file` and `flag` are the message on disk and `isquarantined` in its rows. A job
is one request: asked by the page, the bulk form or a link (`from`), for a set of
actions (`acts`); `pc` is the worker's place in `process_message`, `res` its
result, `sent` whether the mail server took the message, `ui` what the user was
told. Between two values of `pc` is where a green thread switches: SMTP, the pipe
to sa-learn, the database, the sleep of the memory check. `release_message`, the
task of links, is the case of a job that asks for a release alone. `marks` are
the queued tasks that set `released` of a link.

The cleaner works on one directory, which all messages of the model lie in: it
lists them, updates the rows of that day and removes what `rmtree` lists. `Late`
messages were scanned before midnight and logged after. `Located` ones have
`msgfiles` in their row, so that they are not looked for on disk.

### ConfigSync

Settings are named after the change that made them last, so `file[n] = db` says
that the ruleset of node `n` was made from what the database has. A change `q` is
committed, then published in two steps, as two tasks on each node. Tasks start in
any order, for they are green threads fetched from a queue and `RulesRead` is where
a thread waits for the database. Writing the file does not switch. The serial
number is read in one step and written in another, as the ORM does it: SELECT, then
UPDATE with a constant.

`late`, `base` and `slate` are history variables: which older tasks were between
their read and write when the last change was committed. The properties need them
to say exactly what the code does and does not guarantee. MailScanner is outside the
repository; it is modelled from the shipped `MailScanner.conf` (it compares the serial
number, and restarts every `Restart Every` seconds), as loading the file at any time.

### Backend, Directory, Settings

A handler of a page is a script: the sequence of its reads, commits and publications.
`Backend` runs two of them at once, refuses a commit where PostgreSQL or the ORM would,
kills a process in the middle of one, and lets the worker of a node run the published tasks in
any order; each makes one file from the rows of the moment. One node stands for all,
as nodes share nothing but the rows. `Directory` and `Settings` give the scripts of
some seventy handlers, what each backend function publishes for a row, and what each task selects.
A row is the set of its marks ("row" if it exists, "on" if active, the name of a column if it
is not at its default): nothing else decides what is published or which line a file gets.

`StaleIsPending` says that a file which is not what the rows say is about to be put
right. What the code does not publish is in the model and is written down in `Leaves`, page
by page, where a reader finds every such gap of the code: deletion of an organization,
bulk enabling of domains, an MTA protocol that changes, an account's approved senders when the
account goes, values set back to their default, the approved senders that are added along with one that somebody
deletes before the last of them is. `gaps` collects them, and what a crash or a
swallowed error leaves; a gap is closed by the next task that makes the file well.
Each behaviour follows one file, so that the pages that have to do with it are asked for.
A row of the model that is deleted may be made again under the same id, which PostgreSQL never gives twice; where it would
tell, for list items, which no page edits, `Refused` takes an item that is not what was loaded for another row.

`Pages` puts the two side by side: a behaviour has the rows of one or of the other, the rest of the state is shared.

### QueueStats

One node's two queues, mail moving through them, and refreshes that list the inbound
directory, then the outbound one, read the ids of the table, delete, and insert or
update item by item. Cron's refresh and those of `process-queued-msgs` overlap. `kept`
is a history variable: what has been queued ever since a refresh began. Recipients of a message
share their fate, so that a row is counted once for all of them; `several` says that there
are some, for which the code uses `.one()`.

### CommandLock, Reports, DbClean

The lock is a key in memcached that goes after 300 seconds or with `delete`, whoever
owns it. In `Reports` cron starts the command on every node each hour; a day has two hours of two
ticks here. `excused` collects the pairs of a user and a message that the code is known not to
report, each for a reason in the code: more than the largest number, another user's
record, a gap between two windows, a refused mail, a run killed, an hour in which the lock was taken by
hand. In `DbClean` the INSERT ... SELECT and the DELETE see what is committed when each begins;
loggers commit rows meanwhile, some of days ago; `late` are those that were old when they came.
`IntegrityError` is the code's handler: it repairs, and exits without a commit.

### Jobs, Passwords, FirstLogin, Filters

Each process is a request (or a tab). A request reads the whole session when it begins and
writes it when it ends: Beaker is configured without `auto`, but its accessed-only
save writes a shallow copy, lists in it included. `Jobs` has the five-second refresh as an action that counts
polls in the session, and the worker line by line. When the page finds an import done, `AccountsReady` has the three rulesets that name accounts
made anew and the serial number raised, on every node (`published`, `reloaded`); `DomainsReady` has one worker raise the
number, and asks for no file. `ImportTold` says this and no more: for an account that its files are asked for, for a domain
that the number moves after its row is there (section 6). `raced` and `crossed` are history: two
uploads past the check at once, a page that removed another's file. A file is removed under its name, and by two parties:
a page that gives up, and the import when it has ended. `OwnLinesOnly` excuses both: with three uploads of one name, an import that ended
after its page gave up removes the file of the second, and the third then writes where the second is still to read
(`EndedLate`; two jobs never show it, the attempt at a proof did). `Passwords` has a
user who forgets, asks, and follows links; links grow old and mails are lost.
`FirstLogin` collects addresses in the steps of `user_address_update`, each of which may fail. In
`Filters` a page's link names a filter by its place; `generate` is `DynaQuery`, one pass over the
list.

### Totals

Each transaction looks both names up, and updates or inserts two rows, holding what it
has changed until it ends; others wait, are rolled back, or meet the unique key. Totals are counted in
halves, as the trigger gives them (a half to each side of a message between two hosted names). `delete_totals`
names the row `dom:` literally, so it deletes nothing; were it to delete rows, the counts
of all messages would be wrong, which is the mutant of `CountsAgree`.

### Signatures

A domain with aliases on one node: the file, its links, the ruleset that names them.
Publication is one step here (`Directory` takes it apart); tasks run in any order and take
turns at each query. `bare` are aliases added after the signature was saved, which the ruleset names and
which have no link until it is saved again.

### SearchIndex

Messages with the time their INSERT began (`ts`, the start of the transaction) and the
time MailScanner or the mail says they came (`stamp`). The indexer is another program: what it
reads, it reads at once, and the new index and its counter are there at once when it ends, or not at
all. Not claimed: a message whose INSERT was open while an index was made (`late`), which no delta ever
has. `TIMING` names the one assumption on time: reindexing after pruning, which cron starts in the
minute of the hourly update, is over within the hour. The kill list hides deleted rows,
of which nothing is claimed.

### Views

No state but organizations, accounts, the status of names, and where a row is; each
page's query is an operator, worked out from the tables as the code does it, with its own joins, and
`PagesAgree` compares them after any edits. Messages are all of today; a username is one
without an @; the indexes are as just made. Where the code's queries differ, the property says
so: the totals at the top count the mail of a disabled alias; a user's search of the archive goes by addresses
found in the live table; an archived message opens only to an administrator who may see some live
one, as its query is built without the archive's model; a pager counts a domain once for every
organization that has it. An account that an administrator edits loses the domains of
others, and a second owner of a domain cannot be given an address (`.one()`): the actions do so.

## 3. What the runs check

| Run | Instance | Properties | Distinct states |
|---|---|---|---|
| `backup` | 2 messages, 3 rows, one always refused; one failure of each kind but crashes and unwritable files; fair | `NothingLost`, `NoOrphanLock`, `CopiesBounded`, `Delivers` (the refinement of `RowStore`) | 16 thousand |
| `crash` | 2 messages, 3 rows, one message garbled, with the script; one failure of each kind | `Durable`, `LockedIsCopied`, `CopiesBounded` | 7.74 million |
| `script_loss` | 1 message to 2 recipients, logger and script, no failures | `NothingLost` is violated | |
| `quarantine_safe` | 2 requests about a message, a link to it, a late message, one crash | `FlagHonest`, `ReportTruthful`, `MarkedWasSent` | 566 thousand |
| `quarantine_live` | the same without crash, the message's place known; fair | `EveryoneAnswered`, `HiddenIsRemoved`, `AnsweredIsMarked` | 181 thousand |
| `bulk_report`, `link_once` | 2 requests about a message | `BulkTruthful`, `LinkOnce` are violated | |
| `config` | 3 changes, 1 node, one crash; fair | `RulesetCurrent`, `SerialMoves`, `Applied` | 850 thousand |
| `config_reset` | 2 changes, 1 node, not forced | `ResetApplies` is violated | |
| `pages` | 2 requests of any page, one row of each table and two of some, one crash | `DirectoryFilesSettle`, `SettingsFilesSettle` | 1.14 million |
| `services` | seven parts, one in each behaviour (below) | `OneReportAnHour`, `ReportedOnce`, `ReportedOrExcused`, `CountsAgree`, `FilteredAsAsked`, `AccountComplete`, `SignatureServed`, `FoundOrDue`, `PagesAgree` | 1.21 million |
| `progress` | four parts, one in each behaviour (below); fair | `StaysListed`, `GhostsGo`, `ListedAtLast`, `ArchivedFirst`, `InOneTable`, `OldRowsGo`, `OwnLinesOnly`, `NameFreed`, `ImportTold`, `ResetWorks` | 202 thousand |

`pages`, `services` and `progress` also check the types of the modules they compose
(`PagesTypeOK`, `ServicesTypeOK`, `ProgressTypeOK`). Every invariant and action property that a passing run
checks is proved as well (section 5).

`services` and `progress` each hold parts that share neither tables nor files. A behaviour is
about one of them, its `area`; the others stay in an initial state. No interleaving between parts is lost, as
there is none to lose, and the properties are the modules' own, which the theorems are about. `Services` and `Progress` are
the compositions, with nothing bounded beyond what their parts bound, and the theorems are about them as well; `MCServices` and `MCProgress` add the bounds named
here (their specifications are `MCServicesSpec` and `MCProgressSpec`). Their instances:

- `reports`: two nodes, a run by hand, two users and a domain, two messages, ten ticks (two days and a half);
  `FewReports` allows two in all of faults and messages, enough for a message in two windows, or one
  fault in a run about a message.
- `totals`: two messages over a domain, its alias, another organization's domain and a foreign one, with the
  cleaner.
- `filters`: two tabs, two requests, four filters of two keys. `login`: two logins at once, two
  authenticators, three addresses, one request that dies. `signatures`: three edits, an alias.
- `search`: two messages, a clock of two ticks, one update that dies, so that each message may come before, in or
  after each step of an update and of a reindex.
- `views`: two organizations, two domains and an alias, an administrator, a user, two messages and two
  list items; `FewViews` keeps the second organization to one domain, an account to one
  further address, and the second message to the table `messages`.
- `mailq`: two messages, cron and a task; `FewInQueue` allows one of a killed refresh, a used page and a
  second message. `dbclean`: two rows, two cleaners, one killed, two days.
- `jobs`: two jobs of any two kinds, two sessions, two file names, three names, a worker that may lose a task;
  `FewJobs` drops renamings of the same. `passwords`: two requests and two visits, one of each mishap.

Why the bounds are enough. Two recipients of one message are what partial failure and
deletion by message id need, and a second message what a backlog older than the
current message needs; `Limit` and `MaxScan` of 2 for 3 rows make a pass leave rows
behind; one failure of each kind may be combined with one of every other. Two requests about
a message and a cleaner give every pair of actors that touch a file, and a third
actor beside them. Two changes give an older and a newer task; two nodes share the serial
number, which is proved for any number of them; the third change of `config` makes a superseded
task of each kind. Two pages of any kind give every pair of scripts, in every order of their statements, from
no rows, all rows active and otherwise at their defaults, all rows with every column set, and all rows but list items. What
does not depend on the bounds is proved (section 5).

Fairness. `MessageLog`: the logger and the children run (`ServeStep`,
`RestoreStep`, `ClientStep`), MailScanner starts the logger again (`Start`), and mail keeps arriving
(`OtherMail`), for the code restores only after it has logged a message. PostgreSQL
owes nothing: `RowStore`'s `Live` is conditional on its staying up. `Quarantine`: workers and the web
server run and cron runs the cleaner; users and crashes are not fair. `ConfigSync`:
what was committed is published unless the process dies, workers run, MailScanner
restarts; changes and crashes are not fair. `QueueStats`: cron goes on, and the worker ends what it
has begun; mail and users need not. `DbClean`: a run that has begun goes on; cron comes every night and finds the lock
free at last, a strong fairness (`BeginClean`), since others may hold it now and then; a lock expires. `Jobs`: a request ends
what it begins, the page refreshes itself, the worker goes on. `Passwords`: the user asks again and follows his
links. Elsewhere weak fairness suffices, for no step of these actors can be disabled for ever by another's
repetition that the bounds allow.

Deadlock is checked in the runs of `MessageLog`, `Quarantine` and `ConfigSync`: PostgreSQL, the cleaner or
MailScanner always has a step. In `pages`, `services` and `progress` it is not: their requests are
bounded and end, and there is nothing left to do.

## 4. Findings

Four documented promises do not hold; each has a run whose counterexample shows it.

- `script_loss`: `baruwa-backup2db.pl:86` deletes by message id, so that the rows of
  recipients it did not insert are lost ("SQLite backup prevents data loss",
  `README.rst:49`). `BS.pm` deletes by message id and address, and `NothingLost` is
  proved of it.
- `bulk_report`: a failed memory check overwrites the result of a release that was sent
  (`tasks/messages.py:131`, `docs/source/guide/user/messages.rst:163`).
- `link_once`: two clicks, or a click after a time-out, release the message again
  (`controllers/messages.py:607`, whose message says "you can only use the release link
  once").
- `config_reset`: a score set back to 0.0 is not published
  (`lib/backend.py:40`, `docs/source/guide/user/personalize.rst:63`).

## 5. What is proved

Forty-eight theorems, for any sets of messages, recipients, requests, nodes, names and changes and
any number of failures: the types of all modules and of their compositions, and every invariant and action property that the
passing runs check. Each is proved from its module's assumption on the constants, which says their types and what
the rest of the system guarantees of them, and which TLC evaluates on every run of that module: there is a
node, and users and domains are different things (`Reports`); the tables of organizations, domains and aliases (`Views`), of messages
and host names (`Totals`) are finite, without which they could not be counted; a row is of one table, and the
list items, which `SetToSeq` puts in an order, are finite (`Directory`); rules, rows of domains, settings and requests are finite, there is
another value for each setting that can be given one, the marks for no policy and no row are none of the policies, and the files that are followed
are files of the settings (`Settings`).

Invariants as the runs check them are seldom inductive. What each proof adds to its property is a definition at the head
of the section, with a comment: a claim about states in the middle of an operation, which the property does not look at.

`MessageLogProofs`. `TypeCorrect` is the typing. `LockedRowsAreCopied`: a lock file
stands for a row in PostgreSQL; its invariant `RestoreInv` adds that the row held past
the fetch has been copied, which is what `create_lock` relies on. `StoredStaysStored` (no
step but the DELETE of the script lets a stored row disappear) follows from it: the only
row the logger ever deletes is `held`. `NoRowIsLost` follows from that in turn, with the
fact that no stage is "lost"; it assumes that there is no crash, no unwritable file, no
garbled frame and no script, and TLC refutes it without any one of the four.
`CopiesAreBounded` needs the longest invariant: a row is in one place at a time
(`PlaceInv`: not yet logged, in `tm`, or in a file, and the pass is over rows that are
still there), and one that the code as it stands would insert again (`Owed`) has a copy less
than the bound (`OnceInv`), so that what becomes owed again was paid for with a failure. The script may insert a row once more, and again
after each of its DELETEs that fails; the bound says so, and with `OwedByScript` the proof is of both at once, without an assumption.
`LocksGoWithTheirRows` (`NoOrphanLock`) rests on `LockInv`: the row about to be deleted is in the backup, and has a lock file only
if it had one when it was fetched. It assumes that the script, which deletes rows and knows nothing of locks, is not used.

`RowsMoveOn` is the safety part of the refinement of `RowStore`, under the assumptions of
`NoRowIsLost`: initial states map to initial states, and every step moves rows on or leaves them; a row is inserted only while
PostgreSQL answers (`InsertedWhileUp`).

`QuarantineProofs`. `QuarantineTypes` is the typing. `RowsAreHonest` rests on `FlagInv`:
besides `FlagHonest`, the cleaner's list holds every file there is until its UPDATE,
what it removes has been unflagged, and a task is at its UPDATE only after it has
deleted. `PagesAreTruthful` and `MarkedLinksWereSent` rest on `ReportInv`: a task
that has not come past the sending has sent nothing, and from then on what it knows of
its release (`Knows`) is what the mail server knows, at every step and not only when it
is reported. Of tasks of the bulk form this is false, whose memory check is the finding above.

`ConfigSyncProofs`. `ConfigTypes`. `RulesetsAreCurrent` rests on `RulesInv`: outside of
`late` nodes, a task that has read has read the current settings. `SerialNumberMoves`
rests on `SerialInv`: unless `slate`, a task that has read has read at least `base`, so that every
write, of whatever node, is beyond `base`, though updates are lost.

`ProgressProofs`, of the parts of `progress`. `QueuedStaysListed` rests on `SeenInv`: what has been queued ever since a refresh
began is in the inbound list or still in a queue that will be listed, and once both have been listed is in one of the lists, whatever moves
and however many refreshes run. `RowsInOneTable` and `RowsArchivedFirst` rest on `CleanInv`: at its INSERT and at its
DELETE a run holds every row that it will delete but the late ones (`Covered`), for any number of runs at once.
`LinesGoToTheirOwn` rests on `JobsInv`: an upload has its path to itself from the check of the name until its task has ended
(`PathInv`), which holds as long as none of the excuses has come about, and a page and its task are only in certain states
together (`StageInv`).

`ServicesProofs`, of five of the parts of `services`. `StoredIsFound` rests on `IndexInv`: where the main index and the delta meet, at every step of an update and of a
reindexing that overlap, there is nothing between them but what was under way when one of them was made (`Between`); and
on `RtInv`, for the realtime index. `SignaturesAreServed` rests on `NodeInv`: until two changes meet, at most one task or one
save is about the file, and what it has read is what the database has. `AccountsAreComplete` rests on
`MakerInv`: one login makes the account, and what it was to have gathered before each of its steps it has
gathered. `PagesAlwaysAgree` needs no more than the types: every state of the right types, reachable or not, has pages
that agree, by a chain of set inclusions, a count of joined pairs against a count of domains among them.

Of `Reports`, there too: `NodesSendOnce` rests on `HourInv`: in an hour that nobody disturbed there is one run at most, the lock tells that there was one,
and whoever is still on its list has not been sent anything. `MessagesAreShownOnce` rests on
`OnceInv`: what was sent has its record, or will have it when the run commits, or is too old to be looked for, so that the records that
`prune` deletes are not missed. `NoneFallsOutUnseen` rests on `SeenInv`: whatever was there when a user was last looked for has been sent,
is in the run's hands, or is excused; by the end of his hour of the day he has been
looked for, so that the next time comes within the 24 hours that the query looks back.

`ServicesTypeCorrect` and `ProgressTypeCorrect` are about the compositions: a step of `Services` or `Progress` is, to each part, one of its
own or none (`ServicesSteps`, `ProgressSteps`), so that a behaviour of the whole satisfies each part's specification, and what is proved of
the parts holds of it.

`ListsProofs`. `CountsAlwaysAgree` rests on `TotalsInv`: a committed row of the totals is what its messages add up to; and of
each transaction, what it has added so far is what the messages it has begun with add up to, less
the rows still owed, which it does not hold yet (`OwnInv`); so that a commit, which adds its part to rows that others
may have changed meanwhile, and a rollback, which forgets it, both keep the rows right. `ListsAreAsAsked` has two halves: `Clauses`
is what the filters should ask for as a set, and the fold over the list gives just that; and the list in the session is what the
user wanted, as long as one request at a time writes it (`FiltersInv`). Both need
induction over data, on the size of a set (a sum over the messages) and on the length of a list. The library's induction
rules take an operator as a parameter, which no installed prover can instantiate; the induction is done by
a counterexample of least size instead, which exists since < is well founded on the natural numbers (`NatMin`, a theorem
of the library without such a parameter). `SumOfParts`, `EachTwice` and the lemmas about folds are of use to other modules.

`PagesProofs`. `PagesPublish` is about the scripts and about nothing else: for each page, for any rows it loads and any rows
`D` there are by the time it commits a change that PostgreSQL takes, every file whose lines are not the same in `D` and after
the change is one that the rest of the script publishes, as the rows are then, or is named by `Leaves` (`Publishes`). It rests on what each file is made from:
from the rows of `RowsOf` alone (`RowsSame`), and of a ruleset from those that have its column (`RulesetSame`), so that a page
which publishes by the columns of a row, or of a copy made before a deletion, misses none. `FilesSettle` is then
a fact about any such scripts. Its invariant `PagesInv` says that what is left of every script still publishes what it changes, and
counts on a request (`Due`) only from its second step on: its first commit may itself make less of what it was going to
publish; after that, only what others commit can silence it, which is `Silenced`.
In the attempt to prove it `lists_new` failed: it reads the type of its item again after it has committed
the same sender for the other addresses, and publishes nothing when the item has been deleted by then (`controllers/lists.py:250`); no
initial state of the run had let TLC see it, for none had an owner without list items. It is in `Leaves` now, and in the run.

`SettingsProofs`. The pages of `Settings` read rows again in the middle of a script, and some of its tasks can put a file wrong, neither
of which `Directory` has; so the proof goes another way. Its invariant `SettingsInv` has three parts. The rows fit
their columns and are sound: names are unique, an enabled policy is there, and so is the policy of a rule (`Sound`); the order of a rule is bounded by
the requests made (`Bound`). What is left of each script is one that a page may have (`ScriptOK`): each commit is followed by the publications that
its change promises (`Promised`, which says, change by change, what `lib/backend.py` has after it), and so is each read whose outcome commits more. And each file that is
followed is right, or a task in the queue puts it right, or one that a request will publish, or it is in `gaps` (`Pending`). That a commit keeps the
third is `SettingsPublish`, from `PageScripts` and `Covers`: a change leaves what a file should say as it was (`Fixed`), or a promised
publication asks for a task that makes the file well from anything in it (`Covered`), or `Leaves` names it. `SettingsSettle` is `StaleIsPending`
under `Settings`' own specification.

`Pages` instantiates `SettingsProofs` with its own constants, so that the lemmas about `Settings` are facts about its pages in the composition. A behaviour keeps
the tables it begins with: with those of `Settings` it keeps `SettingsInv`, with those of `Directory`
`PagesInv` (`PagesBothInv`), from which `PagesTypeCorrect` and `BothSettle` follow. It assumes that no table of `Directory` is called
"policy", by which the two are told apart.

Only model-checked: liveness (the `Live` of `RowStore`, `EveryoneAnswered`, `HiddenIsRemoved`, `AnsweredIsMarked`, `Applied`,
`GhostsGo`, `ListedAtLast`, `OldRowsGo`, `NameFreed`, `ImportTold`, `ResetWorks`), which needs fairness and ENABLED, beyond this
prover. Of the refinement of `RowStore` the safety part is proved, `Live` is not. That the assumptions on the constants can be met is what
the runs show, whose instances meet them. No module uses RECURSIVE operators.

## 6. Not modelled

Listed with their reasons in `PROJECT.json`. In short: parsing, rendering and drawing keep no state;
MailScanner, exim, sphinx, celery and PostgreSQL are other programs, modelled where the code meets them; the
protocols of PAM, LDAP and RADIUS are libraries. `extras/perl/BaruwaSQL.pm`, `quarantinereport.py` and
`pdfreport.py` are older forms of what is modelled. `caching_query.py` keys the queries it is given, but the
regions of the shipped configuration are only read and invalidated by the pages modelled here, so that there is no
stale copy to speak of. The audit log and API tokens are written and never read back by what is modelled.

Known of the code and not stated as a property, since nothing of the kind holds:

- `updatedelta.py:60` reads the counter of `messages_delta` for any index, so that the archive's counter is set to the time of the
  messages; and rows that `dbclean.py` moves keep their `ts`, so that no delta of the archive has them until
  its index is made anew (`docs/source/commands.rst:86-88` describes both indexes alike).
- `organizations.py:356`: at the end of an import of domains the page asks for a higher serial number, and for none of the files
  that `update_domain_backend` (`lib/backend.py:50-89`) asks for after the form of one domain: relay domains,
  callbacks, routes, the servers by protocol, rulesets. An imported domain is in none of them until some other page
  publishes them, though `docs/source/guide/admin/domains.rst:11-12` offers both ways alike. The exim and MailScanner
  configurations in `extras/` that query the database (`exim/macros.conf:18`, `mailscanner/MailScanner.conf:313`) do without the files. The
  import of accounts does publish (`accounts.py:830`). `Jobs` does both as the code does.
- `bin/import-mbox.py:364` writes the file of a message to the quarantine, and moves the mailbox away, before
  its batch is committed: after a kill or an IntegrityError a second run skips it as existing.
- `BS.pm:189` selects a hundred rows without an order: a hundred that PostgreSQL always refuses hide all others. `Delivers` is
  checked with fewer refused rows than `Limit`.
- `BS.pm:95` does not look at whether the lock file could be made; without it the row is inserted again at every pass.
- `pdfreportsng.py:350` unpacks a tuple of three into two names, and ends the whole run, for a user of two domains or
  more; `Reports` does it as the code does.

## 7. Plan

In order of weight:

1. The start of the logger (pid file, lock, `kill -9`) composed with `MessageLog`.
2. Recipients in `Quarantine`, for a mail server that refuses one of several.
3. Several nodes in `QueueStats`, for the deletion by message id.
4. The archive's index and the kill list in `SearchIndex`.
5. Pure operators: `should_be_pruned`, `column_windows` against their definitions.

Abstract specifications still worth stating: a link that is spent at most once, which `autorelease` does not implement
and a corrected one would; a register that every node converges to, for `ConfigSync`.
