# Verification of tv_grab_ttx

tv_grab_ttx captures teletext packets, extracts the TV programme listings from
the pages and writes them as XMLTV; tools beside it tune a DVB card, run the
grabber for all channels and join the files. These modules model the parts of it
that keep state or depend on the order of events. Paths below are relative to the
root of the repository; C++ sources are in `src/`.

## The system

| Part | State | Operations | What makes it hard |
|---|---|---|---|
| Packet acquisition, `ttx_acq.cc` | page open in each of 8 magazines, last row of it, serial mode | `TTX_ACQ::add_pkg`, `ReadVbi` | magazines interleave, a row names only its magazine, packets are lost, capture must stop by itself |
| Page database, `ttx_db.cc` | pages with rows and a count of receptions; TOP tables BTT, MPT, AIT | `add_page`, `add_page_data`, `add_btt_pkg`, `get_acq_rep_stats`, `first_sub_page`, `next_sub_page`, `last_sub_page_no` | which pages are TOP tables is learnt during reception |
| C interface, `ttx_cif.cc` | any number of databases, a static current page | `ttx_db_create`, `_destroy`, `_add_pkg` | static state outlives and is shared by the databases, and is one for all magazines |
| Overview pages, `ttx_scrape.cc`, `ttx_ov_fmt.cc` | list of pages with slots, each with date, start and stop time | `DetectOvFormat`, `ParseAllOvPages`, `FilterOverlappingSlots`, `FilterExpiredSlots` | every broadcaster writes tables its own way; dates are missing, or wrong after midnight; pages are missing, repeated or not part of the schedule |
| Description pages, `ttx_scrape.cc`, `ttx_pg_ref.cc` | references counted per page; description of each slot | `ParseAllContent`, `CheckMissingPages` | a page describes several programmes, told apart by date and time; sub-pages are missing |
| Dates, `ttx_date.cc` | date of a page | `ParseOvDate`, `ParseDescDate`, `CheckDate` | incomplete dates, weekdays, several dates on a page |
| Features, `ttx_feat.cc` | none | parsing | languages |
| XMLTV, `ttx_xmltv.cc` | imported channels and programmes; the file itself | `ImportXmltvFile`, `MergeNextSlot`, `ExportXmltv` | the output of a run is the input of the next; times are read through `mktime()` |
| `capall.pl` | channels to do, processes, temporary files, tuner | the main loop, a signal handler | processes fail, are killed, end in any order; interrupts; system calls fail halfway |
| `merge.pl` | channel IDs, programmes by key | reading each file, printing | channel IDs that collide |
| `util/tune_dvb.c` | list of services, tuner | channels.conf entries, `-p`, `-P`, holding the tuner | which channels share a transponder |
| `util/scan_pat_pmt.c` | section filters, poll arrays, services found | `scan_pat_pmt`, `read_filters`, `parse_section` | filters come and go while the loop over them runs; sections are repeated, garbled, late; tables change |

How they interact: `ReadVbi` takes packets from a source (a file, or libzvbi) and
hands them to `TTX_ACQ`, which fills `TTX_PAGE_DB`; nxtvepg uses `ttx_cif.cc`
instead. When capture is complete the scraper reads the database, builds the list of slots
and their descriptions, and `XMLTV` merges it with the file of an earlier run.
`capall.pl` asks `tune_dvb` for the teletext PIDs of a transponder and runs one
process per channel, while `tune_dvb` holds the tuner. `merge.pl` joins the files.
Within a process everything is sequential; the concurrency is that of the
transmitter, whose magazines and sections are interleaved, and of the processes.

## Modules

| Module | Models | Source |
|---|---|---|
| `TtxAcq` | acquisition, database, TOP tables and the loop of `ReadVbi` | `ttx_acq.cc`, `ttx_db.cc` |
| `TtxStream` | `TtxAcq` composed with a transmitter and a lossy channel; properties | packets of `feed_ttx_pkg` |
| `PageStore` | abstract specification: a store of pages | implemented by `TtxStream` |
| `TtxCif` | the C interface with several databases, composed with their channels | `ttx_cif.cc` |
| `TtxDate` | dates on pages, as operators | `ttx_date.cc` |
| `OvLines` | lines of overview pages: formats of tables and references, as operators | `ttx_ov_fmt.cc`, `ttx_pg_ref.cc`, `parse_slots` |
| `DescPages` | from the text of overview pages to descriptions and the list of missing pages, composed with a broadcaster; EXTENDS the two above | `ttx_scrape.cc` |
| `OvSchedule` | dating of overview pages, stop times and filters, composed with a broadcaster | `ttx_scrape.cc` |
| `XmltvTime` | how time stamps are read, by the import and by `merge.pl` | `ttx_xmltv.cc`, `merge.pl` |
| `XmltvProg` | programmes, slots, what is imported, and the merge of one with the other | `ttx_xmltv.cc` |
| `XmltvFile` | abstract specification: the update of a file, on sets | implemented by `XmltvMerge` |
| `XmltvMerge` | successive runs that keep one XMLTV file up to date | `ttx_xmltv.cc` |
| `MergePl` | the script that joins files, as operators | `merge.pl` |
| `CapAll` | the capture script, its processes and files | `capall.pl` |
| `ScanPatPmt` | section filters, poll loop, PAT and PMT; demux device and broadcaster | `util/scan_pat_pmt.c` |
| `TuneDvb` | channels.conf and `main`, composed with the scan | `util/tune_dvb.c` |
| `TtxStream_proofs`, `TtxCif_proofs`, `TuneDvb_proofs`, `CapAll_proofs`, `XmltvMerge_proofs`, `OvSchedule_proofs` | theorems about the module named | |
| `OvTimes_proofs` | theorems about true times and complete schedules in `OvSchedule`; EXTENDS `OvSchedule_proofs` | |
| `SequenceLemmas` | lemmas: sequences and lists without duplicates, least and greatest elements, a set listed in order | |

The modules with names in `MC` give the constants
values for TLC. Definitions named in comments as
"Mutant" are variants of the definition that follows them, with a plausible mistake; they are
used to show that a property can fail, and nowhere else.

### Correspondence

`TtxAcq`: `cur_page`, `cur_sub`, `prev_pkg`, `prev_mag`, `is_mag_serial` are the members
of `TTX_ACQ`, indexed by magazine. `reps[h]` is `m_acq_rep_cnt` of page `h`
(0: no entry), `row[h]` its packets. `have`, `link` and `top_tab` are the flags,
links and contents of `TTX_DB_BTT`, kept per line. One packet is one step,
`ReadVbi(p)`: `StopOnStats` or `HandlePkg`, which contains all of `add_pkg`
(`RejectHeader`, `AcceptHeader`, `AcceptRow`, `RowOutOfOrder`, `IgnoreRow`).
Every payload is marked with the page it was sent for, so that the properties
can compare where it was stored with where it belongs. `air` is what is on the air and
what may be lost: it is chosen at the start and never changes.

`TtxCif`: `cur` is the pair of static variables; `known`, `row`, `btt` are the contents of
each database. The links of the BTT are left out, only page 1F0 is a TOP page. `tx` is what is on the air in
each magazine of a channel, and `seen` the page number that the caller passes with a row: that of the last header it received
in the magazine of the row. `mode` says of the channel of a database whether its magazines are interleaved and its headers lost. A channel is joined (`Create`)
in the middle of any page.

`OvSchedule`: one step per page in each of the three loops of
`ParseAllOvPages` (`ParsePage`, `DatePage`, `StopPage`), then one step per slot
in the two filters. The initial state is a service: the true schedule of a broadcaster and how it is
shown on pages; the database holds the pages as `parse_slots()` reads them.
A title stands for its programme, so that a time calculated can be compared with the true
one.

`DescPages`: what comes before and after. The initial state is again a service, now with the lines
of its overview pages and the rows of its description pages: a line has columns,
separator, a time, an indentation, a reference; a row has what the regular
expressions find in it. `DetectFormat`, then `ParsePage` once per page;
`SelectRefFmt`, `ExtractTtxRef`, `ExtractTv` are the loops of
`ParseAllContent`; `CheckMissingPages` is `check_continuity` per page. One call
of `parse_desc_page` is one operator, a fold over the sub-pages, and so is
`ParseDescDate`, a fold over the lines. What `calc_date_off` adds to a date is taken
from `OvSchedule` as right.

`XmltvMerge`: `StartRun` is scraping and import. `Imports` is what can be read of a file: each programme with its times as
`ParseXmltvTimestamp` reads them (`Imported`), one for each key of start time and channel (`Readings`). An entry keeps the
text of its programme (`xml`), which is what is written again. `DiscardOld` is one turn of the loop of
`MergeNextSlot` that drops old programmes overlapping the next new slot, after their text was
taken over. `ChooseNew`, and `ChooseOld` and `OnlyOld`, are its results 1 and 2 together with what
`ExportXmltv` does about them, `EndRun` writes the rest, `Wait` is the time between two runs.
The state between runs is the file. The channel entry of a file may only be missing if the output of
a run was wrong, which `FileImportable` rules out; `Imports` models that case
as the code handles it.

`MergePl`: `ReadXmlFile` is one file, `MergeFiles` the loop over the arguments. It has no state
of its own; its input in the run is whatever file `XmltvMerge` has just written.

`CapAll`: `pc` is the place in the script, one step per turn of an inner loop. `Query` asks
`tune_dvb` for the channels of a transponder, `lines` is what it prints, and `MatchLine` takes one
line and removes that channel from the list. `TuneFails` is the branch in which the second `tune_dvb` cannot be started, `Die`
the end of the script when `fork` fails. `Reap` is one turn of the loop that waits: `Replace`, `Missing` and `Discard` are its
regular outcomes, `Leave` a `rename` or `waitpid` that fails. The processes
step by themselves: `Exec`, `EndCapture`, `EndWrite`, `Crash`. `started`, `skipped`, `dropped` and `lost` are
history variables. `Faults` says what may go wrong.

`ScanPatPmt`: `running` is the list of filters and at the same time the poll arrays,
which the code rebuilds from it at every change; `turn` is the index of the loop in
`read_filters`, `revents` what the last poll reported and was not cleared by a rebuild.
One step is one `poll`, or one entry of the arrays (`NoEvent`, `ReadUnusable`,
`ReadGarbled`, `ReadRepeated`, `ReadPat`, `TooManyFilters`, `ReadPmt`), each with the removal of the filter
if it is done or its time is over (`Conclude`). Between them sections arrive and
seconds pass (`Environment`). `Fresh` and `Noted` are the bits of sections read,
which a new version resets. A section of the
PAT adds one filter for each service of the list that it names, in the order in which it names them first.

`TuneDvb`: `main` is the place in `main()`. `CollectChannel` is one turn of the loop of `-P`,
`Scanning` composes the scan, `ScanEnded` copies its results.

## Runs

| Run | Question | Bounds |
|---|---|---|
| `stream` | are rows, and lines of TOP tables, stored where they belong; what do the serial rule and the order of rows save; is the receiver a `PageStore` | three services: TOP tables in parallel mode (pages 100, 1F0 and the MPT 1F1 it links), two magazines in parallel mode (100, 10A not acceptable, 200), both losing rows; the same pages in serial mode losing headers too. Two or three rows each, a page is opened at most twice |
| `stop` | does capture end by itself | two pages in each of two magazines; statistics every 2 headers, threshold 2 |
| `lone` (violated) | the same for a magazine with a single page | |
| `cif_single` | does the static page do harm across channel changes; which pages can have rows | 4 pages in two magazines, one of them 1F0 and one not acceptable, one row, one database; changes between a channel in serial mode without losses and one in parallel mode that loses headers |
| `cif_concurrent` (violated) | and with two channels at a time | |
| `services` | are programmes dated as they were broadcast | 4 programmes from a grid of 9 times in 3 days, one of them half past midnight on each day; 3 layouts, 3 habits of dating, at most one page lost, at most one extra (repeated slots, end times, tips) |
| `descriptions` | is the table read, does each programme get its own description, and which sub-pages are reported missing | 3 programmes on one or two overview pages at the end of a year of 10 days, 6 looks of overview pages, 6 styles of descriptions, every way to refer to two description pages, two times of reception, at most one sub-page lost, with and without BTT |
| `merge` | is the merge right, does the file stay mergeable, and does `merge.pl` keep everything | 2 channels, one of them always with the same slot; runs of 1 or 2 slots at 3 start times with 2 to 4 kinds of stop time, texts that differ in title, reference and description at the middle one; a clock with two times; any number of runs; lists of three files for `merge.pl`, one start time in the hour skipped in spring, by the import and by `merge.pl` alike |
| `merge_expire` (violated) | does only what has completed expire | |
| `capall` | turns, tuner, files, termination, with failing, killed and interrupted processes and with calls that fail (`tune_dvb`, `fork`, `waitpid`, `rename`) | 4 channels on 2 transponders, one of them without teletext; another channel in channels.conf |
| `capall_crash` (violated) | is only complete output used | |
| `tune` | does the scan end, is what it reports true, is it complete | up to 3 services and 3 filters; a PAT of two sections that changes its version, a PMT PID with two services, a service without PMT; one section garbled, one waiting per filter; 5 options; MPlayer and VDR entries |

Why these bounds are enough: assignment of packets depends on the magazine of a
packet and on the last packet of each magazine; two magazines, two pages in one and an
unacceptable page show every pair of consecutive events. Reopening a page once
shows what stale rows do. The dates of a page depend on the page before and on
the first one; three pages show both. The merge decides on two heads, and a new slot may
cover two old ones. In `capall` one transponder has two channels, so that processes
overlap, and the other has one. A description is chosen by the time of its own programme
against those of others on the same page: two others, before and after, are on it.
Three filters are the PAT and two PMTs, so that a filter is added and removed before, at and behind
the index of the loop, and that a third service exceeds the limit.

Bounded counters: the receptions of a page, by `MaxReps` in the guard of
`ReceiveHeader` (in `stop` and `lone` the limit of 20 is far beyond the 8 headers
the statistics need); sections waiting for a filter by `QueueMax`, garbled sections by
`Garbles`; the age of a filter stops counting when it is above every timeout. The
timeouts of 2 and 30 seconds are scaled to `Timeout` = 1 and `SlowTimeout` = 3, the limits of 27
filters and 32 services to 3.

What properties exclude, and why, is said in their comments: days that a weekday or a date
without year does not tell (`Tellable`), numbers at the end of titles when no other reference is on the
page (`RefsClear`), services listed twice and VDR entries (`ListsTransponder`), services
that share a PMT PID (`Own`), two programmes at both sides of the hour skipped in spring (`AllKept`), programmes whose times
the import reads wrongly (`Told`), hints to the next programme below a date in a line of its own (`TeaserBelowDate`), temporary files
that the script could not move or whose process it did not see end (`lost`), and a script that died (`NoTmpLeft`, `TunerHeld`).
Each of these is a weakness of the code or of its input, and is listed under "hazards" in PROJECT.json
where the code could do better.

What the violated runs show is under "findings" in PROJECT.json: a documented behaviour that
the code does not have.

- `lone`: receptions are only counted when a magazine changes its page. A
  magazine with one page in parallel mode keeps the average below 4.
- `cif_concurrent`: `ttx_db_add_pkg` keeps the current page in static variables.
- `merge_expire`: programmes in the merge file expire by start time.
- `capall_crash`: `$stat >> 8` is 0 for a process killed by a signal.

What else the code does and the properties have to exclude, found while modelling:

- `ttx_db_add_pkg` has one current page for all magazines, where `TTX_ACQ` has one for each: rows of a single channel in parallel
  mode are misfiled, and so are rows after a lost header. `OwnRows` holds in serial mode without lost headers, also after a
  channel that was not so. After a change of the channel, rows that come before the first header are dropped, as
  the remembered page is not in the new database, unless it is 1F0: then they go into the BTT, and `OwnLines` starts with the first header.
- `ParseXmltvTimestamp` hands UTC to `mktime()`, as `merge.pl` does. A programme in the hour skipped in spring is
  read one hour later than it was written, so that it stays in the file when it is captured again, hides another one, or is replaced by it. (A build
  whose C library defines `_BSD_SOURCE` uses `timegm()` in the grabber.) `Stamp` models this; `FileInOrder` and `TextKept` are about
  the other programmes, `ImplementsFile` is about all.
- `capall.pl` takes the channels of a transponder off the list before it starts the second `tune_dvb`; if that cannot be started, they are
  neither captured nor reported (`dropped`). Output that `rename` cannot move stays as a temporary file (`lost`). A `fork` that fails
  ends the script, while the captures it started go on.
- On a description page with date and time of a programme in lines of their own and, below the text, the time of the next one, the date is kept
  for that time (`ttx_date.cc:770` forgets it only if it is in the same line): the next programme gets the text of the first. `OwnDescription` excludes
  this (`TeaserBelowDate`).

### Refinement

`ImplementsStore` (run `stream`, and a theorem): `TtxStream` implements `PageStore`, which knows no
magazines, packets or headers: a page is opened, and a line is only ever replaced by one
that was sent for that page. The mapping takes a page as known when the database has an
entry. It holds for services whose headers are not lost; for others it maps to the empty store and says nothing,
and `LossContained` says what can go wrong.

`ImplementsFile` (run `merge`): `XmltvMerge` implements `XmltvFile`, in which a run is one
step: the captured slots, the old programmes that, with their times as they are read, share no time with any of them, and the other
channels. The steps of the loop over the two lists map to stutters, `EndRun` to
the update; the variables of the run are reset there, so that the step is
determined by the file and the slots.

### Fairness

`FairSpec` of `TtxStream` says that every page is transmitted, and received, again
and again (weak fairness of `ReceiveHeader` for each page): a broadcaster repeats all
pages cyclically, and reception without loss is the case for which the
documentation promises the end of capture. `FairSpec` of `CapAll` says that the script and the processes
run; a capture ends because the script passes `-duration`. No fairness is
assumed of interrupts, crashes, lost packets or the end of the input.

`Spec` of `TuneDvb` has weak fairness of the program, whose `poll` returns after 25 ms at
the latest, and strong fairness of the clock. Sections need no fairness for the
scan to end, as every filter has a timeout. `timely` reception adds that each section on the air arrives
once before a second has passed, which is how the tables are broadcast (several times a second);
`ScanComplete` and `ListsTransponder` are about this case only.

## Theorems

TLAPS proves, for all values of the constants that satisfy the assumptions:

| Theorem | Says |
|---|---|
| `TypeCorrect` | `Spec => []TypeOK` of `TtxStream` |
| `RowsBelongToTheirPage` | no header lost: each row is stored under the page it was sent for |
| `OnePageOpenInSerialMode` | in serial mode at most one magazine has an open page, also with losses |
| `OpenPageIsStored` | an open page is of its own magazine and in the database |
| `PageOnAirIsOpen` | no header lost, one mode: the decimal page on the air in a magazine is the one open there, and its rows are in order |
| `LossIsContained` | any losses: a misfiled row is one of the same magazine and of a later or the same line |
| `TopTablesAreTrue` | no header lost, stable links: a TOP table holds lines of its own page |
| `ReceiverImplementsStore` | `Spec => ImplementsStore`: the refinement of `PageStore` |
| `OneChannelOwnRows` | one database at a time, serial mode, no header lost: the C interface stores rows under their own page |
| `OneChannelOwnLines` | the same: from the first header of a channel on its BTT receives its own lines only |
| `RowsHaveHeaders` | any number of databases, any mode and losses: only pages with a header have rows |
| `TmpFilesRemoved` | the only temporary files left when `capall.pl` ends or is interrupted are those `rename` or `waitpid` failed for |
| `OldFilesKept` | an XMLTV file is replaced only by complete output, or by that of a killed process |
| `TunerIsHeld` | the tuner is not moved while a process captures, unless the script dies |
| `NotedPidsAreTrue` | the scan notes no PID for a service but the one in a PMT of that service |
| `FailsOnlyWhenFull` | the scan runs out of filters only if the list has at least as many services as there are filters |
| `ServicesAreFound` | tables on the air repeated and read every second: a scan that ends has found the teletext PID of every service with a PMT of its own |
| `TuneTypes` | `Spec => []TypeOK` of `TuneDvb`: no filter is polled twice, names and services are counted together |
| `ScriptTypes` | `Spec => []TypeOK` of `CapAll`: no channel is twice in the list or among those of a transponder |
| `EveryChannelServed` | each channel has exactly one turn, is reported, or is given up with its transponder; no process is left |
| `EveryChannelCaptured` | `tune_dvb` can be started: each channel is captured or reported |
| `FilesStayInOrder` | `EndsAfterStart`: no two programmes of a channel overlap in the file, if their times are read as written |
| `FilesStayImportable` | the next run can read every programme of a file |
| `RunsUpdateTheFile` | `EndsAfterStart`: `Spec => ImplementsFile`, the refinement of `XmltvFile`, with times as they are read |
| `TextIsKept` | `EndsAfterStart`: a programme captured again keeps its title and loses no description |
| `SlotsAreDated` | `Spec => []TypeOK` of `OvSchedule`: pages and slots that reach the filters are dated |
| `ScheduleHasNoOverlap` | what the filters keep is in order and does not overlap, whatever the pages said |
| `StartTimesAreTrue` | dates can be told: start times are those of the broadcaster, also with pages missing |
| `StopTimesAreTrue` | so are stop times, or they are not known |
| `NothingIsLost` | all pages received as well: each programme that is not over and whose next one is near is left once |

`RowsBelongToTheirPage`: that stored rows are right is not inductive, as the next row
goes where `cur_page` says. The inductive invariant adds `OpenIsOnAir`: a page open in a
magazine is the page on the air there. `AcceptHeader` establishes it,
`RejectHeader`, `RowOutOfOrder` and the serial rule keep it as they only close pages. It does
not say that the page on the air is open: this is `OnAirPageOpen`.

`PageOnAirIsOpen` needs that a service keeps to one mode. `ModeInv` says why the serial rule
never closes the page on the air: in parallel mode it does not apply, and in serial mode there is
one page on the air, whose header was the last one accepted. `FollowsAir` says that the last row
received is not after the last one sent, so that a row in order is never taken for one out of order.

`LossIsContained` follows from `OpenPageKnown`, `SerialOneOpen` and that a page is sent in its own
magazine. `TopTablesAreTrue` needs `LinksOfBtt`, that the links come from a line of the BTT or are not
known, in which case no line can be in the other tables.

`TmpFilesRemoved`, `OldFilesKept` and `TunerIsHeld` share `CapInv`, which says what the script knows of the
processes at each point: none exist between transponders, and while it forks and waits every process is in `pids`
and its file in `SigTmps`. Files in `lost` are excepted; of a script that died it says nothing. For the third the tuner is free to move only when `pids` is empty.

`ReceiverImplementsStore` uses the same invariant and that the page a row is filed under has an
entry: each packet is a step `Open`, a step `Keep` or a stutter of the store.

`OnePageOpenInSerialMode` needs that serial mode was announced by the header that
opened the only open page (`SerialInv`); `OpenPageIsStored` is inductive with `TypeOK`.

`OneChannelOwnRows` and `OneChannelOwnLines`: the static page may belong to a database that is gone. The invariant
`CifInv` says that, once a header of a channel in serial mode without losses was stored, the page on the air is the current page, or is not
acceptable, so that its rows are filtered. It needs that one page is on the air, and that the caller's page number is that of its header once one was received;
both fail in parallel mode or when headers are lost. Before the first header of a channel the current page is in no database, so that rows go
nowhere, unless it is 1F0, of which `OneChannelOwnLines` therefore speaks from the first header on. `RowsHaveHeaders` needs none of this.

`NotedPidsAreTrue`: that noted PIDs are true depends on the sections still waiting in the
device and on the service list. The invariant `PidsInv` adds `QueuesInv`, that each waiting section
is one the broadcaster has on the air in some version or is unusable and that poll reports only
filters that are set, and `ServicesInv`, that the entries of the list are services and their PIDs true.
It needs nothing about the order of sections, the filters or the timing.

`FailsOnlyWhenFull`: `FiltersInv` says that no filter is in the list twice, though entries are
removed and added while the loop over it runs, so that it has at most one for each service and one for the
PAT. `ScanInv` adds that services are added to the list only before the scan. `TuneTypes` follows
from both, `PidsTyped` and `NamesInv`; for the names the invariant is that each turn of `-P` appends to both lists or
to none.

`EveryChannelServed`: `TurnsOk` says where a channel is: in the list, among those of the transponder, started,
reported or given up, in exactly one of the five. It is inductive only with the converse of a guard: the channel that
was asked for is still the head of the list when no line of `tune_dvb` matched, so that the one reported is that one.
`FilesTyped` is what `ScriptTypes` needs besides.

`FilesStayInOrder`, `FilesStayImportable`, `RunsUpdateTheFile` and `TextIsKept` share one invariant. Between
runs, `FileInv` is enough. During a run the file says nothing of the two lists and of what was
written, and `MergeInv` relates them (`Progress`): of the slots captured those not in `new`
any more are written, each with the text of all the programmes it overlaps; of the programmes read those not in
`old` any more are written just if they overlap no captured slot; the slot at the head of `new` has the
text of those already discarded; and nothing left in `old` starts before the end of a slot written. Each turn of
the loop keeps this (`DiscardOldStep`, `ChooseOldStep`, `ChooseNewStep`, `OnlyOldStep`), and when both lists are
empty it says that the file is the update of `XmltvFile`. The entries are in the order of the times as they were read, of which no two are the
same (`DistinctKeys`); that they are those written is nowhere needed but in the two properties that speak of programmes in the file. `EndsAfterStart` is a
hypothesis of three of the theorems: a slot that ends before it starts and the one behind it need not displace what they overlap together. That files stay in order, and `TextIsKept`, are then
proved of that one step (`UpdateKeepsOrder`, `MergedWith`).

`SlotsAreDated` and `ScheduleHasNoOverlap`: `PagesInv` says that the pages in front of `idx` are dated, also when
the page at `idx` is erased and the index stays. `FilterInv` says of two adjacent lists, what is kept and
what is to come, that each slot follows those before it; the second filter, which goes by stop times,
needs that nothing kept overlaps what it has not looked at. That the slots come sorted is a lemma about the set of places listed
in order (`Listing`, `SortedSlotsAscend`).

`StartTimesAreTrue` and `StopTimesAreTrue`: that the times found so far are true is not inductive. The date of a page is
calculated from the page before it in the list, as far as the program can tell that this is the page before it on the air.
`TimesInv` therefore says, for services whose days can be told (`Datable`), which page of the service each entry of the
list is, that slots removed were removed at its end (`OriginInv`), and that the pages not read yet are behind
it (`WaitingInv`). `RepetitionInv` says what is removed: when the next page repeats the last slot of a page, this one is gone
from the first of them when both are dated, and only then, as the stop time of the one is the start
of the other. `BroadcastInv` says that with the date of the broadcast day no page is missing.
The central lemmas are `AdjacentPages` (the program takes two pages as adjacent just if none is between them on the air),
`FirstDate` and `NextDate` (`calc_date_off` returns the true date) and `TrueStopTime`.

`ServicesAreFound`: `ScanComplete` says nothing of the filters that are open while the scan runs. `CompleteInv` does (`InHand`):
a service that is wanted is known already, or its own filter is open and waits for the one section that has its PMT (`PmtOpen`), or
it had no filter yet and that of the PAT is open and will name it (`PatOpen`: the services that the sections read so far name
have filters, and a section is missing). Each of these filters must not time out before. Its age is bounded (`InTime`) by
the number of garbled sections, and one second if it was opened in the middle of one, less one if it missed a section in this second already: `Second`
needs everything on the air to have been sent and read, so that a filter which is still open missed one. A change of the PAT costs no time at all, as sections wait in the order
they were sent in (`PatQueue`) and those of the new version come after it. A garbled section first makes the filter wait longer
and counts then, which is why `InTime` looks into the queue.
For each handler it is shown that the rest of the turn keeps this (`ConcludeState`): a filter that is done has served
its purpose, and one that has not is not dropped (`OpenInTime`).

`NothingIsLost` needs a second invariant, `WholeInv`, which follows a programme through the passes. When every page was
received, each is at its own place in the list (`PagesThere`): none is taken for a copy of the sub-page before it, and none is
erased, as the page its date may come from is there (`DateFound`). The last page loses no slot (`LastPageWhole`), so
each programme has a slot on the last page that begins with it or with an earlier one (`ProgrammePlaced`). Where the next programme is near,
its stop time is found (`NearStop`, `StopsThere`). `OverlapInv` then says that each programme is in what is kept or in what is
still to be looked at, other than as one of the tips: a slot is dropped only while the last one kept still runs, which then is of
the same programme, and slots of the tips come too late, as they sort behind those of the overview (`SlotLookedAt`). It excludes services
of a single programme, of which the tips may be kept instead. `ExpireInv` says the same of the second filter.

Assumptions on the constants, all of them checked by TLC for the values of the runs:

- `ScheduleAssumption`: start times ascend, a layout has pages or sub-pages that follow each other, and the page of tips
  is behind all others.
- `MergeAssumption`: the slots of a capture are sorted by their start and none ends after the next one starts, which is what
  `FilterOverlappingSlots` leaves; a slot with a description has a reference. That each ends after it starts (`EndsAfterStart`)
  is no assumption but a hypothesis of the theorems that need it, as a page whose minutes go back may violate it.
- `GapAssumption`: the hour skipped is any set of times, moved by any amount.
- `CapAllAssumption`: finitely many channels, each with a transponder.
- `ScanAssumption`, `TuneAssumption`: limits and timeouts in the order of those in the code; channels.conf, PAT and PMTs are sequences of
  entries with numbers. Nothing is assumed of what they say.
- `TimelyAssumption`, for the setups with `timely` reception only: the PAT has a PID of its own, a service has one PMT and an ID other than zero,
  a filter waits a second at least (2 in the code) and one more than sections are garbled once one was (30 in the code).
- `AcqAssumption`, `StreamAssumption`, `CifAssumption`: page, sub-page and row numbers in the range of the packet format.

### Only model-checked

- `CaptureEnds`, `Finishes` and `ComesToEnd`: liveness under fairness is beyond the prover.
- `ListsTransponder`: the list that is printed is selected by `SelectSeq`, of which the prover knows nothing; that the PIDs in it
  are known follows from `ServicesAreFound`.
- `MergedFilesKept` and `MergedFilesSound`: `merge.pl` is a fold over files and programmes, and what a fold
  computes for every input takes induction over data.
- All of `DescPages`, which is made of folds over lines and sub-pages for the same reason.

## What is not modelled

- Contents of packets and pages: parity and Hamming decoding, the character sets,
  regular expressions for titles, times and features, comparison of titles letter by letter. These are
  functions without state on strings; a model would repeat their regular expressions. What they find
  is an input of the models.
- Calendar and daylight saving time: every day has 24 hours, a year is a number of days. Only the hour skipped in spring is modelled, where
  time stamps of files are read.
- `OvSchedule`: the case of a missing last sub-page without the BTT: the program cannot notice it, and takes the pages around
  it for adjacent. Pages with the date of the broadcast day can be dated a day off when a page is
  missing. `Datable` excludes both.
- Slots that end before they start (minutes that go back within an hour on a page): they do not
  hide duplicates of themselves in `FilterOverlappingSlots`; `NoOverlap` excludes them, and so does `EndsAfterStart` for the merge.
- `CheckMissingPages` is not called by any other part of the program at this commit; the model calls it at the end, so that
  `MissingListed` is about a function that stands ready. Its assertion that no page is empty is not modelled. `SubPages` ends where the code compares with the entry behind the last page of the
  database.
- `tune_dvb`: a VDR entry with frequency 0 makes the loop in `ParseChannelEntry` run for ever; `Hz` has no value for it, and the
  run has none. Failures of the demux device (`open`, `ioctl`), at which the program exits, are left out of the scan.
- The AIT is modelled like the other TOP tables, but the run `stream` links an MPT only.
- `CapAll` and `MergePl` are not composed: `system "./merge.pl ..."` is the last line of the script.
- Feature flags (`ttx_feat.cc`): a table of expressions, on which nothing but the output depends.
- Raw dumps and text dumps, the file source, libzvbi, CNI packets, command lines, XML syntax; in
  `tune_dvb` the parameters of the device and the loop that reads packets for `-v`.
- `merge.pl`: files with channels that only an earlier file declares; the grabber writes none.

## Plan

1. Done: all modules above, both refinements, thirty theorems.
2. Theorems next: the parts of `DescPages` that are not folds.
3. Models next: the packet source with truncated files, `ttx_db_add_cni` and the
   choice of the channel by CNI and page header, a composition of `CapAll` with `TuneDvb`.
