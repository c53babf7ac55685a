----------------------------- MODULE ScanPatPmt -----------------------------
(***************************************************************************)
(* The PAT/PMT scan of util/scan_pat_pmt.c: one section filter on the PAT, *)
(* one more on the PMT of every service the PAT names and the caller asked *)
(* for, all served by a single poll() loop.  A filter is closed when all   *)
(* sections of its table were read or when its time is over.               *)
(*                                                                         *)
(* The loop is modelled at the grain the code interleaves with the         *)
(* broadcast: one step per poll() and one step per entry of the poll       *)
(* arrays; sections arrive and seconds pass in between.  update_poll_fds() *)
(* rebuilds the arrays from the list at every change of the list, so they  *)
(* are the list `running', and the revents it clears are the set `revents'.*)
(***************************************************************************)
EXTENDS Integers, Sequences, FiniteSets, FiniteSetsExt, SequencesExt

CONSTANTS
  MaxRunning,     \* MAX_RUNNING: filters open at a time
  Timeout,        \* seconds a filter waits (setup_filter)
  SlowTimeout,    \* seconds it waits once a section was garbled (parse_section)
  PidPat,         \* PID_PAT
  QueueMax,       \* bound: sections the demux device holds for one filter
  Garbles         \* bound: sections garbled in one scan

ASSUME ScanAssumption ==
  /\ MaxRunning \in Nat \ {0}
  /\ Timeout \in Nat /\ SlowTimeout \in Nat /\ Timeout < SlowTimeout
  /\ QueueMax \in Nat \ {0} /\ Garbles \in Nat

VARIABLES
  srv,        \* the caller's list: sequence of [service_id, ttx_pid]
  services,   \* current_services: sequence of [service_id, teletext_pid, priv]
  filter,     \* section buffers: 0 is the PAT's, k the one of services[k]
  running,    \* running_filters: sequence of indices of `filter'
  revents,    \* entries of the poll array whose revents are set
  turn,       \* 0: at poll(), else the loop index of read_filters()
  scan,       \* "idle", "scan", "scanned" or "failed" (exit in add_filter)
  tp,         \* what is on air: record [pat, pmt], see Air
  patVersion, \* version of the PAT on air
  timely,     \* all sections are repeated every second and read at once
  queue,      \* demux device: sections waiting for each filter
  sent,       \* sections broadcast in this second (kept when timely)
  garbled     \* sections garbled so far

scanVars == <<srv, services, filter, running, revents, turn, scan, tp,
              patVersion, timely, queue, sent, garbled>>

-----------------------------------------------------------------------------
(* What is on air.                                                         *)

\* Section n of the PAT: entries [sid, pid]; tp.pat[v] is a sequence of them.
PatSection(v, n) ==
  [table |-> "PAT", ext |-> 0, version |-> v, number |-> n - 1,
   last |-> Len(tp.pat[v]) - 1, entries |-> tp.pat[v][n], streams |-> <<>>]

\* The PMT of a service; tp.pmt[pid][sid] lists its streams [type, pid].
PmtSection(pid, sid) ==
  [table |-> "PMT", ext |-> sid, version |-> 1, number |-> 0, last |-> 0,
   entries |-> <<>>, streams |-> tp.pmt[pid][sid]]

Air(pid) ==
  IF pid = PidPat
  THEN {PatSection(patVersion, n) : n \in DOMAIN tp.pat[patVersion]}
  ELSE IF pid \in DOMAIN tp.pmt
       THEN {PmtSection(pid, sid) : sid \in DOMAIN tp.pmt[pid]}
       ELSE {}

\* A section with a wrong CRC, or a short read or one of another table.
Bad(kind) == [table |-> kind]

-----------------------------------------------------------------------------
(* Filters.                                                                *)

\* setup_filter() and start_filter(): `age' is time() minus start_time.
NewFilter(pid, table) ==
  [pid |-> pid, table |-> table, ext |-> -1, version |-> -1, done |-> {},
   timeout |-> Timeout, age |-> 0]

\* find_service(): index of the first service with the ID, or 0.
FindService(id) ==
  LET found == {k \in DOMAIN services : services[k].service_id = id}
  IN  IF found = {} THEN 0 ELSE Min(found)

\* UnlinkItem()
Without(s, f) == RemoveAt(s, Min({i \in DOMAIN s : s[i] = f}))

\* mutant: no time limit for the PMT
TimedOutPat(fl) == fl.table = "PAT" /\ fl.age > fl.timeout

TimedOut(fl) == fl.age > fl.timeout

\* mutant: sections read before a change still count
FreshKeepsDone(fl, sec) ==
  [fl EXCEPT !.ext = sec.ext, !.version = sec.version]

\* parse_section(): another version or another table forgets what was read.
Fresh(fl, sec) ==
  IF fl.version # sec.version \/ fl.ext # sec.ext
  THEN [fl EXCEPT !.ext = sec.ext, !.version = sec.version, !.done = {}]
  ELSE fl

\* ... the section is noted in section_done ...
Noted(fl, sec) ==
  [Fresh(fl, sec) EXCEPT !.done = @ \union {sec.number}]

AlreadyRead(fl, sec) == sec.number \in Fresh(fl, sec).done

\* ... and the filter is done with sections 0..last_section_number.
Done(fl, sec) == 0..sec.last \subseteq Noted(fl, sec).done

\* mutant: the poll arrays keep their events when they are rebuilt
EventsLeftStale(rebuilt, f, rev) == rev

\* Events not looked at yet after the turn of f; update_poll_fds() clears them.
EventsLeft(rebuilt, f, rev) == IF rebuilt THEN {} ELSE rev \ {f}

\* Rest of the loop body of read_filters(): a filter that is done or timed out
\* is removed and its device closed, which shifts the entries behind it (the
\* next one is not looked at in this turn) and clears the revents of all.
Conclude(f, done, fls, run, rev, q) ==
  LET drop == done \/ TimedOut(fls[f])
      left == IF drop THEN Without(run, f) ELSE run
  IN  /\ filter' = fls
      /\ queue' = IF drop THEN [q EXCEPT ![f] = <<>>] ELSE q
      /\ running' = left
      /\ revents' = EventsLeft(drop, f, rev)
      /\ turn' = IF turn + 1 <= Len(left) THEN turn + 1 ELSE 0
      /\ scan' = IF left = <<>> THEN "scanned" ELSE "scan"

-----------------------------------------------------------------------------
(* The scan.                                                               *)

\* scan_pat_pmt() up to its loop.
StartScan ==
  /\ services' = [k \in DOMAIN srv |->
       [service_id |-> srv[k].service_id, teletext_pid |-> 0, priv |-> FALSE]]
  /\ filter' = [k \in 0..Len(srv) |-> NewFilter(PidPat, "PAT")]
  /\ queue' = [k \in 0..Len(srv) |-> <<>>]
  /\ running' = <<0>>
  /\ scan' = "scan"
  /\ revents' = {}
  /\ UNCHANGED <<srv, turn, tp, patVersion, timely, sent, garbled>>

\* read_filters(): poll().
Poll ==
  /\ scan = "scan" /\ turn = 0
  /\ revents' = {f \in DOMAIN queue : f \in ToSet(running) /\ queue[f] # <<>>}
  /\ turn' = 1
  /\ UNCHANGED <<srv, services, filter, running, scan, tp, patVersion, timely,
                 queue, sent, garbled>>

Turn(f) == scan = "scan" /\ turn \in DOMAIN running /\ f = running[turn]

\* read_filters(): no event for this entry, only the time is looked at.
NoEvent(f) ==
  /\ Turn(f) /\ f \notin revents
  /\ Conclude(f, FALSE, filter, running, revents, queue)
  /\ UNCHANGED <<srv, services, tp, patVersion, timely, sent, garbled>>

\* read_sections(): read() takes the oldest section off the device.
Reads(f, sec) ==
  /\ Turn(f) /\ f \in revents
  /\ queue[f] # <<>> /\ sec = Head(queue[f])
  /\ UNCHANGED <<srv, tp, patVersion, timely, sent, garbled>>

Taken(f) == [queue EXCEPT ![f] = Tail(@)]

\* A short read or a section of another table.
ReadUnusable(f) == \E sec \in ToSet(queue[f]) :
  /\ Reads(f, sec) /\ sec.table = "unusable"
  /\ Conclude(f, FALSE, filter, running, revents, Taken(f))
  /\ UNCHANGED services

\* parse_section(): the CRC does not match.
ReadGarbled(f) == \E sec \in ToSet(queue[f]) :
  /\ Reads(f, sec) /\ sec.table = "garbled"
  /\ Conclude(f, FALSE, [filter EXCEPT ![f].timeout = Max({@, SlowTimeout})],
              running, revents, Taken(f))
  /\ UNCHANGED services

\* parse_section(): nothing new in this section.
ReadRepeated(f) == \E sec \in ToSet(queue[f]) :
  /\ Reads(f, sec) /\ sec.table = filter[f].table
  /\ AlreadyRead(filter[f], sec)
  /\ Conclude(f, Done(filter[f], sec), [filter EXCEPT ![f] = Noted(@, sec)],
              running, revents, Taken(f))
  /\ UNCHANGED services

\* parse_pat(): services of the list that the section names, in the order of
\* their first entries.
Named(sec) ==
  {FindService(e.sid) : e \in {e \in ToSet(sec.entries) : e.sid # 0}} \ {0}

FirstEntry(sec, k) ==
  Min({n \in DOMAIN sec.entries : sec.entries[n].sid = services[k].service_id})

InOrder(sec, S) ==
  [n \in 1..Cardinality(S) |->
    CHOOSE k \in S :
      Cardinality({j \in S : FirstEntry(sec, j) < FirstEntry(sec, k)}) = n - 1]

\* mutant: a filter is added whether the service has one or not
NewPmtsAlways(sec) == InOrder(sec, Named(sec))

\* A filter for every one that has none yet, on the PID of its first entry.
NewPmts(sec) == InOrder(sec, {k \in Named(sec) : ~services[k].priv})

PmtPid(sec, k) == sec.entries[FirstEntry(sec, k)].pid

ReadPat(f) == \E sec \in ToSet(queue[f]) :
  LET new == NewPmts(sec) IN
  /\ Reads(f, sec) /\ sec.table = "PAT" /\ filter[f].table = "PAT"
  /\ ~AlreadyRead(filter[f], sec)
  /\ Len(running) + Len(new) <= MaxRunning
  /\ services' = [k \in DOMAIN services |->
                   [services[k] EXCEPT !.priv = @ \/ k \in ToSet(new)]]
  /\ Conclude(f, Done(filter[f], sec),
       [g \in DOMAIN filter |->
         IF g = f THEN Noted(filter[f], sec)
         ELSE IF g \in ToSet(new) THEN NewFilter(PmtPid(sec, g), "PMT")
         ELSE filter[g]],
       running \o new, IF new = <<>> THEN revents ELSE {}, Taken(f))

\* start_filter(), add_filter(): too many filters, the program exits.  (It
\* also does when the demux device fails; here the device works.)
TooManyFilters(f) == \E sec \in ToSet(queue[f]) :
  /\ Reads(f, sec) /\ sec.table = "PAT" /\ filter[f].table = "PAT"
  /\ ~AlreadyRead(filter[f], sec)
  /\ Len(running) + Len(NewPmts(sec)) > MaxRunning
  /\ scan' = "failed"
  /\ UNCHANGED <<services, filter, running, revents, turn, queue>>

\* parse_pmt(): the PID of the last stream with a teletext descriptor.
TeletextPid(streams, before) ==
  LET ttx == {n \in DOMAIN streams : streams[n].type = "teletext"}
  IN  IF ttx = {} THEN before ELSE streams[Max(ttx)].pid

\* mutant: the section is taken for the one of the service the filter is for
AddressedByFilter(f, sec) == f

\* The service a PMT section belongs to, whichever filter read it.
Addressed(f, sec) == FindService(sec.ext)

ReadPmt(f) == \E sec \in ToSet(queue[f]) :
  /\ Reads(f, sec) /\ sec.table = "PMT" /\ filter[f].table = "PMT"
  /\ ~AlreadyRead(filter[f], sec)
  /\ services' = [k \in DOMAIN services |->
       IF k = Addressed(f, sec)
       THEN [services[k] EXCEPT !.teletext_pid = TeletextPid(sec.streams, @)]
       ELSE services[k]]
  /\ Conclude(f, Done(filter[f], sec), [filter EXCEPT ![f] = Noted(@, sec)],
              running, revents, Taken(f))

ReadFilters ==
  \/ Poll
  \/ \E f \in ToSet(running) :
       \/ NoEvent(f) \/ ReadUnusable(f) \/ ReadGarbled(f) \/ ReadRepeated(f)
       \/ ReadPat(f) \/ TooManyFilters(f) \/ ReadPmt(f)

\* scan_pat_pmt() after its loop: of services with the same ID, the last one
\* determines the PID of all list entries with that ID.
Result(k) ==
  LET same == {i \in DOMAIN services : services[i].service_id = srv[k].service_id}
  IN  [srv[k] EXCEPT !.ttx_pid = services[Max(same)].teletext_pid]

ReportPids ==
  /\ srv' = [k \in DOMAIN srv |-> Result(k)]
  /\ UNCHANGED <<services, filter, running, revents, turn, tp, patVersion,
                 timely, queue, sent, garbled>>

-----------------------------------------------------------------------------
(* The environment.                                                        *)

Listening(pid) == {f \in ToSet(running) : filter[f].pid = pid}

Arrives(pid, sec) ==
  /\ \A f \in Listening(pid) : Len(queue[f]) < QueueMax
  /\ queue' = [f \in DOMAIN queue |->
                IF f \in Listening(pid) THEN Append(queue[f], sec) ELSE queue[f]]
  /\ UNCHANGED <<srv, services, filter, running, revents, turn, scan, tp,
                 patVersion, timely>>

\* The broadcaster repeats its sections; when timely, each once a second.
Transmit == scan = "scan" /\ \E pid \in {filter[f].pid : f \in ToSet(running)} :
  \E sec \in Air(pid) \ sent :
    /\ sent' = IF timely THEN sent \union {sec} ELSE {}
    /\ \/ /\ Arrives(pid, sec)
          /\ UNCHANGED garbled
       \/ /\ garbled < Garbles
          /\ garbled' = garbled + 1
          /\ Arrives(pid, Bad("garbled"))
       \/ /\ ~timely /\ garbled < Garbles
          /\ garbled' = garbled + 1
          /\ Arrives(pid, Bad("unusable"))

\* The broadcaster changes its PAT.
UpdatePat ==
  /\ scan = "scan" /\ patVersion < Len(tp.pat)
  /\ patVersion' = patVersion + 1
  /\ UNCHANGED <<srv, services, filter, running, revents, turn, scan, tp,
                 timely, queue, sent, garbled>>

\* A second passes.
Second ==
  /\ scan = "scan"
  /\ timely => /\ turn = 0
               /\ \A f \in ToSet(running) :
                    queue[f] = <<>> /\ Air(filter[f].pid) \subseteq sent
  /\ filter' = [f \in DOMAIN filter |->
                 IF f \in ToSet(running)
                 THEN [filter[f] EXCEPT !.age = Min({@ + 1, SlowTimeout + 1})]
                 ELSE filter[f]]
  /\ sent' = {}
  /\ UNCHANGED <<srv, services, running, revents, turn, scan, tp, patVersion,
                 timely, queue, garbled>>

Environment == Transmit \/ UpdatePat \/ Second

=============================================================================
