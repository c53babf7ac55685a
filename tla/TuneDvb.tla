------------------------------ MODULE TuneDvb -------------------------------
(***************************************************************************)
(* util/tune_dvb.c: looks up a channel in channels.conf, tunes the DVB     *)
(* front-end and prints the teletext PID of the channel (-p), those of all *)
(* channels on its transponder (-P), or holds the tuner.  PIDs the file    *)
(* does not give are scanned for (module ScanPatPmt).                      *)
(*                                                                         *)
(* A line of channels.conf is a record with the fields the program looks   *)
(* at and `format', which stands for the number of fields and the form of  *)
(* the third one: "VDR" or one of the MPlayer formats "C", "S", "T2"; any  *)
(* other count is "malformed".  Names are model values.                    *)
(***************************************************************************)
EXTENDS ScanPatPmt

CONSTANTS
  Setups,    \* what may be found at the start: records of conf, the lines of
             \* channels.conf, the channel and the option ("p", "P", "v", "x"
             \* or "hold") of the command line, the transponder on air and
             \* whether it is received in a timely way
  MaxSrv     \* size of srvList

\* PIDs are numbers; there is a PAT, a sequence of sections in each version.
ASSUME TuneAssumption == \A s \in Setups :
  /\ s.conf \in Seq(ToSet(s.conf))
  /\ \A l \in ToSet(s.conf) : l.format = "VDR" => l.ttx \in Nat
  /\ s.tp.pat \in Seq(Seq(Seq([sid : Nat, pid : Nat]))) /\ s.tp.pat # <<>>
  /\ \A p \in DOMAIN s.tp.pmt : \A id \in DOMAIN s.tp.pmt[p] :
       s.tp.pmt[p][id] \in Seq([type : STRING, pid : Nat])

\* A transponder that is received in a timely way has a PID of its own for the
\* PAT and one PMT for each service.  So few sections are garbled that none is
\* missing for longer than a filter waits: each of them costs a second, and so
\* does a filter opened in the middle of one.
ASSUME TimelyAssumption == \A s \in Setups : s.timely =>
  /\ PidPat \notin DOMAIN s.tp.pmt
  /\ \A p, q \in DOMAIN s.tp.pmt :
       \A id \in DOMAIN s.tp.pmt[p] \intersect DOMAIN s.tp.pmt[q] : id # 0 /\ p = q
  /\ 1 <= Timeout /\ Garbles + 1 <= SlowTimeout

VARIABLES
  conf, chan, opt,  \* the file and the command line
  main,             \* place in main()
  freq,             \* freq_par of the channel asked for
  names,            \* chn_name
  line,             \* position of FilterChannelFreq() in the file
  tuned,            \* parameters programmed into the front-end
  out               \* lines printed: [pid, name]

tuneVars == <<conf, chan, opt, main, freq, names, line, tuned, out>>
vars == <<scanVars, tuneVars>>

-----------------------------------------------------------------------------
(* Parsing a line of channels.conf.                                        *)

Norms == {"C", "S", "S2", "T", "T2"}

\* ParseVdrChannelParams(): values known for each letter that takes one; those
\* of 'D' are not looked at.
VdrValues ==
  [M |-> {2, 5, 6, 7, 10, 11, 12, 16, 32, 64, 128, 256, 998, 999},
   B |-> {8, 7, 6, 5, 10, 1712, 999},
   T |-> {2, 8, 4, 1, 16, 32, 999},
   I |-> {0, 1, 999},
   C |-> {0, 12, 23, 25, 34, 35, 45, 56, 67, 78, 89, 910, 999},
   G |-> {32, 16, 8, 4, 128, 19128, 19256, 999},
   Y |-> {0, 1, 2, 4, 999},
   S |-> {0, 1}]

NoValue == {"H", "V", "R", "L", " "}

\* par is a sequence of [op, val], val = -1 when no digits follow.
VdrParamOk(p) ==
  \/ p.op \in NoValue
  \/ p.op = "D" /\ p.val >= 0
  \/ p.op \in DOMAIN VdrValues /\ p.val \in VdrValues[p.op]

ParseVdrChannelParams(par) == \A n \in DOMAIN par : VdrParamOk(par[n])

\* 'S1' turns DVB-S and DVB-T into their second generation.
VdrNorm(l) ==
  LET base == IF l.source \in {"C", "T"} THEN l.source ELSE "S"
      next == \E n \in DOMAIN l.par : l.par[n].op = "S" /\ l.par[n].val = 1
  IN  CASE base = "S" /\ next -> "S2" [] base = "T" /\ next -> "T2" [] OTHER -> base

\* Frequencies in MHz or kHz are converted to Hz.  For a frequency of zero the
\* loop of the program does not end: no value.
Hz(f) == LET scale == CHOOSE k \in {1, 1000, 1000000, 1000000000} :
                        /\ f * k > 1000000
                        /\ k = 1 \/ f * (k \div 1000) <= 1000000
         IN  f * scale

\* ParseMplayer...(): names known to each conversion.
Inversions == {"INVERSION_AUTO", "INVERSION_OFF", "INVERSION_ON"}
Coderates == {"FEC_AUTO", "FEC_NONE", "FEC_2_5", "FEC_1_2", "FEC_3_5", "FEC_2_3",
              "FEC_3_4", "FEC_4_5", "FEC_5_6", "FEC_6_7", "FEC_7_8", "FEC_8_9",
              "FEC_9_10"}
Modulations == {"QAM_AUTO", "QPSK", "QAM_16", "QAM_32", "QAM_64", "QAM_128",
                "QAM_256", "VSB_8", "VSB_16", "PSK_8", "APSK_16", "APSK_32",
                "DQPSK", "QAM_4_NR"}
Bandwidths == {"BANDWIDTH_AUTO", "BANDWIDTH_8_MHZ", "BANDWIDTH_7_MHZ",
               "BANDWIDTH_6_MHZ", "BANDWIDTH_5_MHZ", "BANDWIDTH_10_MHZ",
               "BANDWIDTH_1_712_MHZ"}
TransmissionModes == {"TRANSMISSION_MODE_" \o m :
  m \in {"AUTO", "1K", "2K", "4K", "8K", "16K", "32K", "C1", "C3780"}}
GuardIntervals == {"GUARD_INTERVAL_" \o g :
  g \in {"AUTO", "1_32", "1_16", "1_8", "1_4", "1_128", "19_128", "19_256",
         "PN420", "PN595", "PN945"}}
Hierarchies == {"HIERARCHY_" \o h : h \in {"AUTO", "NONE", "1", "2", "4"}}

\* The fields that are read as numbers (for DVB-T2 the FEC is one) have to be.
MplayerOk(l) ==
  l.numeric /\
  CASE l.format = "C"  -> /\ l.inversion \in Inversions
                          /\ l.fec \in Coderates
                          /\ l.modulation \in Modulations
    [] l.format = "S"  -> TRUE
    [] l.format = "T2" -> /\ l.inversion \in Inversions
                          /\ l.bandwidth \in Bandwidths
                          /\ l.modulation \in Modulations
                          /\ l.transmission \in TransmissionModes
                          /\ l.guard \in GuardIntervals
                          /\ l.hierarchy \in Hierarchies
    [] OTHER -> FALSE

\* ParseChannelEntry(): radio channels (no video PID) are not wanted.  The
\* service ID of a VDR entry is taken from the field of the symbol rate.
ParseChannelEntry(l) ==
  IF l.format = "VDR"
  THEN [ok |-> l.video # 0 /\ ParseVdrChannelParams(l.par),
        norm |-> VdrNorm(l), freq |-> Hz(l.freq),
        serviceId |-> l.symbolRate, ttxPid |-> l.ttx]
  ELSE IF l.format \in {"C", "S", "T2"}
  THEN [ok |-> l.video # 0 /\ MplayerOk(l),
        norm |-> l.format, freq |-> l.freq, serviceId |-> l.sid, ttxPid |-> 0]
  ELSE [ok |-> FALSE, norm |-> "C", freq |-> 0, serviceId |-> 0, ttxPid |-> 0]

\* GetChannelConf(): the first line with the name, whether it can be used or not.
GetChannelConf(name) ==
  LET at == {n \in DOMAIN conf : conf[n].name = name}
  IN  IF at = {} THEN [ok |-> FALSE] ELSE ParseChannelEntry(conf[Min(at)])

\* FilterChannelFreq(): the next line with the frequency, or past the end.
FilterChannelFreq(from, f) ==
  LET at == {n \in from..Len(conf) :
               LET p == ParseChannelEntry(conf[n]) IN p.ok /\ p.freq = f}
  IN  IF at = {} THEN Len(conf) + 1 ELSE Min(at)

\* tune(): what is programmed into the front-end.
FrontEnd(p) == [system |-> "SYS_DVB" \o p.norm, freq |-> p.freq]
Untuned == [system |-> "none", freq |-> 0]

-----------------------------------------------------------------------------
(* main()                                                                  *)

Exit(code) == main' = IF code = 0 THEN "ok" ELSE "error"

\* srvList[0] is the channel itself; -P goes on to collect the others.
FindChannel ==
  LET p == GetChannelConf(chan) IN
  /\ main = "start"
  /\ IF p.ok
     THEN /\ freq' = p
          /\ srv' = <<[service_id |-> p.serviceId, ttx_pid |-> p.ttxPid]>>
          /\ main' = CASE opt = "P" -> "collect"
                       [] opt = "p" /\ p.ttxPid # 0 -> "print"
                       [] OTHER -> "tune"
     ELSE Exit(1) /\ UNCHANGED <<freq, srv>>
  /\ UNCHANGED <<services, filter, running, revents, turn, scan, tp, patVersion,
                 timely, queue, sent, garbled,
                 conf, chan, opt, names, line, tuned, out>>

NeedPatPmt == \E k \in DOMAIN srv : srv[k].ttx_pid = 0

\* mutant: names and services are counted separately
NamesAlways(name, other) == Append(names, name)

\* chn_name[srvCnt]: overwritten by the next channel unless this one is kept.
Names(name, other) == IF other THEN Append(names, name) ELSE names

CollectChannel ==
  LET n == FilterChannelFreq(line, freq.freq) IN
  /\ main = "collect"
  /\ IF Len(srv) < MaxSrv /\ n <= Len(conf)
     THEN LET p == ParseChannelEntry(conf[n])
              other == p.serviceId # srv[1].service_id
          IN  /\ srv' = IF other
                        THEN Append(srv, [service_id |-> p.serviceId,
                                          ttx_pid |-> p.ttxPid])
                        ELSE srv
              /\ names' = Names(conf[n].name, other)
              /\ line' = n + 1
              /\ UNCHANGED main
     ELSE /\ main' = IF NeedPatPmt THEN "tune" ELSE "print"
          /\ UNCHANGED <<srv, names, line>>
  /\ UNCHANGED <<services, filter, running, revents, turn, scan, tp, patVersion,
                 timely, queue, sent, garbled, conf, chan, opt, freq, tuned, out>>

\* The scan starts if the PID of the channel (or of one in the list) is missing.
Tune ==
  /\ main = "tune"
  /\ tuned' = FrontEnd(freq)
  /\ IF NeedPatPmt
     THEN StartScan /\ main' = "scan"
     ELSE main' = "tuned" /\ UNCHANGED scanVars
  /\ UNCHANGED <<conf, chan, opt, freq, names, line, out>>

\* -q only adds a report of the current parameters.
TuneFails ==
  /\ main = "tune"
  /\ IF opt = "P" THEN main' = "print" ELSE Exit(1)
  /\ UNCHANGED <<scanVars, conf, chan, opt, freq, names, line, tuned, out>>

Scanning ==
  /\ main = "scan"
  /\ ReadFilters \/ Environment
  /\ UNCHANGED tuneVars

ScanEnded ==
  /\ main = "scan" /\ scan = "scanned"
  /\ scan' = "idle"
  /\ ReportPids
  /\ IF opt = "P" THEN main' = "print"
     ELSE IF srv'[1].ttx_pid = 0 THEN Exit(1)
     ELSE main' = IF opt = "p" THEN "print" ELSE "tuned"
  /\ UNCHANGED <<conf, chan, opt, freq, names, line, tuned, out>>

\* exit() within add_filter().
ScanFailed ==
  /\ main = "scan" /\ scan = "failed"
  /\ Exit(1)
  /\ UNCHANGED <<scanVars, conf, chan, opt, freq, names, line, tuned, out>>

PrintPids ==
  /\ main = "print"
  /\ IF srv[1].ttx_pid = 0
     THEN Exit(1) /\ UNCHANGED out
     ELSE /\ out' = SelectSeq([k \in DOMAIN srv |->
                                 [pid |-> srv[k].ttx_pid, name |-> names[k]]],
                              LAMBDA o : o.pid # 0)
          /\ Exit(0)
  /\ UNCHANGED <<scanVars, conf, chan, opt, freq, names, line, tuned>>

\* -v captures teletext, -x exits; else wait for the end of stdin.
Hold ==
  /\ main = "tuned"
  /\ \/ opt = "x" /\ Exit(0)
     \/ opt \in {"v", "hold"} /\ main' = "holding"
  /\ UNCHANGED <<scanVars, conf, chan, opt, freq, names, line, tuned, out>>

\* ScanTtx() ends with a device error, with exit code 1 if the device cannot
\* be opened; the wait ends with stdin.
Release ==
  /\ main = "holding"
  /\ tuned' = Untuned
  /\ Exit(0) \/ (opt = "v" /\ Exit(1))
  /\ UNCHANGED <<scanVars, conf, chan, opt, freq, names, line, out>>

Init ==
  /\ \E s \in Setups :
       /\ conf = s.conf /\ chan = s.chan /\ opt = s.opt
       /\ tp = s.tp /\ timely = s.timely
  /\ main = "start" /\ freq = [ok |-> FALSE] /\ names = <<chan>> /\ line = 1
  /\ tuned = Untuned /\ out = <<>>
  /\ srv = <<>> /\ services = <<>> /\ filter = <<>> /\ running = <<>>
  /\ revents = {} /\ turn = 0 /\ scan = "idle" /\ patVersion = 1
  /\ queue = <<>> /\ sent = {} /\ garbled = 0

Main == \/ FindChannel \/ CollectChannel \/ Tune \/ TuneFails \/ ScanEnded
        \/ ScanFailed \/ PrintPids \/ Hold \/ Release

Next == Main \/ Scanning

\* The program runs, its poll() returns after 25 ms at the latest, and time
\* passes; when timely, the broadcaster does not stop.
Spec == /\ Init /\ [][Next]_vars
        /\ WF_vars(Main)
        /\ WF_vars(Scanning /\ ReadFilters)
        /\ SF_vars(Scanning /\ Second)
        /\ WF_vars(Scanning /\ timely /\ Transmit)

-----------------------------------------------------------------------------
(* Properties.                                                             *)

Statuses == {"start", "collect", "tune", "scan", "tuned", "print", "holding",
             "ok", "error"}

(* Types of the state.  The indices in the poll loop are those of filters   *)
(* that exist, and no filter is in the list twice.                          *)
TypeOK ==
  /\ main \in Statuses
  /\ scan \in {"idle", "scan", "scanned", "failed"}
  /\ DOMAIN services \subseteq DOMAIN srv
  /\ \A k \in DOMAIN srv : srv[k].ttx_pid \in Nat
  /\ ToSet(running) \subseteq {0} \union {k \in DOMAIN services : services[k].priv}
  /\ \A i, j \in DOMAIN running : running[i] = running[j] => i = j
  /\ scan = "scan" => turn \in 0..Len(running)
  /\ revents \subseteq ToSet(running)
  /\ Len(names) \in {1, Len(srv)}

TruePids(id) ==
  {TeletextPid(tp.pmt[pid][id], 0) :
     pid \in {p \in DOMAIN tp.pmt : id \in DOMAIN tp.pmt[p]}}

(* Whatever is lost, garbled, late or repeated, and whichever filter read   *)
(* it: a teletext PID noted for a service is the one its own PMT names.     *)
PidsAreTrue ==
  \A k \in DOMAIN services : services[k].teletext_pid # 0 =>
    services[k].teletext_pid \in TruePids(services[k].service_id)

\* A service with a PMT PID of its own that the PAT names throughout.
Own(id) ==
  \E pid \in DOMAIN tp.pmt :
    /\ DOMAIN tp.pmt[pid] = {id}
    /\ \A v \in DOMAIN tp.pat :
         /\ \E n \in DOMAIN tp.pat[v] : [sid |-> id, pid |-> pid] \in ToSet(tp.pat[v][n])
         /\ \A n \in DOMAIN tp.pat[v] : \A e \in ToSet(tp.pat[v][n]) :
              (e.sid = id) = (e.pid = pid)

DistinctServices ==
  \A j, k \in DOMAIN srv : srv[j].service_id = srv[k].service_id => j = k

(* A scan that ends on a transponder that repeats its tables every second   *)
(* has found the teletext PID of every service, though sections come in any *)
(* order, some are garbled and the PAT changes its version in between.      *)
ScanComplete ==
  (scan = "scanned" /\ timely /\ DistinctServices) =>
    \A k \in DOMAIN services : Own(services[k].service_id) =>
      {services[k].teletext_pid} = TruePids(services[k].service_id)

(* The scan runs out of filters (and the program exits) only if as many     *)
(* services are looked for as there are filters: services need one each,    *)
(* the PAT one, however often the PAT is repeated or changed.               *)
NoSpuriousFailure == scan = "failed" => Len(srv) >= MaxRunning

\* The lines of the file that share the transponder of the channel.
Sharing == {n \in DOMAIN conf :
              LET p == ParseChannelEntry(conf[n]) IN p.ok /\ p.freq = freq.freq}

\* The teletext PID of the channel of a line, 0 if it cannot be known.
PidOf(l) == IF Own(l.sid) THEN CHOOSE pid \in TruePids(l.sid) : TRUE ELSE 0

(* -P lists every channel that shares the transponder, with the right PID   *)
(* (tune_dvb.c:44-47), if it succeeds, reception is good, no service is in  *)
(* the file twice and there are no more channels than srvList holds.  Not   *)
(* for VDR entries: those of the same symbol rate pass for one service.     *)
ListsTransponder ==
  (/\ main = "ok" /\ opt = "P" /\ timely
   /\ Cardinality(Sharing) <= MaxSrv
   /\ \A n \in Sharing : conf[n].format # "VDR"
   /\ \A j, n \in Sharing : conf[j].sid = conf[n].sid => j = n) =>
    \A n \in Sharing : PidOf(conf[n]) # 0 =>
      [pid |-> PidOf(conf[n]), name |-> conf[n].name] \in ToSet(out)

(* The program comes to an end, or holds the tuner as asked to: the scan    *)
(* ends though tables may be missing, garbled or replaced.                  *)
ComesToEnd == <>(main \in {"ok", "error", "holding"})

=============================================================================
