---------------------------- MODULE TuneDvb_proofs ----------------------------
(* Proofs about the PAT/PMT scan within tune_dvb: for any channels.conf,   *)
(* transponder, number of filters, timeouts and disturbances.              *)
EXTENDS TuneDvb, SequenceLemmas

(* What is on air and in the file are numbers and lists of them.           *)
BroadcastTyped ==
  /\ conf \in Seq(ToSet(conf))
  /\ \A l \in ToSet(conf) : l.format = "VDR" => l.ttx \in Nat
  /\ tp.pat \in Seq(Seq(Seq([sid : Nat, pid : Nat])))
  /\ patVersion \in DOMAIN tp.pat
  /\ \A p \in DOMAIN tp.pmt : \A id \in DOMAIN tp.pmt[p] :
       tp.pmt[p][id] \in Seq([type : STRING, pid : Nat])

(* A section read from the device, if it is one of a PMT, is the one of    *)
(* some service on air; one of a PAT is a list of entries.                 *)
TrueSection(sec) ==
  /\ sec.table = "PMT" =>
       \E pid \in DOMAIN tp.pmt :
         \E sid \in DOMAIN tp.pmt[pid] :
           sec.ext = sid /\ sec.streams = tp.pmt[pid][sid]
  /\ sec.table = "PAT" => sec.entries \in Seq([sid : Nat, pid : Nat])

(* ... all of whose elements are sections as above.                        *)
TrueQueue(q) == \E S : q \in Seq(S) /\ \A sec \in S : TrueSection(sec)

ServiceRecord(s) ==
  s = [service_id |-> s.service_id, teletext_pid |-> s.teletext_pid, priv |-> s.priv]

ServicesInv ==
  /\ DOMAIN services \subseteq Nat \ {0}
  /\ \A k \in DOMAIN services : ServiceRecord(services[k])
  /\ PidsAreTrue

QueuesInv ==
  /\ \A f \in DOMAIN queue : TrueQueue(queue[f])
  /\ revents \subseteq DOMAIN queue

(* PidsAreTrue is not inductive: it does not say what is waiting to be     *)
(* read, nor that the first service with an ID exists.                     *)
PidsInv == IsSequence(srv) /\ ServicesInv /\ QueuesInv

-----------------------------------------------------------------------------
(* Sequences                                                               *)

LEMMA QueueEmpty == TrueQueue(<<>>)
<1>. DEFINE S == {Bad("garbled")}
<1>1. <<>> \in Seq(S)
  BY EmptySeq
<1>2. \A sec \in S : TrueSection(sec)
  BY DEF TrueSection, Bad
<1>. HIDE DEF S
<1>. QED
  BY <1>1, <1>2 DEF TrueQueue

LEMMA QueueTail ==
  ASSUME NEW q, TrueQueue(q), q # <<>>
  PROVE  TrueQueue(Tail(q)) /\ TrueSection(Head(q))
<1>1. PICK S : q \in Seq(S) /\ \A sec \in S : TrueSection(sec)
  BY DEF TrueQueue
<1>. QED
  BY <1>1, HeadTailProperties DEF TrueQueue

LEMMA QueueAppend ==
  ASSUME NEW q, TrueQueue(q), NEW sec, TrueSection(sec)
  PROVE  TrueQueue(Append(q, sec))
<1>1. PICK S : q \in Seq(S) /\ \A s \in S : TrueSection(s)
  BY DEF TrueQueue
<1>2. q \in Seq(S \union {sec})
  BY <1>1, SeqMonotonic
<1>3. Append(q, sec) \in Seq(S \union {sec})
  BY <1>2, AppendProperties
<1>. QED
  BY <1>1, <1>3 DEF TrueQueue

-----------------------------------------------------------------------------

LEMMA FoundService ==
  ASSUME DOMAIN services \subseteq Nat \ {0}, NEW id, FindService(id) # 0
  PROVE  /\ FindService(id) \in DOMAIN services
         /\ services[FindService(id)].service_id = id
<1>. DEFINE found == {k \in DOMAIN services : services[k].service_id = id}
<1>1. found # {} /\ FindService(id) = Min(found)
  BY DEF FindService
<1>2. Min(found) \in found
  BY <1>1, LeastInSet
<1>. QED
  BY <1>1, <1>2

-----------------------------------------------------------------------------
(* The poll loop                                                           *)

LEMMA TakenQueues ==
  ASSUME \A g \in DOMAIN queue : TrueQueue(queue[g]), NEW f, queue[f] # <<>>
  PROVE  /\ DOMAIN Taken(f) = DOMAIN queue
         /\ \A g \in DOMAIN queue : TrueQueue(Taken(f)[g])
<1>1. DOMAIN Taken(f) = DOMAIN queue
  BY DEF Taken
<1>2. ASSUME NEW g \in DOMAIN queue
      PROVE  TrueQueue(Taken(f)[g])
  <2>1. CASE g = f
    BY <2>1, QueueTail DEF Taken
  <2>2. CASE g # f
    BY <2>2 DEF Taken
  <2>. QED
    BY <2>1, <2>2
<1>. QED
  BY <1>1, <1>2

(* The rest of a turn of the loop keeps the queues, or empties one.        *)
LEMMA ConcludeQueues ==
  ASSUME NEW f, NEW done, NEW fls, NEW run, NEW rev, NEW q,
         Conclude(f, done, fls, run, rev, q),
         rev \subseteq DOMAIN q, \A g \in DOMAIN q : TrueQueue(q[g])
  PROVE  /\ revents' \subseteq DOMAIN queue'
         /\ \A g \in DOMAIN queue' : TrueQueue(queue'[g])
<1>1. revents' \subseteq rev
  BY DEF Conclude, EventsLeft
<1>2. PICK drop : queue' = IF drop THEN [q EXCEPT ![f] = <<>>] ELSE q
  BY DEF Conclude
<1>3. DOMAIN queue' = DOMAIN q
  BY <1>2
<1>4. \A g \in DOMAIN queue' : queue'[g] = <<>> \/ queue'[g] = q[g]
  BY <1>2
<1>. QED
  BY <1>1, <1>3, <1>4, QueueEmpty

LEMMA QueuesPrimed ==
  ASSUME tp' = tp, revents' \subseteq DOMAIN queue',
         \A g \in DOMAIN queue' : TrueQueue(queue'[g])
  PROVE  QueuesInv'
BY DEF QueuesInv, TrueQueue, TrueSection

LEMMA ReadStep ==
  ASSUME QueuesInv, NEW f, NEW sec, Reads(f, sec), NEW done, NEW fls, NEW run, NEW rev,
         rev \subseteq revents, Conclude(f, done, fls, run, rev, Taken(f))
  PROVE  QueuesInv' /\ TrueSection(sec)
<1>1. f \in revents /\ queue[f] # <<>> /\ sec = Head(queue[f]) /\ tp' = tp
  BY DEF Reads
<1>2. TrueSection(sec)
  BY <1>1, QueueTail DEF QueuesInv
<1>3. DOMAIN Taken(f) = DOMAIN queue /\ \A g \in DOMAIN queue : TrueQueue(Taken(f)[g])
  BY <1>1, TakenQueues DEF QueuesInv
<1>4. /\ revents' \subseteq DOMAIN queue'
      /\ \A g \in DOMAIN queue' : TrueQueue(queue'[g])
  BY <1>3, ConcludeQueues DEF QueuesInv
<1>. QED
  BY <1>1, <1>2, <1>4, QueuesPrimed

-----------------------------------------------------------------------------
(* The services                                                            *)

LEMMA ServicesKept ==
  ASSUME ServicesInv, UNCHANGED <<services, tp>>
  PROVE  ServicesInv'
BY DEF ServicesInv, ServiceRecord, PidsAreTrue, TruePids

LEMMA PatServices ==
  ASSUME ServicesInv, UNCHANGED tp, NEW new,
         services' = [k \in DOMAIN services |->
                       [services[k] EXCEPT !.priv = @ \/ k \in ToSet(new)]]
  PROVE  ServicesInv'
<1>1. DOMAIN services' = DOMAIN services
  OBVIOUS
<1>2. ASSUME NEW k \in DOMAIN services
      PROVE  /\ ServiceRecord(services[k])'
             /\ services'[k].service_id = services[k].service_id
             /\ services'[k].teletext_pid = services[k].teletext_pid
  BY DEF ServicesInv, ServiceRecord
<1>. QED
  BY <1>1, <1>2 DEF ServicesInv, PidsAreTrue, TruePids

(* A teletext PID is taken from the PMT of the service it is noted for.    *)
LEMMA PmtServices ==
  ASSUME ServicesInv, UNCHANGED tp, NEW f, NEW sec, sec.table = "PMT", TrueSection(sec),
         services' = [k \in DOMAIN services |->
           IF k = Addressed(f, sec)
           THEN [services[k] EXCEPT !.teletext_pid = TeletextPid(sec.streams, @)]
           ELSE services[k]]
  PROVE  ServicesInv'
<1>. DEFINE a == Addressed(f, sec)
<1>1. DOMAIN services' = DOMAIN services
  OBVIOUS
<1>2. ASSUME NEW k \in DOMAIN services, k # a
      PROVE  services'[k] = services[k]
  BY <1>2
<1>3. ASSUME a \in DOMAIN services
      PROVE  /\ ServiceRecord(services'[a])
             /\ services'[a].service_id = sec.ext
             /\ services[a].service_id = sec.ext
             /\ services'[a].teletext_pid = TeletextPid(sec.streams, services[a].teletext_pid)
  <2>1. services[a].service_id = sec.ext
    BY <1>3, FoundService DEF Addressed, ServicesInv
  <2>2. services'[a] = [services[a] EXCEPT !.teletext_pid = TeletextPid(sec.streams, @)]
    BY <1>3
  <2>. HIDE DEF a
  <2>3. ServiceRecord(services[a])
    BY <1>3 DEF ServicesInv
  <2>. QED
    BY <2>1, <2>2, <2>3 DEF ServiceRecord
<1>4. TeletextPid(sec.streams, 0) \in TruePids(sec.ext)
  <2>1. PICK pid \in DOMAIN tp.pmt : sec.ext \in DOMAIN tp.pmt[pid]
                                     /\ sec.streams = tp.pmt[pid][sec.ext]
    BY DEF TrueSection
  <2>. QED
    BY <2>1 DEF TruePids
<1>5. TeletextPid(sec.streams, services[a].teletext_pid)
        \in {services[a].teletext_pid, TeletextPid(sec.streams, 0)}
  BY DEF TeletextPid
<1>6. ASSUME NEW k \in DOMAIN services, services'[k].teletext_pid # 0
      PROVE  services'[k].teletext_pid \in TruePids(services'[k].service_id)
  <2>. HIDE DEF a
  <2>1. services[k].teletext_pid # 0
          => services[k].teletext_pid \in TruePids(services[k].service_id)
    BY DEF ServicesInv, PidsAreTrue
  <2>2. CASE k # a
    BY <1>2, <1>6, <2>1, <2>2
  <2>3. CASE k = a
    BY <1>3, <1>4, <1>5, <1>6, <2>1, <2>3
  <2>. QED
    BY <2>2, <2>3
<1>7. \A k \in DOMAIN services : ServiceRecord(services'[k])
  <2>. HIDE DEF a
  <2>. QED
    BY <1>2, <1>3 DEF ServicesInv, ServiceRecord
<1>8. \A id : TruePids(id)' = TruePids(id)
  BY DEF TruePids
<1>. QED
  BY <1>1, <1>6, <1>7, <1>8 DEF ServicesInv, PidsAreTrue

-----------------------------------------------------------------------------
(* The steps                                                               *)

LEMMA PollLoopStep ==
  ASSUME PidsInv, Scanning, ReadFilters
  PROVE  PidsInv'
<1>. SUFFICES IsSequence(srv') /\ ServicesInv' /\ QueuesInv'
  BY DEF PidsInv
<1>0. IsSequence(srv) /\ ServicesInv /\ QueuesInv
  BY DEF PidsInv
<1>1. CASE Poll
  BY <1>0, <1>1, ServicesKept, QueuesPrimed DEF Poll, QueuesInv
<1>2. ASSUME NEW f, NoEvent(f)
      PROVE  IsSequence(srv') /\ ServicesInv' /\ QueuesInv'
  <2>1. /\ revents' \subseteq DOMAIN queue'
        /\ \A g \in DOMAIN queue' : TrueQueue(queue'[g])
    BY <1>0, <1>2, ConcludeQueues DEF NoEvent, QueuesInv
  <2>. QED
    BY <1>0, <1>2, <2>1, ServicesKept, QueuesPrimed DEF NoEvent
<1>3. ASSUME NEW f, ReadUnusable(f) \/ ReadGarbled(f) \/ ReadRepeated(f)
      PROVE  IsSequence(srv') /\ ServicesInv' /\ QueuesInv'
  <2>1. PICK sec, done, fls : /\ Reads(f, sec)
                              /\ Conclude(f, done, fls, running, revents, Taken(f))
    BY <1>3, Zenon DEF ReadUnusable, ReadGarbled, ReadRepeated
  <2>2. QueuesInv'
    BY <1>0, <2>1, ReadStep
  <2>3. UNCHANGED <<srv, services, tp>>
    BY <1>3, <2>1 DEF ReadUnusable, ReadGarbled, ReadRepeated, Reads
  <2>. QED
    BY <1>0, <2>2, <2>3, ServicesKept
<1>4. ASSUME NEW f, ReadPat(f)
      PROVE  IsSequence(srv') /\ ServicesInv' /\ QueuesInv'
  <2>1. PICK sec, done, fls, run :
          /\ Reads(f, sec)
          /\ services' = [k \in DOMAIN services |->
               [services[k] EXCEPT !.priv = @ \/ k \in ToSet(NewPmts(sec))]]
          /\ Conclude(f, done, fls, run, IF NewPmts(sec) = <<>> THEN revents ELSE {}, Taken(f))
    BY <1>4, Zenon DEF ReadPat
  <2>2. QueuesInv'
    BY <1>0, <2>1, ReadStep
  <2>3. UNCHANGED <<srv, tp>>
    BY <2>1 DEF Reads
  <2>4. ServicesInv'
    BY <1>0, <2>1, <2>3, PatServices
  <2>. QED
    BY <1>0, <2>2, <2>3, <2>4
<1>5. ASSUME NEW f, TooManyFilters(f)
      PROVE  IsSequence(srv') /\ ServicesInv' /\ QueuesInv'
  <2>1. UNCHANGED <<srv, services, tp, queue, revents>>
    BY <1>5 DEF TooManyFilters, Reads
  <2>. QED
    BY <1>0, <2>1, ServicesKept, QueuesPrimed DEF QueuesInv
<1>6. ASSUME NEW f, ReadPmt(f)
      PROVE  IsSequence(srv') /\ ServicesInv' /\ QueuesInv'
  <2>1. PICK sec, done, fls :
          /\ Reads(f, sec) /\ sec.table = "PMT"
          /\ services' = [k \in DOMAIN services |->
               IF k = Addressed(f, sec)
               THEN [services[k] EXCEPT !.teletext_pid = TeletextPid(sec.streams, @)]
               ELSE services[k]]
          /\ Conclude(f, done, fls, running, revents, Taken(f))
    BY <1>6, Zenon DEF ReadPmt
  <2>2. QueuesInv' /\ TrueSection(sec)
    BY <1>0, <2>1, ReadStep
  <2>3. UNCHANGED <<srv, tp>>
    BY <2>1 DEF Reads
  <2>4. ServicesInv'
    BY <1>0, <2>1, <2>2, <2>3, PmtServices
  <2>. QED
    BY <1>0, <2>2, <2>3, <2>4
<1>. QED
  BY <1>1, <1>2, <1>3, <1>4, <1>5, <1>6 DEF ReadFilters

(* What arrives is on air, or is none of the sections that are looked at.  *)
LEMMA EnvironmentStep ==
  ASSUME PidsInv, BroadcastTyped, Environment
  PROVE  PidsInv'
<1>0. IsSequence(srv) /\ ServicesInv /\ QueuesInv
  BY DEF PidsInv
<1>1. UNCHANGED <<srv, services, revents, tp>>
  BY DEF Environment, Transmit, Arrives, UpdatePat, Second
<1>2. ASSUME NEW pid, NEW sec, Arrives(pid, sec), TrueSection(sec)
      PROVE  /\ DOMAIN queue' = DOMAIN queue
             /\ \A g \in DOMAIN queue' : TrueQueue(queue'[g])
  BY <1>0, <1>2, QueueAppend DEF Arrives, QueuesInv
<1>3. ASSUME NEW pid, NEW sec \in Air(pid)
      PROVE  TrueSection(sec)
  <2>1. CASE pid = PidPat
    <3>1. tp.pat[patVersion] \in Seq(Seq([sid : Nat, pid : Nat]))
      BY ElementOfSeq, LenProperties DEF BroadcastTyped
    <3>2. PICK n \in DOMAIN tp.pat[patVersion] : sec = PatSection(patVersion, n)
      BY <1>3, <2>1 DEF Air
    <3>3. tp.pat[patVersion][n] \in Seq([sid : Nat, pid : Nat])
      BY <3>1, LenProperties
    <3>. QED
      BY <3>2, <3>3 DEF PatSection, TrueSection
  <2>2. CASE pid # PidPat
    BY <1>3, <2>2 DEF Air, PmtSection, TrueSection
  <2>. QED
    BY <2>1, <2>2
<1>4. TrueSection(Bad("garbled")) /\ TrueSection(Bad("unusable"))
  BY DEF TrueSection, Bad
<1>5. /\ revents' \subseteq DOMAIN queue'
      /\ \A g \in DOMAIN queue' : TrueQueue(queue'[g])
  <2>1. CASE Transmit
    <3>1. PICK pid, sec : Arrives(pid, sec) /\ TrueSection(sec)
      BY <2>1, <1>3, <1>4 DEF Transmit
    <3>. QED
      BY <3>1, <1>0, <1>1, <1>2 DEF QueuesInv
  <2>2. CASE UpdatePat \/ Second
    BY <2>2, <1>0 DEF UpdatePat, Second, QueuesInv
  <2>. QED
    BY <2>1, <2>2 DEF Environment
<1>. QED
  BY <1>0, <1>1, <1>5, ServicesKept, QueuesPrimed DEF PidsInv

(* A scan starts with empty filters and no PIDs.                           *)
LEMMA StartScanStep ==
  ASSUME PidsInv, StartScan
  PROVE  PidsInv'
<1>1. UNCHANGED <<srv, tp>> /\ DOMAIN srv \subseteq Nat \ {0} /\ IsSequence(srv)
  BY SequenceDomain DEF PidsInv, StartScan
<1>2. ServicesInv'
  BY <1>1 DEF StartScan, ServicesInv, ServiceRecord, PidsAreTrue
<1>3. QueuesInv'
  BY <1>1, QueueEmpty, QueuesPrimed DEF StartScan
<1>. QED
  BY <1>1, <1>2, <1>3 DEF PidsInv

LEMMA MainStep ==
  ASSUME PidsInv, Main
  PROVE  PidsInv'
<1>0. IsSequence(srv) /\ ServicesInv /\ QueuesInv
  BY DEF PidsInv
<1>1. ASSUME IsSequence(srv'), UNCHANGED <<services, queue, revents, tp>>
      PROVE  PidsInv'
  BY <1>0, <1>1, ServicesKept, QueuesPrimed DEF PidsInv, QueuesInv
<1>2. CASE FindChannel
  <2>1. ASSUME NEW e PROVE IsSequence(<<e>>)
    <3>1. <<e>> \in Seq({e})
      OBVIOUS
    <3>. QED
      BY <3>1 DEF IsSequence
  <2>2. srv' = srv \/ \E e : srv' = <<e>>
    BY <1>2, Zenon DEF FindChannel
  <2>. QED
    BY <1>0, <1>1, <1>2, <2>1, <2>2 DEF FindChannel
<1>3. CASE CollectChannel
  <2>1. srv' = srv \/ \E e : srv' = Append(srv, e)
    BY <1>3, Zenon DEF CollectChannel
  <2>. QED
    BY <1>0, <1>1, <1>3, <2>1, SequenceAppend DEF CollectChannel
<1>4. CASE Tune
  <2>1. CASE StartScan
    BY <2>1, StartScanStep
  <2>2. CASE UNCHANGED scanVars
    BY <1>0, <1>1, <2>2 DEF scanVars
  <2>. QED
    BY <1>4, <2>1, <2>2 DEF Tune
<1>5. CASE ScanEnded
  <2>1. srv' = [k \in DOMAIN srv |-> srv'[k]]
    BY <1>5 DEF ScanEnded, ReportPids
  <2>. QED
    BY <1>0, <1>1, <1>5, <2>1, SequenceSame DEF ScanEnded, ReportPids
<1>6. CASE TuneFails \/ ScanFailed \/ PrintPids \/ Hold \/ Release
  BY <1>0, <1>1, <1>6 DEF TuneFails, ScanFailed, PrintPids, Hold, Release, scanVars
<1>. QED
  BY <1>2, <1>3, <1>4, <1>5, <1>6 DEF Main

(* The file is not read again, and the PAT changes to one that exists.     *)
LEMMA BroadcastStep == BroadcastTyped /\ [Next]_vars => BroadcastTyped'
<1>. SUFFICES ASSUME BroadcastTyped, [Next]_vars PROVE BroadcastTyped'
  OBVIOUS
<1>1. ASSUME UNCHANGED <<conf, tp, patVersion>> PROVE BroadcastTyped'
  BY <1>1 DEF BroadcastTyped
<1>2. CASE Main
  <2>1. CASE Tune
    BY <1>1, <2>1 DEF Tune, StartScan, scanVars
  <2>2. CASE ~Tune
    BY <1>1, <1>2, <2>2
    DEF Main, FindChannel, CollectChannel, TuneFails, ScanEnded, ReportPids,
        ScanFailed, PrintPids, Hold, Release, scanVars
  <2>. QED
    BY <2>1, <2>2
<1>3. CASE Scanning
  <2>1. conf' = conf
    BY <1>3 DEF Scanning, tuneVars
  <2>2. CASE UpdatePat
    <3>1. patVersion' \in DOMAIN tp.pat /\ tp' = tp
      BY <2>2, LenProperties DEF UpdatePat, BroadcastTyped
    <3>. QED
      BY <2>1, <3>1 DEF BroadcastTyped
  <2>3. CASE ReadFilters \/ Transmit \/ Second
    BY <1>1, <2>1, <2>3
    DEF ReadFilters, Poll, NoEvent, ReadUnusable, ReadGarbled, ReadRepeated, ReadPat,
        TooManyFilters, ReadPmt, Reads, Transmit, Arrives, Second
  <2>. QED
    BY <1>3, <2>2, <2>3 DEF Scanning, Environment
<1>4. CASE UNCHANGED vars
  BY <1>1, <1>4 DEF vars, scanVars, tuneVars
<1>. QED
  BY <1>2, <1>3, <1>4 DEF Next

LEMMA PidsInit == Init => PidsInv /\ BroadcastTyped
<1>. SUFFICES ASSUME Init PROVE PidsInv /\ BroadcastTyped
  OBVIOUS
<1>1. srv = <<>> /\ services = <<>> /\ queue = <<>> /\ revents = {}
  BY DEF Init
<1>2. DOMAIN <<>> = {} /\ <<>> \in Seq({})
  BY EmptySeq
<1>3. PidsInv
  BY <1>1, <1>2 DEF PidsInv, IsSequence, ServicesInv, QueuesInv, PidsAreTrue
<1>4. PICK s \in Setups : conf = s.conf /\ tp = s.tp
  BY DEF Init
<1>5. patVersion = 1 /\ tp.pat \in Seq(Seq(Seq([sid : Nat, pid : Nat]))) /\ tp.pat # <<>>
  BY <1>4, TuneAssumption DEF Init
<1>6. 1 \in DOMAIN tp.pat
  BY <1>5, HeadTailProperties, LenProperties
<1>7. BroadcastTyped
  BY <1>4, <1>5, <1>6, TuneAssumption DEF BroadcastTyped
<1>. QED
  BY <1>3, <1>7

LEMMA PidsStep == PidsInv /\ BroadcastTyped /\ [Next]_vars => PidsInv'
<1>. SUFFICES ASSUME PidsInv, BroadcastTyped, [Next]_vars PROVE PidsInv'
  OBVIOUS
<1>1. CASE Main
  BY <1>1, MainStep
<1>2. CASE Scanning
  BY <1>2, PollLoopStep, EnvironmentStep DEF Scanning
<1>3. CASE UNCHANGED vars
  BY <1>3, ServicesKept, QueuesPrimed DEF vars, scanVars, PidsInv, QueuesInv
<1>. QED
  BY <1>1, <1>2, <1>3 DEF Next

LEMMA PidsInvariant == Spec => [](PidsInv /\ BroadcastTyped)
BY PidsInit, PidsStep, BroadcastStep, PTL DEF Spec

(* Whatever is on air, lost, garbled or late, however many filters there   *)
(* are: a PID noted for a service is one that its own PMT names.           *)
THEOREM NotedPidsAreTrue == Spec => []PidsAreTrue
<1>1. PidsInv => PidsAreTrue
  BY DEF PidsInv, ServicesInv
<1>. QED
  BY <1>1, PidsInvariant, PTL
-----------------------------------------------------------------------------
(* The filters                                                             *)

PrivateServices == {k \in DOMAIN services : services[k].priv}

(* The list of filters has none twice, so that it has at most one for the  *)
(* PAT and one for each service.                                           *)
FiltersInv ==
  /\ running \in Seq(Nat) /\ NoRepeat(running)
  /\ Range(running) \subseteq {0} \union PrivateServices
  /\ revents \subseteq Range(running)
  /\ scan = "scan" => running # <<>> /\ turn \in 0 .. Len(running)
  /\ scan \in {"idle", "scanned"} => turn = 0

(* The services are those of the caller's list while the scan runs, which  *)
(* may only fail when they are too many.                                   *)
ScanInv ==
  /\ main \in Statuses
  /\ scan \in {"idle", "scan", "scanned", "failed"}
  /\ main \in {"start", "collect", "tune"} => scan = "idle"
  /\ main = "start" => services = <<>> /\ srv = <<>>
  /\ DOMAIN services \subseteq DOMAIN srv
  /\ main = "scan" =>
       /\ DOMAIN services = DOMAIN srv
       /\ \A k \in DOMAIN srv : services[k].service_id = srv[k].service_id
  /\ NoSpuriousFailure

(* PIDs are numbers, and each name belongs to the service of its place.    *)
ServerEntry(e) ==
  /\ e = [service_id |-> e.service_id, ttx_pid |-> e.ttx_pid]
  /\ e.ttx_pid \in Nat

PidsTyped ==
  /\ \A k \in DOMAIN services : services[k].teletext_pid \in Nat
  /\ \A k \in DOMAIN srv : ServerEntry(srv[k])

NamesInv ==
  /\ IsSequence(names)
  /\ line \in Nat \ {0}
  /\ main = "start" => Len(names) = 1
  /\ main = "collect" => Len(names) = Len(srv)
  /\ Len(names) \in {1, Len(srv)}

FilterListInv == FiltersInv /\ ScanInv

LEMMA ToSetIsRange == \A s : ToSet(s) = Range(s)
BY DEF ToSet, Range

(* A filter is taken off the list.                                         *)
LEMMA WithoutFilter ==
  ASSUME NEW run \in Seq(Nat), NoRepeat(run), NEW f \in Range(run)
  PROVE  /\ Without(run, f) \in Seq(Nat) /\ NoRepeat(Without(run, f))
         /\ Range(Without(run, f)) = Range(run) \ {f}
<1>. DEFINE S == {i \in DOMAIN run : run[i] = f}
            idx == Min(S)
<1>1. DOMAIN run = 1 .. Len(run) /\ Len(run) \in Nat
  BY LenProperties
<1>2. S \in SUBSET Nat /\ S # {}
  BY <1>1 DEF Range
<1>3. idx \in S
  BY <1>2, LeastInSet
<1>4. idx \in 1 .. Len(run) /\ run[idx] = f
  BY <1>1, <1>3
<1>5. Without(run, f) = RemoveAt(run, idx)
  BY DEF Without
<1>. HIDE DEF S, idx
<1>. QED
  BY <1>4, <1>5, NoRepeatRemoved

(* The rest of a turn, whichever list and events it starts from.           *)
LEMMA ConcludeFilters ==
  ASSUME NEW run \in Seq(Nat), NoRepeat(run), NEW rev, rev \subseteq Range(run),
         NEW f \in Range(run), NEW done, NEW fls, NEW q,
         turn \in Nat, Conclude(f, done, fls, run, rev, q)
  PROVE  /\ running' \in Seq(Nat) /\ NoRepeat(running')
         /\ Range(running') \subseteq Range(run)
         /\ revents' \subseteq Range(running')
         /\ scan' \in {"scan", "scanned"}
         /\ scan' = "scan" => running' # <<>> /\ turn' \in 0 .. Len(running')
         /\ scan' = "scanned" => turn' = 0
<1>. DEFINE drop == done \/ TimedOut(fls[f])
<1>1. /\ running' = IF drop THEN Without(run, f) ELSE run
      /\ revents' = EventsLeft(drop, f, rev)
      /\ turn' = IF turn + 1 <= Len(running') THEN turn + 1 ELSE 0
      /\ scan' = IF running' = <<>> THEN "scanned" ELSE "scan"
  BY DEF Conclude
<1>. HIDE DEF drop
<1>2. CASE drop
  <2>1. running' \in Seq(Nat) /\ NoRepeat(running')
        /\ Range(running') \subseteq Range(run) /\ revents' = {}
    BY <1>1, <1>2, WithoutFilter DEF EventsLeft
  <2>. QED
    BY <1>1, <2>1, LenProperties
<1>3. CASE ~drop
  <2>1. running' = run /\ revents' \subseteq Range(run)
    BY <1>1, <1>3 DEF EventsLeft
  <2>. QED
    BY <1>1, <2>1, LenProperties
<1>. QED
  BY <1>2, <1>3

(* The services a PAT section adds filters for: each has none yet, and     *)
(* appears once however often the section names it.                        *)
LEMMA NewFilters ==
  ASSUME ServicesInv, IsSequence(srv), DOMAIN services \subseteq DOMAIN srv,
         NEW sec, sec.entries \in Seq([sid : Nat, pid : Nat])
  PROVE  /\ NewPmts(sec) \in Seq(Nat) /\ NoRepeat(NewPmts(sec))
         /\ Range(NewPmts(sec)) \subseteq DOMAIN services \ PrivateServices
         /\ Range(NewPmts(sec)) = Named(sec) \ PrivateServices
<1>. DEFINE S == {k \in Named(sec) : ~services[k].priv}
            At(k) == {n \in DOMAIN sec.entries : sec.entries[n].sid = services[k].service_id}
            F(k) == FirstEntry(sec, k)
            R == {r \in S \X S : F(r[1]) < F(r[2])}
            c == Cardinality(S)
            nth(n) == CHOOSE k \in S : Cardinality({j \in S : F(j) < F(k)}) = n - 1
<1>1. DOMAIN services \subseteq Nat \ {0}
  BY DEF ServicesInv
<1>2. ASSUME NEW k \in S
      PROVE  /\ k \in DOMAIN services \ PrivateServices
             /\ k = FindService(services[k].service_id)
             /\ F(k) \in At(k)
  <2>1. PICK e \in ToSet(sec.entries) : k = FindService(e.sid)
    BY DEF Named
  <2>2. k # 0
    BY DEF Named
  <2>3. k \in DOMAIN services /\ services[k].service_id = e.sid
    BY <1>1, <2>1, <2>2, FoundService
  <2>4. At(k) # {}
    BY <2>1, <2>3 DEF ToSet
  <2>5. At(k) \in SUBSET Nat
    BY LenProperties
  <2>6. Min(At(k)) \in At(k)
    BY <2>4, <2>5, LeastInSet
  <2>. QED
    BY <2>1, <2>3, <2>6 DEF PrivateServices, FirstEntry
<1>3. ASSUME NEW k \in S PROVE F(k) \in Nat
  <2>1. F(k) \in DOMAIN sec.entries
    BY <1>2
  <2>. QED
    BY <2>1, LenProperties
<1>4. ASSUME NEW j \in S, NEW k \in S, F(j) = F(k) PROVE j = k
  <2>1. services[j].service_id = services[k].service_id
    BY <1>2, <1>4
  <2>. QED
    BY <1>2, <2>1
<1>15. S = Named(sec) \ PrivateServices
  <2>1. ASSUME NEW k \in Named(sec) PROVE k \in DOMAIN services
    <3>1. PICK e \in ToSet(sec.entries) : k = FindService(e.sid)
      BY DEF Named
    <3>. QED
      BY <1>1, <3>1, FoundService DEF Named
  <2>. QED
    BY <2>1 DEF PrivateServices
<1>5. IsFiniteSet(S) /\ c \in Nat
  <2>1. DOMAIN srv = 1 .. Len(srv) /\ Len(srv) \in Nat
    BY SequenceDomain
  <2>2. IsFiniteSet(1 .. Len(srv))
    <3>1. 1 \in Int /\ Len(srv) \in Int
      BY <2>1
    <3>. QED
      BY <3>1, FS_Interval
  <2>3. S \subseteq 1 .. Len(srv)
    BY <1>2, <2>1
  <2>4. IsFiniteSet(S)
    BY <2>2, <2>3, FS_Subset
  <2>. QED
    BY <2>4, FS_CardinalityType
<1>6. NewPmts(sec) = [n \in 1 .. c |-> nth(n)]
  BY DEF NewPmts, InOrder
<1>. HIDE DEF S, At, F
<1>7. TotalOrder(R, S)
  <2>1. \A j, k \in S : <<j, k>> \in R <=> F(j) < F(k)
    OBVIOUS
  <2>. HIDE DEF R
  <2>2. \A p \in S : <<p, p>> \notin R
    BY <1>3, <2>1
  <2>3. \A p, q, r \in S : <<p, q>> \in R /\ <<q, r>> \in R => <<p, r>> \in R
    BY <1>3, <2>1
  <2>4. \A p, q \in S : p = q \/ <<p, q>> \in R \/ <<q, p>> \in R
    <3>1. SUFFICES ASSUME NEW p \in S, NEW q \in S, p # q
                   PROVE  <<p, q>> \in R \/ <<q, p>> \in R
      OBVIOUS
    <3>2. F(p) \in Nat /\ F(q) \in Nat
      BY <1>3
    <3>3. F(p) # F(q)
      BY <1>4, <3>1
    <3>4. F(p) < F(q) \/ F(q) < F(p)
      BY <3>2, <3>3
    <3>. QED
      BY <2>1, <3>4
  <2>. QED
    BY <2>2, <2>3, <2>4 DEF TotalOrder
<1>8. \A k \in S : Rank(k, R, S) = Cardinality({j \in S : F(j) < F(k)})
  <2>1. SUFFICES ASSUME NEW k \in S
                 PROVE  {j \in S : <<j, k>> \in R} = {j \in S : F(j) < F(k)}
    BY DEF Rank
  <2>. QED
    OBVIOUS
<1>. HIDE DEF R
<1>9. ASSUME NEW n \in 1 .. c
      PROVE  nth(n) \in S /\ Rank(nth(n), R, S) = n - 1
  <2>1. n - 1 \in 0 .. c - 1
    BY <1>5
  <2>2. \E k \in S : Rank(k, R, S) = n - 1
    BY <1>5, <1>7, <2>1, RankOccurs
  <2>3. \E k \in S : Cardinality({j \in S : F(j) < F(k)}) = n - 1
    BY <1>8, <2>2
  <2>4. nth(n) \in S /\ Cardinality({j \in S : F(j) < F(nth(n))}) = n - 1
    BY <2>3
  <2>. QED
    BY <1>8, <2>4
<1>. DEFINE g == [n \in 1 .. c |-> nth(n)]
<1>10. g \in [1 .. c -> S] /\ \A n \in 1 .. c : Rank(g[n], R, S) = n - 1
  BY <1>9
<1>. HIDE DEF nth, g
<1>11. g \in Seq(S) /\ Len(g) = c /\ Range(g) = S
  BY <1>5, <1>7, <1>10, Listing
<1>12. NoRepeat(g)
  BY <1>5, <1>10, <1>11 DEF NoRepeat
<1>13. S \subseteq Nat /\ S \subseteq DOMAIN services \ PrivateServices
  BY <1>1, <1>2
<1>14. g \in Seq(Nat)
  BY <1>11, <1>13, SeqMonotonic
<1>. QED
  BY <1>6, <1>11, <1>12, <1>13, <1>14, <1>15 DEF g

(* The services stay the same ones, and keep the filters they have.        *)
SameServices ==
  /\ DOMAIN services' = DOMAIN services
  /\ \A k \in DOMAIN services :
       /\ services'[k].service_id = services[k].service_id
       /\ services[k].priv => services'[k].priv

LEMMA ScanStays ==
  ASSUME ScanInv, SameServices, srv' = srv, main' = main, main = "scan",
         scan' \in {"scan", "scanned"}
  PROVE  ScanInv'
BY DEF ScanInv, SameServices, NoSpuriousFailure

LEMMA ReadFilterList ==
  ASSUME FilterListInv, SameServices, srv' = srv, main' = main, main = "scan",
         NEW f, Turn(f), NEW done, NEW fls, NEW q,
         Conclude(f, done, fls, running, revents, q)
  PROVE  FilterListInv'
<1>1. /\ running \in Seq(Nat) /\ NoRepeat(running) /\ revents \subseteq Range(running)
      /\ Range(running) \subseteq {0} \union PrivateServices
  BY DEF FilterListInv, FiltersInv
<1>2. f \in Range(running) /\ turn \in Nat
  BY <1>1, LenProperties DEF Turn, Range
<1>3. /\ running' \in Seq(Nat) /\ NoRepeat(running')
      /\ Range(running') \subseteq Range(running)
      /\ revents' \subseteq Range(running')
      /\ scan' \in {"scan", "scanned"}
      /\ scan' = "scan" => running' # <<>> /\ turn' \in 0 .. Len(running')
      /\ scan' = "scanned" => turn' = 0
  BY <1>1, <1>2, ConcludeFilters
<1>4. PrivateServices \subseteq PrivateServices'
  BY DEF PrivateServices, SameServices
<1>. QED
  BY <1>1, <1>3, <1>4, ScanStays DEF FilterListInv, FiltersInv

(* A PAT adds filters to the list; services and the PAT have one each, so  *)
(* there are too many of them only if there are too many services.         *)
LEMMA ReadPatFilterList ==
  ASSUME FilterListInv, PidsInv, main = "scan", NEW sec, TrueSection(sec), sec.table = "PAT"
  PROVE  /\ running \o NewPmts(sec) \in Seq(Nat) /\ NoRepeat(running \o NewPmts(sec))
         /\ Range(running \o NewPmts(sec)) = Range(running) \union Range(NewPmts(sec))
         /\ Range(NewPmts(sec)) \subseteq DOMAIN services
         /\ Len(running) + Len(NewPmts(sec)) <= Len(srv) + 1
<1>. DEFINE new == NewPmts(sec)
            all == running \o new
<1>1. /\ running \in Seq(Nat) /\ NoRepeat(running)
      /\ Range(running) \subseteq {0} \union PrivateServices
  BY DEF FilterListInv, FiltersInv
<1>2. /\ IsSequence(srv) /\ ServicesInv /\ DOMAIN services \subseteq Nat \ {0}
      /\ DOMAIN services = DOMAIN srv
  BY DEF PidsInv, ServicesInv, FilterListInv, ScanInv
<1>3. /\ new \in Seq(Nat) /\ NoRepeat(new)
      /\ Range(new) \subseteq DOMAIN services \ PrivateServices
  BY <1>2, NewFilters DEF TrueSection
<1>. HIDE DEF new
<1>4. Range(running) \intersect Range(new) = {}
  BY <1>1, <1>2, <1>3
<1>5. /\ all \in Seq(Nat) /\ NoRepeat(all) /\ Len(all) = Len(running) + Len(new)
      /\ Range(all) = Range(running) \union Range(new)
  BY <1>1, <1>3, <1>4, NoRepeatConcat
<1>. HIDE DEF all
<1>6. Len(srv) \in Nat /\ DOMAIN srv = 1 .. Len(srv)
  BY <1>2, SequenceDomain
<1>7. Range(all) \subseteq 0 .. Len(srv)
  BY <1>1, <1>2, <1>3, <1>5, <1>6 DEF PrivateServices
<1>8. all \in Seq(0 .. Len(srv))
  <2>1. \A i \in 1 .. Len(all) : all[i] \in 0 .. Len(srv)
    BY <1>5, <1>7, LenProperties DEF Range
  <2>. QED
    BY <1>5, <2>1, LenProperties, SeqDef
<1>9. IsFiniteSet(0 .. Len(srv)) /\ Cardinality(0 .. Len(srv)) = Len(srv) + 1
  <2>1. 0 \in Int /\ Len(srv) \in Int /\ 0 <= Len(srv) /\ Len(srv) - 0 + 1 = Len(srv) + 1
    BY <1>6
  <2>. QED
    BY <2>1, FS_Interval
<1>10. Len(all) <= Len(srv) + 1
  BY <1>5, <1>8, <1>9, NoRepeatLength
<1>. QED
  BY <1>3, <1>5, <1>10 DEF all, new

LEMMA PollLoopFilters ==
  ASSUME FilterListInv, PidsInv, main = "scan", main' = main, ReadFilters
  PROVE  FilterListInv'
<1>0. /\ running \in Seq(Nat) /\ NoRepeat(running) /\ revents \subseteq Range(running)
      /\ Range(running) \subseteq {0} \union PrivateServices
      /\ QueuesInv /\ ServicesInv
  BY DEF FilterListInv, FiltersInv, PidsInv
<1>1. ASSUME services' = services PROVE SameServices
  BY <1>1 DEF SameServices
<1>2. CASE Poll
  <2>1. /\ UNCHANGED <<running, scan, services, srv>> /\ turn' = 1
        /\ scan = "scan" /\ revents' \subseteq Range(running)
    BY <1>2, ToSetIsRange DEF Poll
  <2>2. running # <<>>
    BY <2>1 DEF FilterListInv, FiltersInv
  <2>3. turn' \in 0 .. Len(running)
    BY <1>0, <2>1, <2>2, HeadTailProperties, LenProperties
  <2>4. ScanInv'
    BY <1>1, <2>1, ScanStays DEF FilterListInv
  <2>. QED
    BY <1>0, <2>1, <2>2, <2>3, <2>4 DEF FilterListInv, FiltersInv, PrivateServices
<1>3. ASSUME NEW f, NoEvent(f) PROVE FilterListInv'
  BY <1>1, <1>3, ReadFilterList DEF NoEvent
<1>4. ASSUME NEW f, ReadUnusable(f) \/ ReadGarbled(f) \/ ReadRepeated(f)
      PROVE  FilterListInv'
  <2>1. PICK sec, done, fls : /\ Reads(f, sec) /\ services' = services
                              /\ Conclude(f, done, fls, running, revents, Taken(f))
    BY <1>4, Zenon DEF ReadUnusable, ReadGarbled, ReadRepeated
  <2>. QED
    BY <1>1, <2>1, ReadFilterList DEF Reads
<1>5. ASSUME NEW f, ReadPmt(f) PROVE FilterListInv'
  <2>1. PICK sec, done, fls :
          /\ Reads(f, sec)
          /\ services' = [k \in DOMAIN services |->
               IF k = Addressed(f, sec)
               THEN [services[k] EXCEPT !.teletext_pid = TeletextPid(sec.streams, @)]
               ELSE services[k]]
          /\ Conclude(f, done, fls, running, revents, Taken(f))
    BY <1>5, Zenon DEF ReadPmt
  <2>2. SameServices
    BY <1>0, <2>1 DEF SameServices, ServicesInv, ServiceRecord
  <2>. QED
    BY <2>1, <2>2, ReadFilterList DEF Reads
<1>6. ASSUME NEW f, ReadPat(f) PROVE FilterListInv'
  <2>1. PICK sec, done, fls :
          /\ Reads(f, sec) /\ sec.table = "PAT"
          /\ services' = [k \in DOMAIN services |->
               [services[k] EXCEPT !.priv = @ \/ k \in ToSet(NewPmts(sec))]]
          /\ Conclude(f, done, fls, running \o NewPmts(sec),
                      IF NewPmts(sec) = <<>> THEN revents ELSE {}, Taken(f))
    BY <1>6, Zenon DEF ReadPat
  <2>2. TrueSection(sec)
    BY <1>0, <2>1, QueueTail DEF Reads, QueuesInv
  <2>. DEFINE new == NewPmts(sec)
              all == running \o new
  <2>3. /\ all \in Seq(Nat) /\ NoRepeat(all)
        /\ Range(all) = Range(running) \union Range(new)
        /\ Range(new) \subseteq DOMAIN services
    BY <2>1, <2>2, ReadPatFilterList
  <2>4. /\ services' = [k \in DOMAIN services |->
                         [services[k] EXCEPT !.priv = @ \/ k \in Range(new)]]
        /\ Conclude(f, done, fls, all, IF new = <<>> THEN revents ELSE {}, Taken(f))
    BY <2>1, ToSetIsRange
  <2>. HIDE DEF new, all
  <2>5. /\ DOMAIN services' = DOMAIN services
        /\ \A k \in DOMAIN services :
             /\ services'[k].service_id = services[k].service_id
             /\ services'[k].priv <=> services[k].priv \/ k \in Range(new)
    <3>1. ASSUME NEW k \in DOMAIN services
          PROVE  /\ services'[k].service_id = services[k].service_id
                 /\ services'[k].priv <=> services[k].priv \/ k \in Range(new)
      <4>1. services'[k] = [services[k] EXCEPT !.priv = services[k].priv \/ k \in Range(new)]
        BY <2>4
      <4>2. ServiceRecord(services[k])
        BY <1>0 DEF ServicesInv
      <4>3. /\ services'[k].service_id = services[k].service_id
            /\ services'[k].priv = (services[k].priv \/ k \in Range(new))
        BY <4>1, <4>2 DEF ServiceRecord
      <4>. QED
        BY <4>3, Zenon
    <3>. QED
      BY <2>4, <3>1
  <2>6. SameServices
    BY <2>5 DEF SameServices
  <2>7. Range(all) \subseteq {0} \union PrivateServices'
    BY <1>0, <2>3, <2>5 DEF PrivateServices
  <2>8. f \in Range(all) /\ turn \in Nat /\ srv' = srv
    <3>1. Turn(f) /\ srv' = srv
      BY <2>1 DEF Reads
    <3>2. turn \in DOMAIN running /\ f = running[turn]
      BY <3>1 DEF Turn
    <3>3. f \in Range(running)
      BY <3>2 DEF Range
    <3>4. turn \in Nat
      BY <1>0, <3>2, LenProperties
    <3>. QED
      BY <2>3, <3>1, <3>3, <3>4
  <2>9. (IF new = <<>> THEN revents ELSE {}) \subseteq Range(all)
    BY <1>0, <2>3
  <2>10. /\ running' \in Seq(Nat) /\ NoRepeat(running')
         /\ Range(running') \subseteq Range(all)
         /\ revents' \subseteq Range(running')
         /\ scan' \in {"scan", "scanned"}
         /\ scan' = "scan" => running' # <<>> /\ turn' \in 0 .. Len(running')
         /\ scan' = "scanned" => turn' = 0
    BY <2>3, <2>4, <2>8, <2>9, ConcludeFilters
  <2>11. ScanInv'
    BY <2>6, <2>8, <2>10, ScanStays DEF FilterListInv
  <2>. QED
    BY <2>7, <2>10, <2>11 DEF FilterListInv, FiltersInv
<1>7. ASSUME NEW f, TooManyFilters(f) PROVE FilterListInv'
  <2>1. PICK sec : /\ Reads(f, sec) /\ sec.table = "PAT"
                   /\ Len(running) + Len(NewPmts(sec)) > MaxRunning
                   /\ scan' = "failed"
                   /\ UNCHANGED <<services, running, revents, turn>>
    BY <1>7 DEF TooManyFilters
  <2>2. TrueSection(sec)
    BY <1>0, <2>1, QueueTail DEF Reads, QueuesInv
  <2>3. /\ Len(running) + Len(NewPmts(sec)) <= Len(srv) + 1
        /\ NewPmts(sec) \in Seq(Nat)
    <3>1. IsSequence(srv) /\ DOMAIN services \subseteq DOMAIN srv
      BY DEF PidsInv, FilterListInv, ScanInv
    <3>2. NewPmts(sec) \in Seq(Nat)
      BY <1>0, <2>1, <2>2, <3>1, NewFilters DEF TrueSection
    <3>. QED
      BY <2>1, <2>2, <3>2, ReadPatFilterList
  <2>4. Len(srv) >= MaxRunning
    <3>1. Len(srv) \in Nat /\ Len(running) \in Nat /\ Len(NewPmts(sec)) \in Nat
      BY <1>0, <2>3, SequenceDomain, LenProperties DEF PidsInv
    <3>. QED
      BY <2>1, <2>3, <3>1, ScanAssumption
  <2>5. srv' = srv
    BY <2>1 DEF Reads
  <2>. QED
    BY <2>1, <2>4, <2>5
    DEF FilterListInv, FiltersInv, ScanInv, PrivateServices, NoSpuriousFailure
<1>. QED
  BY <1>2, <1>3, <1>4, <1>5, <1>6, <1>7 DEF ReadFilters

LEMMA MainFilters ==
  ASSUME FilterListInv, PidsInv, Main
  PROVE  FilterListInv'
<1>0. FiltersInv /\ ScanInv /\ IsSequence(srv)
  BY DEF FilterListInv, PidsInv
<1>1. ASSUME UNCHANGED <<running, revents, turn, scan, services>> PROVE FiltersInv'
  BY <1>0, <1>1 DEF FiltersInv, PrivateServices
<1>2. CASE FindChannel
  <2>1. /\ main = "start" /\ main' \in {"collect", "print", "tune", "error"}
        /\ UNCHANGED <<running, revents, turn, scan, services>>
    BY <1>2 DEF FindChannel, Exit
  <2>2. DOMAIN services = {} /\ scan = "idle"
    BY <1>0, <2>1 DEF ScanInv
  <2>3. ScanInv'
    BY <2>1, <2>2 DEF ScanInv, Statuses, NoSpuriousFailure
  <2>. QED
    BY <1>1, <2>1, <2>3 DEF FilterListInv
<1>3. CASE CollectChannel
  <2>1. /\ main = "collect" /\ main' \in {"collect", "print", "tune"}
        /\ UNCHANGED <<running, revents, turn, scan, services>>
        /\ srv' = srv \/ \E e : srv' = Append(srv, e)
    BY <1>3, Zenon DEF CollectChannel
  <2>2. DOMAIN srv \subseteq DOMAIN srv'
    <3>1. ASSUME NEW e PROVE DOMAIN srv \subseteq DOMAIN Append(srv, e)
      BY <1>0, AppendProperties, LenProperties DEF IsSequence
    <3>. QED
      BY <2>1, <3>1
  <2>3. ScanInv'
    BY <1>0, <2>1, <2>2 DEF ScanInv, Statuses, NoSpuriousFailure
  <2>. QED
    BY <1>1, <2>1, <2>3 DEF FilterListInv
<1>4. CASE Tune
  <2>1. main = "tune" /\ scan = "idle"
    BY <1>0, <1>4 DEF Tune, ScanInv
  <2>2. CASE NeedPatPmt
    <3>1. /\ StartScan /\ main' = "scan"
      BY <1>4, <2>2 DEF Tune
    <3>2. /\ running' = <<0>> /\ revents' = {} /\ turn' = turn /\ scan' = "scan"
          /\ srv' = srv
          /\ services' = [k \in DOMAIN srv |->
               [service_id |-> srv[k].service_id, teletext_pid |-> 0, priv |-> FALSE]]
      BY <3>1 DEF StartScan
    <3>3. /\ running' \in Seq(Nat) /\ Len(running') = 1 /\ running' # <<>>
          /\ NoRepeat(running') /\ Range(running') = {0}
      BY <3>2 DEF NoRepeat, Range
    <3>4. turn = 0
      BY <1>0, <2>1 DEF FiltersInv
    <3>5. FiltersInv'
      BY <3>2, <3>3, <3>4 DEF FiltersInv
    <3>6. ScanInv'
      BY <1>0, <3>1, <3>2 DEF ScanInv, Statuses, NoSpuriousFailure
    <3>. QED
      BY <3>5, <3>6 DEF FilterListInv
  <2>3. CASE ~NeedPatPmt
    <3>1. main' = "tuned" /\ UNCHANGED scanVars
      BY <1>4, <2>3 DEF Tune
    <3>2. ScanInv'
      BY <1>0, <3>1 DEF ScanInv, scanVars, Statuses, NoSpuriousFailure
    <3>. QED
      BY <1>1, <3>1, <3>2 DEF FilterListInv, scanVars
  <2>. QED
    BY <2>2, <2>3
<1>5. CASE ScanEnded
  <2>1. /\ scan = "scanned" /\ scan' = "idle"
        /\ main' \in {"print", "error", "tuned"}
        /\ UNCHANGED <<running, revents, turn, services>>
        /\ srv' = [k \in DOMAIN srv |-> Result(k)]
    BY <1>5 DEF ScanEnded, ReportPids, Exit
  <2>2. DOMAIN srv' = DOMAIN srv
    BY <2>1
  <2>3. ScanInv'
    BY <1>0, <2>1, <2>2 DEF ScanInv, Statuses, NoSpuriousFailure
  <2>. QED
    BY <1>0, <2>1, <2>3 DEF FilterListInv, FiltersInv, PrivateServices
<1>6. CASE TuneFails \/ ScanFailed \/ PrintPids \/ Hold \/ Release
  <2>1. main' \in {"print", "ok", "error", "holding"} /\ UNCHANGED scanVars
    BY <1>6 DEF TuneFails, ScanFailed, PrintPids, Hold, Release, Exit
  <2>2. ScanInv'
    BY <1>0, <2>1 DEF ScanInv, scanVars, Statuses, NoSpuriousFailure
  <2>. QED
    BY <1>1, <2>1, <2>2 DEF FilterListInv, scanVars
<1>. QED
  BY <1>2, <1>3, <1>4, <1>5, <1>6 DEF Main

LEMMA FiltersStep ==
  FilterListInv /\ PidsInv /\ [Next]_vars => FilterListInv'
<1>. SUFFICES ASSUME FilterListInv, PidsInv, [Next]_vars PROVE FilterListInv'
  OBVIOUS
<1>1. ASSUME UNCHANGED <<running, revents, turn, scan, services, srv, main>>
      PROVE  FilterListInv'
  BY <1>1 DEF FilterListInv, FiltersInv, ScanInv, PrivateServices, NoSpuriousFailure
<1>2. CASE Main
  BY <1>2, MainFilters
<1>3. CASE Scanning /\ ReadFilters
  BY <1>3, PollLoopFilters DEF Scanning, tuneVars
<1>4. CASE Scanning /\ Environment
  BY <1>1, <1>4 DEF Scanning, tuneVars, Environment, Transmit, Arrives, UpdatePat, Second
<1>5. CASE UNCHANGED vars
  BY <1>1, <1>5 DEF vars, scanVars, tuneVars
<1>. QED
  BY <1>2, <1>3, <1>4, <1>5 DEF Next, Scanning

LEMMA FiltersInvariant == Spec => []FilterListInv
<1>1. Init => FilterListInv
  <2>. SUFFICES ASSUME Init PROVE FilterListInv
    OBVIOUS
  <2>1. /\ main = "start" /\ scan = "idle" /\ turn = 0 /\ running = <<>> /\ revents = {}
        /\ services = <<>> /\ srv = <<>>
    BY DEF Init
  <2>2. running \in Seq(Nat) /\ NoRepeat(running) /\ Range(running) = {}
    BY <2>1 DEF NoRepeat, Range
  <2>. QED
    BY <2>1, <2>2
    DEF FilterListInv, FiltersInv, ScanInv, Statuses, NoSpuriousFailure
<1>. QED
  BY <1>1, FiltersStep, PidsInvariant, PTL DEF Spec

(* The scan gives up only on a list with as many services as there are     *)
(* filters, whatever PAT sections arrive, repeated or changed.             *)
THEOREM FailsOnlyWhenFull == Spec => []NoSpuriousFailure
<1>1. FilterListInv => NoSpuriousFailure
  BY DEF FilterListInv, ScanInv
<1>. QED
  BY <1>1, FiltersInvariant, PTL

-----------------------------------------------------------------------------
(* Types                                                                   *)

(* Lines of the file that are found.                                       *)
LEMMA ParsedPid ==
  ASSUME BroadcastTyped, NEW n \in DOMAIN conf
  PROVE  ParseChannelEntry(conf[n]).ttxPid \in Nat
<1>1. conf[n] \in ToSet(conf)
  BY DEF ToSet
<1>2. conf[n].format = "VDR" => conf[n].ttx \in Nat
  BY <1>1 DEF BroadcastTyped
<1>. QED
  BY <1>2 DEF ParseChannelEntry

LEMMA FoundChannel ==
  ASSUME BroadcastTyped, NEW name, GetChannelConf(name).ok
  PROVE  GetChannelConf(name).ttxPid \in Nat
<1>. DEFINE at == {n \in DOMAIN conf : conf[n].name = name}
<1>1. DOMAIN conf = 1 .. Len(conf) /\ Len(conf) \in Nat
  BY LenProperties DEF BroadcastTyped
<1>2. CASE at = {}
  BY <1>2 DEF GetChannelConf
<1>3. CASE at # {}
  <2>1. at \in SUBSET Nat
    BY <1>1
  <2>2. Min(at) \in at
    BY <1>3, <2>1, LeastInSet
  <2>3. Min(at) \in DOMAIN conf
    BY <2>2
  <2>4. GetChannelConf(name) = ParseChannelEntry(conf[Min(at)])
    BY <1>3 DEF GetChannelConf
  <2>. QED
    BY <2>3, <2>4, ParsedPid
<1>. QED
  BY <1>2, <1>3

LEMMA FilteredChannel ==
  ASSUME BroadcastTyped, NEW from \in Nat \ {0}, NEW f, FilterChannelFreq(from, f) <= Len(conf)
  PROVE  FilterChannelFreq(from, f) \in DOMAIN conf /\ FilterChannelFreq(from, f) \in Nat
<1>. DEFINE at == {n \in from .. Len(conf) :
                     LET p == ParseChannelEntry(conf[n]) IN p.ok /\ p.freq = f}
<1>1. DOMAIN conf = 1 .. Len(conf) /\ Len(conf) \in Nat
  BY LenProperties DEF BroadcastTyped
<1>2. FilterChannelFreq(from, f) = IF at = {} THEN Len(conf) + 1 ELSE Min(at)
  BY DEF FilterChannelFreq
<1>3. at \subseteq from .. Len(conf)
  OBVIOUS
<1>. HIDE DEF at
<1>4. at # {}
  BY <1>1, <1>2
<1>5. at \in SUBSET Nat
  BY <1>1, <1>3
<1>6. Min(at) \in at
  BY <1>4, <1>5, LeastInSet
<1>7. Min(at) \in from .. Len(conf)
  BY <1>3, <1>6
<1>. QED
  BY <1>1, <1>2, <1>4, <1>7

(* A PMT names a number.                                                   *)
LEMMA TeletextPidType ==
  ASSUME BroadcastTyped, NEW sec, sec.table = "PMT", TrueSection(sec), NEW before \in Nat
  PROVE  TeletextPid(sec.streams, before) \in Nat
<1>. DEFINE streams == sec.streams
            ttx == {n \in DOMAIN streams : streams[n].type = "teletext"}
<1>1. streams \in Seq([type : STRING, pid : Nat])
  BY DEF TrueSection, BroadcastTyped
<1>2. TeletextPid(streams, before) = IF ttx = {} THEN before ELSE streams[Max(ttx)].pid
  BY DEF TeletextPid
<1>3. ttx \subseteq DOMAIN streams
  OBVIOUS
<1>. HIDE DEF streams, ttx
<1>4. DOMAIN streams = 1 .. Len(streams) /\ Len(streams) \in Nat
  BY <1>1, LenProperties
<1>5. ASSUME ttx # {} PROVE streams[Max(ttx)].pid \in Nat
  <2>1. Max(ttx) \in ttx
    BY <1>3, <1>4, <1>5, GreatestInSet
  <2>2. streams[Max(ttx)] \in [type : STRING, pid : Nat]
    BY <1>1, <1>3, <2>1, LenProperties
  <2>. QED
    BY <2>2
<1>6. TeletextPid(streams, before) \in Nat
  BY <1>2, <1>5
<1>. QED
  BY <1>6 DEF streams

(* The result of the scan for a service is that of the last one with its   *)
(* ID, which exists.                                                       *)
LEMMA ResultType ==
  ASSUME FilterListInv, PidsInv, PidsTyped, main = "scan", NEW k \in DOMAIN srv
  PROVE  ServerEntry(Result(k))
<1>. DEFINE same == {i \in DOMAIN services : services[i].service_id = srv[k].service_id}
<1>1. /\ DOMAIN services = 1 .. Len(srv) /\ Len(srv) \in Nat
      /\ services[k].service_id = srv[k].service_id
      /\ k \in DOMAIN services
  BY SequenceDomain DEF FilterListInv, ScanInv, PidsInv
<1>2. same \in SUBSET (1 .. Len(srv)) /\ same # {}
  BY <1>1
<1>3. Max(same) \in same
  BY <1>1, <1>2, GreatestInSet
<1>4. Max(same) \in DOMAIN services
  BY <1>3
<1>5. Result(k) = [srv[k] EXCEPT !.ttx_pid = services[Max(same)].teletext_pid]
  BY DEF Result
<1>. HIDE DEF same
<1>6. services[Max(same)].teletext_pid \in Nat /\ ServerEntry(srv[k])
  BY <1>4 DEF PidsTyped
<1>. QED
  BY <1>5, <1>6 DEF ServerEntry

LEMMA PidsTypedStep ==
  PidsTyped /\ NamesInv /\ FilterListInv /\ PidsInv /\ BroadcastTyped /\ [Next]_vars
    => PidsTyped'
<1>. SUFFICES ASSUME PidsTyped, NamesInv, FilterListInv, PidsInv, BroadcastTyped, [Next]_vars
              PROVE  PidsTyped'
  OBVIOUS
<1>0. IsSequence(srv) /\ ServicesInv /\ QueuesInv
  BY DEF PidsInv
<1>1. ASSUME UNCHANGED <<services, srv>> PROVE PidsTyped'
  BY <1>1 DEF PidsTyped
<1>2. CASE FindChannel
  <2>. DEFINE p == GetChannelConf(chan)
  <2>1. CASE ~p.ok
    BY <1>1, <1>2, <2>1 DEF FindChannel
  <2>2. CASE p.ok
    <3>1. /\ services' = services
          /\ srv' = <<[service_id |-> p.serviceId, ttx_pid |-> p.ttxPid]>>
      BY <1>2, <2>2 DEF FindChannel
    <3>2. p.ttxPid \in Nat
      BY <2>2, FoundChannel
    <3>. HIDE DEF p
    <3>3. DOMAIN srv' = {1} /\ srv'[1] = [service_id |-> p.serviceId, ttx_pid |-> p.ttxPid]
      BY <3>1
    <3>. QED
      BY <3>1, <3>2, <3>3 DEF PidsTyped, ServerEntry
  <2>. QED
    BY <2>1, <2>2
<1>3. CASE CollectChannel
  <2>. DEFINE n == FilterChannelFreq(line, freq.freq)
              p == ParseChannelEntry(conf[n])
              e == [service_id |-> p.serviceId, ttx_pid |-> p.ttxPid]
  <2>1. /\ services' = services
        /\ srv' = srv \/ (n <= Len(conf) /\ srv' = Append(srv, e))
    <3>1. services' = services
      BY <1>3 DEF CollectChannel
    <3>2. srv' = srv \/ (n <= Len(conf) /\ srv' = Append(srv, e))
      BY <1>3, Zenon DEF CollectChannel
    <3>. QED
      BY <3>1, <3>2
  <2>2. ASSUME n <= Len(conf), srv' = Append(srv, e) PROVE PidsTyped'
    <3>1. p.ttxPid \in Nat
      BY <2>2, FilteredChannel, ParsedPid DEF NamesInv
    <3>2. ServerEntry(e)
      BY <3>1 DEF ServerEntry
    <3>. HIDE DEF n, p, e
    <3>3. /\ DOMAIN srv' = 1 .. Len(srv) + 1 /\ DOMAIN srv = 1 .. Len(srv)
          /\ Len(srv) \in Nat
          /\ \A i \in 1 .. Len(srv) : srv'[i] = srv[i]
          /\ srv'[Len(srv) + 1] = e
      BY <1>0, <2>2, AppendProperties, LenProperties DEF IsSequence
    <3>4. ASSUME NEW i \in DOMAIN srv' PROVE ServerEntry(srv'[i])
      <4>1. i \in DOMAIN srv \/ i = Len(srv) + 1
        BY <3>3
      <4>2. i \in DOMAIN srv => ServerEntry(srv'[i])
        BY <3>3 DEF PidsTyped
      <4>. QED
        BY <3>2, <3>3, <4>1, <4>2
    <3>5. \A k \in DOMAIN services' : services'[k].teletext_pid \in Nat
      BY <2>1 DEF PidsTyped
    <3>. QED
      BY <3>4, <3>5 DEF PidsTyped, ServerEntry
  <2>. QED
    BY <1>1, <2>1, <2>2
<1>4. CASE Tune
  <2>1. CASE StartScan
    <3>1. /\ srv' = srv
          /\ services' = [k \in DOMAIN srv |->
               [service_id |-> srv[k].service_id, teletext_pid |-> 0, priv |-> FALSE]]
      BY <2>1 DEF StartScan
    <3>. QED
      BY <3>1 DEF PidsTyped
  <2>2. CASE UNCHANGED scanVars
    BY <1>1, <2>2 DEF scanVars
  <2>. QED
    BY <1>4, <2>1, <2>2 DEF Tune
<1>5. CASE ScanEnded
  <2>1. main = "scan" /\ services' = services /\ srv' = [k \in DOMAIN srv |-> Result(k)]
    BY <1>5 DEF ScanEnded, ReportPids
  <2>2. \A k \in DOMAIN srv : ServerEntry(Result(k))
    BY <2>1, ResultType
  <2>. QED
    BY <2>1, <2>2 DEF PidsTyped
<1>6. CASE TuneFails \/ ScanFailed \/ PrintPids \/ Hold \/ Release
  BY <1>1, <1>6 DEF TuneFails, ScanFailed, PrintPids, Hold, Release, scanVars
<1>7. ASSUME NEW f, ReadPat(f) PROVE PidsTyped'
  <2>1. PICK new : services' = [k \in DOMAIN services |->
                     [services[k] EXCEPT !.priv = services[k].priv \/ k \in new]]
    BY <1>7, Zenon DEF ReadPat
  <2>2. srv' = srv
    BY <1>7 DEF ReadPat, Reads
  <2>3. ASSUME NEW k \in DOMAIN services
        PROVE  services'[k].teletext_pid = services[k].teletext_pid
    <3>1. services'[k] = [services[k] EXCEPT !.priv = services[k].priv \/ k \in new]
      BY <2>1
    <3>2. ServiceRecord(services[k])
      BY <1>0 DEF ServicesInv
    <3>. QED
      BY <3>1, <3>2 DEF ServiceRecord
  <2>4. DOMAIN services' = DOMAIN services
    BY <2>1
  <2>. QED
    BY <2>2, <2>3, <2>4 DEF PidsTyped
<1>8. ASSUME NEW f, ReadPmt(f) PROVE PidsTyped'
  <2>1. PICK sec :
          /\ Reads(f, sec) /\ sec.table = "PMT"
          /\ services' = [k \in DOMAIN services |->
               IF k = Addressed(f, sec)
               THEN [services[k] EXCEPT !.teletext_pid = TeletextPid(sec.streams, @)]
               ELSE services[k]]
    BY <1>8, Zenon DEF ReadPmt
  <2>2. TrueSection(sec)
    BY <1>0, <2>1, QueueTail DEF Reads, QueuesInv
  <2>3. ASSUME NEW k \in DOMAIN services PROVE services'[k].teletext_pid \in Nat
    <3>. DEFINE before == services[k].teletext_pid
    <3>1. ServiceRecord(services[k]) /\ before \in Nat
      BY <1>0 DEF ServicesInv, PidsTyped
    <3>2. TeletextPid(sec.streams, before) \in Nat
      BY <2>1, <2>2, <3>1, TeletextPidType
    <3>3. \/ services'[k] = services[k]
          \/ services'[k] = [services[k] EXCEPT !.teletext_pid = TeletextPid(sec.streams, before)]
      BY <2>1
    <3>. QED
      BY <3>1, <3>2, <3>3 DEF ServiceRecord
  <2>4. DOMAIN services' = DOMAIN services /\ srv' = srv
    BY <2>1 DEF Reads
  <2>. QED
    BY <2>3, <2>4 DEF PidsTyped
<1>9. CASE Scanning /\ Environment
  BY <1>1, <1>9 DEF Scanning, Environment, Transmit, Arrives, UpdatePat, Second
<1>10. CASE Scanning /\ ReadFilters
  <2>1. ASSUME NEW f, NoEvent(f) \/ ReadUnusable(f) \/ ReadGarbled(f) \/ ReadRepeated(f)
                      \/ TooManyFilters(f)
        PROVE  PidsTyped'
    BY <1>1, <2>1
    DEF NoEvent, ReadUnusable, ReadGarbled, ReadRepeated, TooManyFilters, Reads
  <2>. QED
    BY <1>1, <1>7, <1>8, <1>10, <2>1 DEF ReadFilters, Poll
<1>11. CASE UNCHANGED vars
  BY <1>1, <1>11 DEF vars, scanVars
<1>. QED
  BY <1>2, <1>3, <1>4, <1>5, <1>6, <1>9, <1>10, <1>11 DEF Next, Main, Scanning

(* Names and services are counted together.                                *)
LEMMA NamesStep ==
  NamesInv /\ PidsInv /\ FilterListInv /\ BroadcastTyped /\ [Next]_vars => NamesInv'
<1>. SUFFICES ASSUME NamesInv, PidsInv, FilterListInv, BroadcastTyped, [Next]_vars
              PROVE  NamesInv'
  OBVIOUS
<1>0. IsSequence(srv) /\ IsSequence(names) /\ line \in Nat \ {0}
  BY DEF PidsInv, NamesInv
<1>1. ASSUME UNCHANGED <<names, line>>, Len(srv') = Len(srv),
             main' # "start", main' = "collect" => main = "collect"
      PROVE  NamesInv'
  BY <1>1 DEF NamesInv
<1>2. CASE FindChannel
  <2>1. /\ main = "start" /\ main' \in {"collect", "print", "tune", "error"}
        /\ UNCHANGED <<names, line>>
        /\ \/ main' = "error" /\ srv' = srv
           \/ \E e : srv' = <<e>>
    BY <1>2 DEF FindChannel, Exit
  <2>2. Len(names) = 1
    BY <2>1 DEF NamesInv
  <2>3. main' = "error" \/ Len(srv') = 1
    BY <2>1
  <2>. QED
    BY <1>0, <2>1, <2>2, <2>3 DEF NamesInv
<1>3. CASE CollectChannel
  <2>. DEFINE n == FilterChannelFreq(line, freq.freq)
  <2>1. /\ main = "collect" /\ main' \in {"collect", "print", "tune"}
        /\ \/ UNCHANGED <<names, srv, line>>
           \/ /\ n <= Len(conf) /\ line' = n + 1
              /\ \/ UNCHANGED <<names, srv>>
                 \/ \E d, e : names' = Append(names, d) /\ srv' = Append(srv, e)
    BY <1>3, Zenon DEF CollectChannel, Names
  <2>2. Len(names) = Len(srv) /\ IsSequence(names)
    BY <2>1 DEF NamesInv
  <2>3. n <= Len(conf) => n \in Nat
    BY <1>0, FilteredChannel
  <2>. HIDE DEF n
  <2>4. line' \in Nat \ {0}
    BY <1>0, <2>1, <2>3
  <2>5. IsSequence(names') /\ Len(names') = Len(srv')
    <3>1. ASSUME NEW s, IsSequence(s), NEW e PROVE Len(Append(s, e)) = Len(s) + 1
      BY <3>1, AppendProperties DEF IsSequence
    <3>. QED
      <4>1. CASE UNCHANGED <<names, srv>>
        BY <2>2, <4>1
      <4>2. ASSUME NEW d, NEW e, names' = Append(names, d), srv' = Append(srv, e)
            PROVE  IsSequence(names') /\ Len(names') = Len(srv')
        BY <1>0, <2>2, <3>1, <4>2, SequenceAppend
      <4>. QED
        BY <2>1, <4>1, <4>2
  <2>. QED
    BY <2>1, <2>4, <2>5 DEF NamesInv
<1>4. CASE Tune
  <2>1. UNCHANGED <<names, line, srv>> /\ main' \in {"scan", "tuned"}
    BY <1>4 DEF Tune, StartScan, scanVars
  <2>. QED
    BY <1>1, <2>1
<1>5. CASE ScanEnded
  <2>1. /\ UNCHANGED <<names, line>> /\ main' \in {"print", "error", "tuned"}
        /\ srv' = [k \in DOMAIN srv |-> Result(k)]
    BY <1>5 DEF ScanEnded, ReportPids, Exit
  <2>2. Len(srv') = Len(srv)
    <3>1. IsSequence(srv') /\ DOMAIN srv' = DOMAIN srv
      BY <1>0, <2>1, SequenceSame
    <3>2. 1 .. Len(srv') = 1 .. Len(srv) /\ Len(srv) \in Nat /\ Len(srv') \in Nat
      BY <1>0, <3>1, SequenceDomain
    <3>. QED
      BY <3>2
  <2>. QED
    BY <1>1, <2>1, <2>2
<1>6. CASE TuneFails \/ ScanFailed \/ PrintPids \/ Hold \/ Release
  <2>1. UNCHANGED <<names, line, srv>> /\ main' \in {"print", "ok", "error", "holding"}
    BY <1>6 DEF TuneFails, ScanFailed, PrintPids, Hold, Release, Exit, scanVars
  <2>. QED
    BY <1>1, <2>1
<1>7. CASE Scanning
  <2>1. UNCHANGED <<names, line, main>> /\ main = "scan"
    BY <1>7 DEF Scanning, tuneVars
  <2>2. srv' = srv
    <3>1. ASSUME NEW f, \/ NoEvent(f) \/ ReadUnusable(f) \/ ReadGarbled(f)
                        \/ ReadRepeated(f) \/ ReadPat(f) \/ TooManyFilters(f) \/ ReadPmt(f)
          PROVE  srv' = srv
      BY <3>1 DEF NoEvent, ReadUnusable, ReadGarbled, ReadRepeated, ReadPat,
                  TooManyFilters, ReadPmt, Reads
    <3>. QED
      BY <1>7, <3>1 DEF Scanning, ReadFilters, Poll, Environment, Transmit, Arrives,
                        UpdatePat, Second
  <2>. QED
    BY <1>1, <2>1, <2>2
<1>8. CASE UNCHANGED vars
  BY <1>8 DEF vars, scanVars, tuneVars, NamesInv
<1>. QED
  BY <1>2, <1>3, <1>4, <1>5, <1>6, <1>7, <1>8 DEF Next, Main

(* The indices in the poll arrays are those of open filters, none twice,   *)
(* and every name belongs to the service of the same place.                *)
THEOREM TuneTypes == Spec => []TypeOK
<1>1. Init => PidsTyped /\ NamesInv
  <2>. SUFFICES ASSUME Init PROVE PidsTyped /\ NamesInv
    OBVIOUS
  <2>1. main = "start" /\ names = <<chan>> /\ line = 1 /\ srv = <<>> /\ services = <<>>
    BY DEF Init
  <2>2. names \in Seq({chan}) /\ Len(names) = 1
    BY <2>1
  <2>3. IsSequence(names)
    BY <2>2 DEF IsSequence
  <2>4. DOMAIN srv = {} /\ DOMAIN services = {}
    BY <2>1
  <2>5. PidsTyped
    BY <2>4 DEF PidsTyped
  <2>6. NamesInv
    BY <2>1, <2>2, <2>3 DEF NamesInv
  <2>. QED
    BY <2>5, <2>6
<1>2. PidsTyped /\ NamesInv /\ FilterListInv => TypeOK
  <2>. SUFFICES ASSUME PidsTyped, NamesInv, FilterListInv PROVE TypeOK
    OBVIOUS
  <2>1. ToSet(running) = Range(running) /\ DOMAIN running = 1 .. Len(running)
    BY ToSetIsRange, LenProperties DEF FilterListInv, FiltersInv
  <2>. QED
    BY <2>1 DEF PidsTyped, ServerEntry, NamesInv, FilterListInv, FiltersInv, ScanInv, NoRepeat,
                PrivateServices, TypeOK
<1>. QED
  BY <1>1, <1>2, PidsTypedStep, NamesStep, PidsInvariant, FiltersInvariant, PTL DEF Spec
-----------------------------------------------------------------------------
(* The scan finds what is on air                                           *)

(* The services that ScanComplete is about.  IDs are taken from the list   *)
(* of the caller, which the scan leaves alone.                             *)
Wanted == {k \in DOMAIN srv : Own(srv[k].service_id)}

(* The following predicates are about a section buffer fl, its queue q and *)
(* the other parts of the state that change in a scan: the set P of the    *)
(* services that had a filter, the version ver of the PAT on air, the set  *)
(* snt of the sections sent in this second and the number g of garbled     *)
(* ones.  This way they can be stated of the middle of a turn, before the  *)
(* filter is looked at by Conclude.                                        *)

(* The age of a filter is bounded by one second if it was opened in the    *)
(* middle of one (base), one for each section that was garbled, less one   *)
(* if in this second a section was missed already.  Before a garbled       *)
(* section is read, only that section may make the filter wait longer.     *)
InTime(fl, q, late, base, g) ==
  /\ fl.timeout \in {Timeout, SlowTimeout} /\ fl.age \in Nat
  /\ fl.age + late <= base + g
  /\ fl.timeout = Timeout =>
       /\ fl.age <= base
       /\ Bad("garbled") \notin Range(q) => fl.age + late <= base

IsPat(sec, ver) == \E v \in 1 .. ver : \E n \in DOMAIN tp.pat[v] : sec = PatSection(v, n)

(* A section of the PAT that needs not be sent again.                      *)
Heard(fl, q, sec) ==
  sec \in Range(q) \/ (fl.version = sec.version /\ sec.number \in fl.done)

PatLate(fl, q, ver, snt) ==
  IF \E n \in DOMAIN tp.pat[ver] :
       PatSection(ver, n) \in snt /\ ~Heard(fl, q, PatSection(ver, n))
  THEN 1 ELSE 0

(* Section n of PAT version v names service k.                             *)
NamedIn(k, v, n) == \E e \in ToSet(tp.pat[v][n]) : e.sid = srv[k].service_id

(* The services that were named have filters; a section is missing yet.    *)
PatRead(fl, P, ver) ==
  /\ fl.pid = PidPat
  /\ \/ fl.version = -1 /\ fl.done = {}
     \/ /\ fl.version \in 1 .. ver /\ fl.ext = 0
        /\ ~(0 .. Len(tp.pat[fl.version]) - 1 \subseteq fl.done)
        /\ \A n \in DOMAIN tp.pat[fl.version] : n - 1 \in fl.done =>
             \A k \in Wanted : NamedIn(k, fl.version, n) => k \in P

(* What is waiting is in the order in which it was on air.                 *)
PatQueue(fl, q, ver) ==
  /\ \A sec \in Range(q) :
       sec = Bad("garbled") \/ (IsPat(sec, ver) /\ fl.version <= sec.version)
  /\ \A i, j \in 1 .. Len(q) :
       i < j /\ q[i] # Bad("garbled") /\ q[j] # Bad("garbled") => q[i].version <= q[j].version

PatOpen(fl, q, P, ver, snt, g) ==
  /\ PatRead(fl, P, ver) /\ PatQueue(fl, q, ver)
  /\ InTime(fl, q, PatLate(fl, q, ver, snt), 0, g)

PmtLate(q, sec, snt) == IF sec \in snt /\ sec \notin Range(q) THEN 1 ELSE 0

(* The filter of service k waits for the only section on its PID; it may   *)
(* have been opened just after that was sent.                              *)
PmtOpen(k, fl, q, snt, g) ==
  LET id == srv[k].service_id
      sec == PmtSection(fl.pid, id)
  IN /\ fl.pid \in DOMAIN tp.pmt /\ DOMAIN tp.pmt[fl.pid] = {id}
     /\ fl.done = {}
     /\ Range(q) \subseteq {Bad("garbled"), sec}
     /\ InTime(fl, q, PmtLate(q, sec, snt), 1, g)

(* Of the filters in the set open, with buffers fls and queues qs; K are   *)
(* the services whose PID is known.  Every service that is wanted is known *)
(* or will be: by its own filter, or by that of the PAT before that.       *)
InHand(fls, qs, open, P, K, ver, snt, g) ==
  /\ Wanted # {} => IF 0 \in open THEN PatOpen(fls[0], qs[0], P, ver, snt, g)
                    ELSE Wanted \subseteq P
  /\ \A k \in Wanted \intersect P :
       IF k \in open THEN PmtOpen(k, fls[k], qs[k], snt, g) ELSE k \in K

KnownServices ==
  {k \in DOMAIN services : {services[k].teletext_pid} = TruePids(srv[k].service_id)}

FilterRecord(fl) ==
  fl = [pid |-> fl.pid, table |-> fl.table, ext |-> fl.ext, version |-> fl.version,
        done |-> fl.done, timeout |-> fl.timeout, age |-> fl.age]

FiltersTyped(fls, qs, open) ==
  /\ DOMAIN fls = {0} \union DOMAIN srv /\ DOMAIN qs = DOMAIN fls
  /\ \A f \in DOMAIN fls : FilterRecord(fls[f]) /\ IsSequence(qs[f])
  /\ \A f \in DOMAIN qs \ open : qs[f] = <<>>
  /\ open \subseteq DOMAIN fls
  /\ \A f \in open : fls[f].table = IF f = 0 THEN "PAT" ELSE "PMT"

(* A section of a PAT that is not on air yet was not sent.                 *)
CountsInv ==
  /\ garbled \in 0 .. Garbles
  /\ \A sec \in sent : sec.table = "PAT" => sec.version \in 1 .. patVersion

ScanState ==
  /\ CountsInv
  /\ scan = "scanned" => running = <<>>
  /\ FiltersTyped(filter, queue, Range(running))
  /\ InHand(filter, queue, Range(running), PrivateServices, KnownServices,
            patVersion, sent, garbled)

(* ScanComplete is not inductive: it says nothing of the filters that are  *)
(* open while the scan runs.                                               *)
CompleteInv ==
  /\ main # "scan" => scan \in {"idle", "failed"}
  /\ main \in {"start", "collect", "tune"} => sent = {} /\ garbled = 0
  /\ main = "scan" /\ scan \in {"scan", "scanned"} /\ timely /\ DistinctServices
       => ScanState

-----------------------------------------------------------------------------
(* What is on air while the scan runs                                      *)

(* The transponder is one of the setups and does not change.               *)
SetupInv == \E s \in Setups : tp = s.tp /\ timely = s.timely

LEMMA SetupInvariant == Spec => []SetupInv
<1>1. Init => SetupInv
  BY DEF Init, SetupInv
<1>2. SetupInv /\ [Next]_vars => SetupInv'
  <2>. SUFFICES ASSUME SetupInv, [Next]_vars PROVE tp' = tp /\ timely' = timely
    BY DEF SetupInv
  <2>1. CASE Main
    <3>1. CASE Tune
      BY <3>1 DEF Tune, StartScan, scanVars
    <3>2. CASE ~Tune
      BY <2>1, <3>2
      DEF Main, FindChannel, CollectChannel, TuneFails, ScanEnded, ReportPids,
          ScanFailed, PrintPids, Hold, Release, scanVars
    <3>. QED
      BY <3>1, <3>2
  <2>2. CASE Scanning
    BY <2>2
    DEF Scanning, Environment, ReadFilters, Poll, NoEvent, ReadUnusable, ReadGarbled,
        ReadRepeated, ReadPat, TooManyFilters, ReadPmt, Reads, Transmit, Arrives,
        UpdatePat, Second
  <2>3. CASE UNCHANGED vars
    BY <2>3 DEF vars, scanVars
  <2>. QED
    BY <2>1, <2>2, <2>3 DEF Next
<1>. QED
  BY <1>1, <1>2, PTL DEF Spec

(* What TimelyAssumption says of the transponder.                          *)
LEMMA Orderly ==
  ASSUME SetupInv, timely, BroadcastTyped
  PROVE  /\ PidPat \notin DOMAIN tp.pmt
         /\ \A p, q \in DOMAIN tp.pmt :
              \A id \in DOMAIN tp.pmt[p] \intersect DOMAIN tp.pmt[q] : id # 0 /\ p = q
         /\ 1 <= Timeout /\ Garbles + 1 <= SlowTimeout
         /\ patVersion \in Nat \ {0} /\ Garbles \in Nat
         /\ Timeout \in Nat /\ SlowTimeout \in Nat /\ Timeout < SlowTimeout
<1>1. PICK s \in Setups : tp = s.tp /\ timely = s.timely
  BY DEF SetupInv
<1>2. patVersion \in 1 .. Len(tp.pat) /\ Len(tp.pat) \in Nat
  BY LenProperties DEF BroadcastTyped
<1>3. 1 <= Timeout /\ Garbles + 1 <= SlowTimeout
  BY <1>1, TimelyAssumption
<1>4. /\ PidPat \notin DOMAIN tp.pmt
      /\ \A p, q \in DOMAIN tp.pmt :
           \A id \in DOMAIN tp.pmt[p] \intersect DOMAIN tp.pmt[q] : id # 0 /\ p = q
  BY <1>1, TimelyAssumption
<1>. QED
  BY <1>2, <1>3, <1>4, ScanAssumption

(* A service that is wanted has one PMT, and so one PID that is true.      *)
LEMMA OwnPmt ==
  ASSUME SetupInv, timely, BroadcastTyped, NEW id, NEW pid \in DOMAIN tp.pmt,
         id \in DOMAIN tp.pmt[pid]
  PROVE  /\ TruePids(id) = {TeletextPid(tp.pmt[pid][id], 0)} /\ id # 0
         /\ \A p \in DOMAIN tp.pmt : id \in DOMAIN tp.pmt[p] => p = pid
<1>1. \A p \in DOMAIN tp.pmt : id \in DOMAIN tp.pmt[p] => p = pid
  BY Orderly
<1>2. {p \in DOMAIN tp.pmt : id \in DOMAIN tp.pmt[p]} = {pid}
  BY <1>1
<1>. QED
  BY <1>1, <1>2, Orderly DEF TruePids

-----------------------------------------------------------------------------
(* A section buffer                                                        *)

LEMMA NotedParts ==
  ASSUME NEW fl, FilterRecord(fl), NEW sec
  PROVE  /\ FilterRecord(Noted(fl, sec))
         /\ Noted(fl, sec).pid = fl.pid /\ Noted(fl, sec).table = fl.table
         /\ Noted(fl, sec).timeout = fl.timeout /\ Noted(fl, sec).age = fl.age
         /\ Noted(fl, sec).ext = sec.ext /\ Noted(fl, sec).version = sec.version
         /\ (fl.version # sec.version \/ fl.ext # sec.ext) =>
              Noted(fl, sec).done = {sec.number} /\ ~AlreadyRead(fl, sec)
         /\ (fl.version = sec.version /\ fl.ext = sec.ext) =>
              /\ Noted(fl, sec).done = fl.done \union {sec.number}
              /\ AlreadyRead(fl, sec) <=> sec.number \in fl.done
<1>1. CASE fl.version # sec.version \/ fl.ext # sec.ext
  <2>1. Fresh(fl, sec) = [pid |-> fl.pid, table |-> fl.table, ext |-> sec.ext,
                          version |-> sec.version, done |-> {},
                          timeout |-> fl.timeout, age |-> fl.age]
    <3>1. Fresh(fl, sec) = [fl EXCEPT !.ext = sec.ext, !.version = sec.version, !.done = {}]
      BY <1>1 DEF Fresh
    <3>2. [fl EXCEPT !.ext = sec.ext]
            = [pid |-> fl.pid, table |-> fl.table, ext |-> sec.ext, version |-> fl.version,
               done |-> fl.done, timeout |-> fl.timeout, age |-> fl.age]
      BY DEF FilterRecord
    <3>. QED
      BY <3>1, <3>2 DEF FilterRecord
  <2>2. Noted(fl, sec) = [pid |-> fl.pid, table |-> fl.table, ext |-> sec.ext,
                          version |-> sec.version, done |-> {sec.number},
                          timeout |-> fl.timeout, age |-> fl.age]
    BY <2>1 DEF Noted, FilterRecord
  <2>3. Fresh(fl, sec).done = {}
    BY <2>1 DEF FilterRecord
  <2>. QED
    BY <1>1, <2>2, <2>3 DEF AlreadyRead, FilterRecord
<1>2. CASE fl.version = sec.version /\ fl.ext = sec.ext
  <2>1. Fresh(fl, sec) = fl
    BY <1>2 DEF Fresh
  <2>2. Noted(fl, sec) = [pid |-> fl.pid, table |-> fl.table, ext |-> fl.ext,
                          version |-> fl.version, done |-> fl.done \union {sec.number},
                          timeout |-> fl.timeout, age |-> fl.age]
    BY <2>1 DEF Noted, FilterRecord
  <2>. QED
    BY <1>2, <2>1, <2>2 DEF AlreadyRead, FilterRecord
<1>. QED
  BY <1>1, <1>2

(* A filter that is read in time is not given up.                          *)
LEMMA NotTimedOut ==
  ASSUME NEW fl, NEW q, NEW late \in {0, 1}, NEW base \in Nat, NEW g \in 0 .. Garbles,
         InTime(fl, q, late, base, g), base <= Timeout, Garbles + base <= SlowTimeout
  PROVE  ~TimedOut(fl)
BY ScanAssumption DEF InTime, TimedOut

(* The bound holds on if less is late, or when more was garbled, unless a  *)
(* garbled section was taken off the queue without a longer wait.          *)
LEMMA InTimeStill ==
  ASSUME NEW fl, NEW q, NEW late \in {0, 1}, NEW base \in Nat, NEW g \in Nat,
         InTime(fl, q, late, base, g),
         NEW gl, gl.timeout = fl.timeout, gl.age = fl.age,
         NEW r, NEW late2 \in {0, 1}, late2 <= late,
         Bad("garbled") \in Range(q) => Bad("garbled") \in Range(r)
  PROVE  InTime(gl, r, late2, base, g)
BY DEF InTime

LEMMA InTimeGarbled ==
  ASSUME NEW fl, NEW q, NEW late \in {0, 1}, NEW base \in Nat, NEW g \in Nat,
         InTime(fl, q, late, base, g), NEW r, NEW late2 \in {0, 1},
         Bad("garbled") \in Range(r)
  PROVE  InTime(fl, r, late2, base, g + 1)
BY DEF InTime

LEMMA InTimeSlow ==
  ASSUME NEW fl, NEW q, NEW late \in {0, 1}, NEW base \in Nat, NEW g \in Nat,
         InTime(fl, q, late, base, g),
         NEW gl, gl.timeout = SlowTimeout, gl.age = fl.age,
         NEW r, NEW late2 \in {0, 1}, late2 <= late
  PROVE  InTime(gl, r, late2, base, g)
BY ScanAssumption DEF InTime

-----------------------------------------------------------------------------
(* A turn of the poll loop                                                 *)

(* The air and the list of the caller stay the same while the scan runs.   *)
LEMMA SameAir ==
  ASSUME UNCHANGED <<tp, srv>>
  PROVE  /\ \A fl, q, P, ver, snt, g :
              PatOpen(fl, q, P, ver, snt, g)' <=> PatOpen(fl, q, P, ver, snt, g)
         /\ \A k, fl, q, snt, g :
              PmtOpen(k, fl, q, snt, g)' <=> PmtOpen(k, fl, q, snt, g)
         /\ Wanted' = Wanted
<1>1. Wanted' = Wanted
  BY DEF Wanted, Own
<1>2. \A k, fl, q, snt, g :
         PmtOpen(k, fl, q, snt, g)' <=> PmtOpen(k, fl, q, snt, g)
  BY DEF PmtOpen, PmtSection
<1>3. ASSUME NEW fl, NEW q, NEW P, NEW ver, NEW snt, NEW g
      PROVE  PatOpen(fl, q, P, ver, snt, g)' <=> PatOpen(fl, q, P, ver, snt, g)
  <2>1. PatRead(fl, P, ver)' <=> PatRead(fl, P, ver)
    BY <1>1 DEF PatRead, NamedIn
  <2>2. PatQueue(fl, q, ver)' <=> PatQueue(fl, q, ver)
    BY DEF PatQueue, IsPat, PatSection
  <2>3. PatLate(fl, q, ver, snt)' = PatLate(fl, q, ver, snt)
    BY DEF PatLate, PatSection
  <2>. QED
    BY <2>1, <2>2, <2>3 DEF PatOpen
<1>. QED
  BY <1>1, <1>2, <1>3

LEMMA InHandPrimed ==
  ASSUME UNCHANGED <<tp, srv>>,
         InHand(filter', queue', Range(running'), PrivateServices', KnownServices',
                patVersion', sent', garbled')
  PROVE  InHand(filter, queue, Range(running), PrivateServices, KnownServices,
                patVersion, sent, garbled)'
<1>1. PatOpen(filter[0], queue[0], PrivateServices, patVersion, sent, garbled)'
        <=> PatOpen(filter'[0], queue'[0], PrivateServices', patVersion', sent', garbled')
  BY SameAir
<1>2. ASSUME NEW k
      PROVE  PmtOpen(k, filter[k], queue[k], sent, garbled)'
               <=> PmtOpen(k, filter'[k], queue'[k], sent', garbled')
  BY SameAir
<1>3. Wanted' = Wanted
  BY SameAir
<1>. QED
  BY <1>1, <1>2, <1>3 DEF InHand

(* A filter that has time and is not done is not dropped.                  *)
LEMMA OpenInTime ==
  ASSUME SetupInv, timely, BroadcastTyped, NEW fl, NEW q, garbled \in 0 .. Garbles,
         \/ \E P : PatOpen(fl, q, P, patVersion, sent, garbled)
         \/ \E k : PmtOpen(k, fl, q, sent, garbled)
  PROVE  ~TimedOut(fl)
<1>1. /\ 1 <= Timeout /\ Garbles + 1 <= SlowTimeout /\ Garbles \in Nat
      /\ 0 <= Timeout /\ Garbles + 0 <= SlowTimeout
  BY Orderly
<1>2. ASSUME NEW P, PatOpen(fl, q, P, patVersion, sent, garbled) PROVE ~TimedOut(fl)
  <2>1. PatLate(fl, q, patVersion, sent) \in {0, 1}
    BY DEF PatLate
  <2>2. InTime(fl, q, PatLate(fl, q, patVersion, sent), 0, garbled)
    BY <1>2 DEF PatOpen
  <2>. QED
    BY <1>1, <2>1, <2>2, NotTimedOut
<1>3. ASSUME NEW k, PmtOpen(k, fl, q, sent, garbled) PROVE ~TimedOut(fl)
  <2>. DEFINE sec == PmtSection(fl.pid, srv[k].service_id)
  <2>1. PmtLate(q, sec, sent) \in {0, 1}
    BY DEF PmtLate
  <2>2. InTime(fl, q, PmtLate(q, sec, sent), 1, garbled)
    BY <1>3 DEF PmtOpen
  <2>. QED
    BY <1>1, <2>1, <2>2, NotTimedOut
<1>. QED
  BY <1>2, <1>3

(* What holds in a state of the scan, and stays the same in a turn.        *)
InScan ==
  /\ PidsInv /\ FilterListInv /\ BroadcastTyped /\ SetupInv
  /\ timely /\ DistinctServices /\ main = "scan" /\ ScanState

SameTables == UNCHANGED <<srv, tp, patVersion, timely, sent, garbled>>

(* In the rest of a turn, filter f is dropped if it is done; if it is not, *)
(* it is dropped only if no service that is wanted depends on it.          *)
LEMMA ConcludeState ==
  ASSUME InScan, SameTables,
         NEW run \in Seq(Nat), NoRepeat(run), NEW f \in Range(run), NEW done,
         NEW fls, NEW q, NEW rev, Conclude(f, done, fls, run, rev, q),
         FiltersTyped(fls, q, Range(run)), NEW open,
         open = (IF done THEN Range(run) \ {f} ELSE Range(run)),
         InHand(fls, q, open, PrivateServices', KnownServices', patVersion, sent, garbled)
  PROVE  ScanState'
<1>. DEFINE drop == done \/ TimedOut(fls[f])
            qs == IF drop THEN [q EXCEPT ![f] = <<>>] ELSE q
            left == IF drop THEN Range(run) \ {f} ELSE Range(run)
<1>1. /\ filter' = fls /\ queue' = qs
      /\ running' = IF drop THEN Without(run, f) ELSE run
      /\ scan' = "scanned" => running' = <<>>
  BY DEF Conclude
<1>2. Range(running') = left
  BY <1>1, WithoutFilter
<1>3. UNCHANGED <<srv, tp, patVersion, sent, garbled>>
  BY DEF SameTables
<1>4. CountsInv'
  BY <1>3 DEF InScan, ScanState, CountsInv
<1>5. /\ DOMAIN fls = {0} \union DOMAIN srv /\ DOMAIN q = DOMAIN fls
      /\ \A g \in DOMAIN fls : FilterRecord(fls[g]) /\ IsSequence(q[g])
      /\ \A g \in DOMAIN q \ Range(run) : q[g] = <<>>
      /\ Range(run) \subseteq DOMAIN fls
      /\ \A g \in Range(run) : fls[g].table = IF g = 0 THEN "PAT" ELSE "PMT"
  BY DEF FiltersTyped
<1>6. /\ DOMAIN qs = DOMAIN q
      /\ \A g \in DOMAIN q : qs[g] = IF drop /\ g = f THEN <<>> ELSE q[g]
  BY Zenon
<1>7. FiltersTyped(fls, qs, left)
  <2>1. IsSequence(<<>>)
    BY EmptySeq DEF IsSequence
  <2>2. \A g \in DOMAIN qs \ left : qs[g] = <<>>
    BY <1>5, <1>6
  <2>3. \A g \in DOMAIN fls : IsSequence(qs[g])
    BY <1>5, <1>6, <2>1
  <2>. HIDE DEF qs
  <2>. QED
    BY <1>5, <1>6, <2>2, <2>3 DEF FiltersTyped
<1>8. FiltersTyped(filter, queue, Range(running))'
  BY <1>1, <1>2, <1>3, <1>7 DEF FiltersTyped, FilterRecord
<1>. DEFINE P == PrivateServices'
            K == KnownServices'
<1>9. ASSUME f \in open, drop
      PROVE  ~(f = 0 /\ Wanted # {}) /\ f \notin Wanted \intersect P
  <2>1. TimedOut(fls[f]) /\ ~done
    BY <1>9
  <2>2. ~\E p : PatOpen(fls[f], q[f], p, patVersion, sent, garbled)
    BY <2>1, OpenInTime DEF InScan, ScanState, CountsInv
  <2>3. ~\E k : PmtOpen(k, fls[f], q[f], sent, garbled)
    BY <2>1, OpenInTime DEF InScan, ScanState, CountsInv
  <2>. QED
    BY <1>9, <2>2, <2>3 DEF InHand
<1>10. InHand(fls, qs, left, P, K, patVersion, sent, garbled)
  <2>. HIDE DEF qs, P, K
  <2>1. left = open \/ (left = open \ {f} /\ drop /\ f \in open)
    OBVIOUS
  <2>2. \A g \in left : qs[g] = q[g]
    <3>1. left \subseteq DOMAIN q
      BY <1>5
    <3>. QED
      BY <1>6, <3>1
  <2>. HIDE DEF left, drop
  <2>3. InHand(fls, q, open, P, K, patVersion, sent, garbled)
    BY DEF P, K
  <2>4. Wanted # {} => IF 0 \in left THEN PatOpen(fls[0], qs[0], P, patVersion, sent, garbled)
                       ELSE Wanted \subseteq P
    BY <1>9, <2>1, <2>2, <2>3 DEF InHand
  <2>5. \A k \in Wanted \intersect P :
          IF k \in left THEN PmtOpen(k, fls[k], qs[k], sent, garbled) ELSE k \in K
    BY <1>9, <2>1, <2>2, <2>3 DEF InHand
  <2>. QED
    BY <2>4, <2>5 DEF InHand
<1>11. InHand(filter, queue, Range(running), PrivateServices, KnownServices,
              patVersion, sent, garbled)'
  BY <1>1, <1>2, <1>3, <1>10, InHandPrimed
<1>. QED
  BY <1>1, <1>4, <1>8, <1>11 DEF ScanState

(* What a filter reads is what was sent on its PID.                        *)
LEMMA WhatIsRead ==
  ASSUME InScan, NEW f, NEW sec, Reads(f, sec)
  PROVE  /\ SameTables
         /\ running \in Seq(Nat) /\ NoRepeat(running) /\ f \in Range(running)
         /\ f \in DOMAIN filter /\ FilterRecord(filter[f])
         /\ IsSequence(queue[f]) /\ queue[f] # <<>> /\ sec = Head(queue[f])
         /\ DOMAIN Taken(f) = DOMAIN filter /\ IsSequence(Taken(f)[f])
         /\ Taken(f)[f] = Tail(queue[f])
         /\ \A g \in DOMAIN filter \ {f} : Taken(f)[g] = queue[g]
         /\ (f = 0 /\ Wanted # {}) =>
              /\ PatOpen(filter[0], queue[0], PrivateServices, patVersion, sent, garbled)
              /\ sec = Bad("garbled") \/ IsPat(sec, patVersion)
         /\ f \in Wanted \intersect PrivateServices =>
              /\ PmtOpen(f, filter[f], queue[f], sent, garbled)
              /\ sec \in {Bad("garbled"), PmtSection(filter[f].pid, srv[f].service_id)}
<1>1. SameTables /\ f \in Range(running) /\ queue[f] # <<>> /\ sec = Head(queue[f])
  BY DEF Reads, Turn, Range, SameTables
<1>2. running \in Seq(Nat) /\ NoRepeat(running)
  BY DEF InScan, FilterListInv, FiltersInv
<1>3. /\ Range(running) \subseteq DOMAIN filter /\ DOMAIN queue = DOMAIN filter
      /\ \A g \in DOMAIN filter : FilterRecord(filter[g]) /\ IsSequence(queue[g])
  BY DEF InScan, ScanState, FiltersTyped
<1>4. /\ DOMAIN Taken(f) = DOMAIN filter /\ Taken(f)[f] = Tail(queue[f])
      /\ \A g \in DOMAIN filter \ {f} : Taken(f)[g] = queue[g]
  BY <1>1, <1>3 DEF Taken
<1>5. IsSequence(Tail(queue[f])) /\ sec \in Range(queue[f])
  BY <1>1, <1>3, SequenceTail
<1>6. InHand(filter, queue, Range(running), PrivateServices, KnownServices,
             patVersion, sent, garbled)
  BY DEF InScan, ScanState
<1>7. (f = 0 /\ Wanted # {}) =>
        /\ PatOpen(filter[0], queue[0], PrivateServices, patVersion, sent, garbled)
        /\ sec = Bad("garbled") \/ IsPat(sec, patVersion)
  BY <1>1, <1>5, <1>6 DEF InHand, PatOpen, PatQueue
<1>8. f \in Wanted \intersect PrivateServices =>
        /\ PmtOpen(f, filter[f], queue[f], sent, garbled)
        /\ sec \in {Bad("garbled"), PmtSection(filter[f].pid, srv[f].service_id)}
  BY <1>1, <1>5, <1>6 DEF InHand, PmtOpen
<1>. QED
  BY <1>1, <1>2, <1>3, <1>4, <1>5, <1>7, <1>8

LEMMA PatTable ==
  ASSUME NEW sec, IsPat(sec, patVersion), BroadcastTyped
  PROVE  /\ sec.table = "PAT" /\ sec # Bad("garbled") /\ sec.ext = 0
         /\ sec.version \in 1 .. patVersion
BY DEF IsPat, PatSection, Bad

(* Filter f has changed only, and it goes on or is done.                   *)
LEMMA OwnTurn ==
  ASSUME NEW open, NEW P, NEW K,
         InHand(filter, queue, open, P, K, patVersion, sent, garbled),
         NEW f, NEW fls, NEW q, NEW K2, Wanted \intersect K \subseteq K2,
         \A g \in open \ {f} : fls[g] = filter[g] /\ q[g] = queue[g],
         (f = 0 /\ Wanted # {}) => PatOpen(fls[0], q[0], P, patVersion, sent, garbled),
         f \in Wanted \intersect P => PmtOpen(f, fls[f], q[f], sent, garbled)
  PROVE  InHand(fls, q, open, P, K2, patVersion, sent, garbled)
BY DEF InHand

LEMMA LastTurn ==
  ASSUME NEW open, NEW P, NEW K,
         InHand(filter, queue, open, P, K, patVersion, sent, garbled),
         NEW f, NEW fls, NEW q, NEW K2, Wanted \intersect K \subseteq K2,
         \A g \in open \ {f} : fls[g] = filter[g] /\ q[g] = queue[g],
         f = 0 => Wanted \subseteq P,
         f \in Wanted \intersect P => f \in K2
  PROVE  InHand(fls, q, open \ {f}, P, K2, patVersion, sent, garbled)
BY DEF InHand

LEMMA TypedTurn ==
  ASSUME InScan, NEW f \in Range(running), NEW fls, NEW q,
         DOMAIN fls = DOMAIN filter, DOMAIN q = DOMAIN filter,
         \A g \in DOMAIN filter \ {f} : fls[g] = filter[g] /\ q[g] = queue[g],
         FilterRecord(fls[f]), fls[f].table = filter[f].table, IsSequence(q[f])
  PROVE  FiltersTyped(fls, q, Range(running))
<1>1. FiltersTyped(filter, queue, Range(running))
  BY DEF InScan, ScanState
<1>. QED
  BY <1>1 DEF FiltersTyped

LEMMA ServicesSame ==
  ASSUME services' = services, UNCHANGED <<srv, tp>>
  PROVE  PrivateServices' = PrivateServices /\ KnownServices' = KnownServices
BY DEF PrivateServices, KnownServices, TruePids

LEMMA NoEventState ==
  ASSUME InScan, NEW f, NoEvent(f)
  PROVE  ScanState'
<1>1. /\ SameTables /\ services' = services /\ f \in Range(running)
      /\ Conclude(f, FALSE, filter, running, revents, queue)
  BY DEF NoEvent, Turn, Range, SameTables
<1>2. running \in Seq(Nat) /\ NoRepeat(running)
  BY DEF InScan, FilterListInv, FiltersInv
<1>3. PrivateServices' = PrivateServices /\ KnownServices' = KnownServices
  BY <1>1, ServicesSame DEF SameTables
<1>4. /\ FiltersTyped(filter, queue, Range(running))
      /\ InHand(filter, queue, Range(running), PrivateServices', KnownServices',
                patVersion, sent, garbled)
  BY <1>3 DEF InScan, ScanState
<1>. QED
  BY <1>1, <1>2, <1>4, ConcludeState

LEMMA UnusableState ==
  ASSUME InScan, NEW f, ReadUnusable(f)
  PROVE  ScanState'
<1>1. PICK sec : /\ Reads(f, sec) /\ sec.table = "unusable" /\ services' = services
                 /\ Conclude(f, FALSE, filter, running, revents, Taken(f))
  BY DEF ReadUnusable
<1>2. ~(f = 0 /\ Wanted # {}) /\ f \notin Wanted \intersect PrivateServices
  <2>1. sec # Bad("garbled")
    BY <1>1 DEF Bad
  <2>2. ~IsPat(sec, patVersion)
    BY <1>1, PatTable DEF InScan
  <2>3. \A pid, sid : sec # PmtSection(pid, sid)
    BY <1>1 DEF PmtSection
  <2>. QED
    BY <1>1, <2>1, <2>2, <2>3, WhatIsRead
<1>3. PrivateServices' = PrivateServices /\ KnownServices' = KnownServices
  BY <1>1, WhatIsRead, ServicesSame DEF SameTables
<1>4. InHand(filter, queue, Range(running), PrivateServices, KnownServices,
             patVersion, sent, garbled)
  BY DEF InScan, ScanState
<1>5. Range(running) \subseteq DOMAIN filter
  BY DEF InScan, ScanState, FiltersTyped
<1>6. InHand(filter, Taken(f), Range(running), PrivateServices, KnownServices,
             patVersion, sent, garbled)
  BY <1>1, <1>2, <1>4, <1>5, WhatIsRead, OwnTurn
<1>7. FiltersTyped(filter, Taken(f), Range(running))
  BY <1>1, WhatIsRead, TypedTurn
<1>. QED
  BY <1>1, <1>3, <1>6, <1>7, WhatIsRead, ConcludeState

(* Taking the first section off the queue of the PAT.                      *)
LEMMA PatQueueTail ==
  ASSUME NEW fl, NEW q, IsSequence(q), q # <<>>, NEW ver \in Nat, PatQueue(fl, q, ver),
         NEW gl, \/ gl.version = fl.version
                 \/ Head(q) # Bad("garbled") /\ gl.version = Head(q).version
  PROVE  PatQueue(gl, Tail(q), ver)
<1>1. /\ IsSequence(Tail(q)) /\ Len(Tail(q)) = Len(q) - 1 /\ Head(q) = q[1]
      /\ \A i \in 1 .. Len(Tail(q)) : Tail(q)[i] = q[i + 1]
      /\ Range(q) = Range(Tail(q)) \union {Head(q)}
  BY SequenceTail
<1>2. Len(q) \in Nat /\ Len(q) > 0 /\ Range(Tail(q)) = {Tail(q)[i] : i \in 1 .. Len(Tail(q))}
  BY <1>1, SequenceDomain
<1>3. ASSUME NEW sec \in Range(Tail(q)), sec # Bad("garbled")
      PROVE  IsPat(sec, ver) /\ gl.version <= sec.version
  <2>1. IsPat(sec, ver) /\ fl.version <= sec.version
    BY <1>1, <1>3 DEF PatQueue
  <2>2. PICK i \in 1 .. Len(Tail(q)) : sec = q[i + 1]
    BY <1>1, <1>2
  <2>3. i + 1 \in 1 .. Len(q) /\ 1 \in 1 .. Len(q) /\ 1 < i + 1
    BY <1>1, <1>2
  <2>4. Head(q) # Bad("garbled") => Head(q).version <= sec.version
    BY <1>1, <1>3, <2>2, <2>3 DEF PatQueue
  <2>. QED
    BY <2>1, <2>4
<1>4. ASSUME NEW i \in 1 .. Len(Tail(q)), NEW j \in 1 .. Len(Tail(q)), i < j,
             Tail(q)[i] # Bad("garbled"), Tail(q)[j] # Bad("garbled")
      PROVE  Tail(q)[i].version <= Tail(q)[j].version
  <2>1. i + 1 \in 1 .. Len(q) /\ j + 1 \in 1 .. Len(q) /\ i + 1 < j + 1
    BY <1>1, <1>2, <1>4
  <2>2. q[i + 1] # Bad("garbled") /\ q[j + 1] # Bad("garbled")
    BY <1>1, <1>4
  <2>3. q[i + 1].version <= q[j + 1].version
    BY <2>1, <2>2 DEF PatQueue
  <2>. QED
    BY <1>1, <2>3
<1>. QED
  BY <1>3, <1>4 DEF PatQueue

(* No more is late if no section must be heard again.                      *)
LEMMA PatLateLess ==
  ASSUME NEW fl, NEW q, NEW gl, NEW r, NEW ver, NEW snt,
         \A n \in DOMAIN tp.pat[ver] :
           Heard(fl, q, PatSection(ver, n)) => Heard(gl, r, PatSection(ver, n))
  PROVE  /\ PatLate(gl, r, ver, snt) <= PatLate(fl, q, ver, snt)
         /\ PatLate(gl, r, ver, snt) \in {0, 1} /\ PatLate(fl, q, ver, snt) \in {0, 1}
BY DEF PatLate

LEMMA SlowerParts ==
  ASSUME NEW fl, FilterRecord(fl), fl.timeout \in {Timeout, SlowTimeout},
         NEW gl, gl = [fl EXCEPT !.timeout = Max({fl.timeout, SlowTimeout})],
         1 <= Timeout, Timeout < SlowTimeout, SlowTimeout \in Nat, Timeout \in Nat
  PROVE  /\ FilterRecord(gl) /\ gl.timeout = SlowTimeout
         /\ gl.pid = fl.pid /\ gl.table = fl.table /\ gl.ext = fl.ext
         /\ gl.version = fl.version /\ gl.done = fl.done /\ gl.age = fl.age
<1>. DEFINE T == {fl.timeout, SlowTimeout}
<1>1. T \in SUBSET (1 .. SlowTimeout) /\ T # {}
  OBVIOUS
<1>2. Max(T) \in T /\ \A y \in T : Max(T) >= y
  BY <1>1, GreatestInSet
<1>3. Max(T) = SlowTimeout
  BY <1>2
<1>. QED
  BY <1>3 DEF FilterRecord

LEMMA GarbledState ==
  ASSUME InScan, NEW f, ReadGarbled(f)
  PROVE  ScanState'
<1>. DEFINE gl == [filter[f] EXCEPT !.timeout = Max({filter[f].timeout, SlowTimeout})]
            fls == [filter EXCEPT ![f] = gl]
            q == queue[f]
<1>1. PICK sec : /\ Reads(f, sec) /\ sec.table = "garbled" /\ services' = services
                 /\ Conclude(f, FALSE, fls, running, revents, Taken(f))
  BY Zenon DEF ReadGarbled
<1>2. /\ f \in DOMAIN filter /\ FilterRecord(filter[f]) /\ IsSequence(q) /\ q # <<>>
      /\ sec = Head(q) /\ Taken(f)[f] = Tail(q)
  BY <1>1, WhatIsRead
<1>3. /\ 1 <= Timeout /\ Timeout < SlowTimeout /\ SlowTimeout \in Nat /\ Timeout \in Nat
      /\ patVersion \in Nat \ {0} /\ garbled \in Nat
  BY Orderly DEF InScan, ScanState, CountsInv
<1>4. ASSUME filter[f].timeout \in {Timeout, SlowTimeout}
      PROVE  /\ FilterRecord(gl) /\ gl.timeout = SlowTimeout
             /\ gl.pid = filter[f].pid /\ gl.ext = filter[f].ext
             /\ gl.version = filter[f].version /\ gl.done = filter[f].done
             /\ gl.age = filter[f].age
  BY <1>2, <1>3, <1>4, SlowerParts
<1>5. FilterRecord(gl) /\ gl.table = filter[f].table
  BY <1>2 DEF FilterRecord
<1>6. fls[f] = gl /\ DOMAIN fls = DOMAIN filter /\ \A g \in DOMAIN filter \ {f} : fls[g] = filter[g]
  BY <1>2
<1>. HIDE DEF gl, fls
<1>7. Range(q) = Range(Tail(q)) \union {sec}
  BY <1>2, SequenceTail
<1>8. ASSUME f = 0, Wanted # {}
      PROVE  PatOpen(gl, Tail(q), PrivateServices, patVersion, sent, garbled)
  <2>1. PatOpen(filter[0], q, PrivateServices, patVersion, sent, garbled)
    BY <1>1, <1>8, WhatIsRead
  <2>. DEFINE late == PatLate(filter[0], q, patVersion, sent)
              less == PatLate(gl, Tail(q), patVersion, sent)
  <2>2. InTime(filter[0], q, late, 0, garbled)
    BY <2>1 DEF PatOpen
  <2>3. filter[f].timeout \in {Timeout, SlowTimeout}
    BY <1>8, <2>2 DEF InTime
  <2>4. PatRead(gl, PrivateServices, patVersion)
    BY <1>4, <1>8, <2>1, <2>3 DEF PatOpen, PatRead
  <2>5. PatQueue(gl, Tail(q), patVersion)
    BY <1>2, <1>3, <1>4, <1>8, <2>1, <2>3, PatQueueTail DEF PatOpen
  <2>6. ASSUME NEW n, Heard(filter[0], q, PatSection(patVersion, n))
        PROVE  Heard(gl, Tail(q), PatSection(patVersion, n))
    <3>1. PatSection(patVersion, n) # sec
      BY <1>1 DEF PatSection
    <3>. QED
      BY <1>4, <1>7, <1>8, <2>3, <2>6, <3>1 DEF Heard
  <2>7. less <= late /\ less \in {0, 1} /\ late \in {0, 1}
    BY <2>6, PatLateLess
  <2>8. InTime(gl, Tail(q), less, 0, garbled)
    <3>. HIDE DEF less, late
    <3>1. gl.timeout = SlowTimeout /\ gl.age = filter[0].age
      BY <1>4, <1>8, <2>3
    <3>. QED
      BY <1>3, <2>2, <2>7, <3>1, InTimeSlow
  <2>. QED
    BY <2>4, <2>5, <2>8 DEF PatOpen
<1>9. ASSUME f \in Wanted \intersect PrivateServices
      PROVE  PmtOpen(f, gl, Tail(q), sent, garbled)
  <2>. DEFINE pmt == PmtSection(filter[f].pid, srv[f].service_id)
              late == PmtLate(q, pmt, sent)
              less == PmtLate(Tail(q), pmt, sent)
  <2>1. PmtOpen(f, filter[f], q, sent, garbled)
    BY <1>1, <1>9, WhatIsRead
  <2>2. InTime(filter[f], q, late, 1, garbled)
    BY <2>1 DEF PmtOpen
  <2>3. filter[f].timeout \in {Timeout, SlowTimeout}
    BY <2>2 DEF InTime
  <2>4. pmt # sec
    BY <1>1 DEF PmtSection
  <2>5. less = late /\ late \in {0, 1}
    BY <1>7, <2>4 DEF PmtLate
  <2>6. InTime(gl, Tail(q), less, 1, garbled)
    <3>. HIDE DEF less, late
    <3>. QED
      BY <1>3, <1>4, <2>2, <2>3, <2>5, InTimeSlow
  <2>. QED
    BY <1>4, <1>7, <2>1, <2>3, <2>6 DEF PmtOpen
<1>10. InHand(filter, queue, Range(running), PrivateServices, KnownServices,
              patVersion, sent, garbled)
  BY DEF InScan, ScanState
<1>11. PrivateServices' = PrivateServices /\ KnownServices' = KnownServices
  BY <1>1, WhatIsRead, ServicesSame DEF SameTables
<1>12. Range(running) \subseteq DOMAIN filter
  BY DEF InScan, ScanState, FiltersTyped
<1>13. InHand(fls, Taken(f), Range(running), PrivateServices, KnownServices,
              patVersion, sent, garbled)
  BY <1>1, <1>2, <1>6, <1>8, <1>9, <1>10, <1>12, WhatIsRead, OwnTurn
<1>14. FiltersTyped(fls, Taken(f), Range(running))
  BY <1>1, <1>2, <1>5, <1>6, WhatIsRead, TypedTurn
<1>. QED
  BY <1>1, <1>11, <1>13, <1>14, WhatIsRead, ConcludeState

(* A section of the PAT is noted: those of another version are forgotten.  *)
LEMMA NotedPat ==
  ASSUME NEW fl, FilterRecord(fl), NEW sec, NEW v, NEW m,
         sec.version = v, sec.number = m, sec.ext = 0, fl.version = v => fl.ext = 0
  PROVE  /\ Noted(fl, sec).pid = fl.pid /\ Noted(fl, sec).timeout = fl.timeout
         /\ Noted(fl, sec).age = fl.age
         /\ Noted(fl, sec).version = v /\ Noted(fl, sec).ext = 0
         /\ fl.version # v => Noted(fl, sec).done = {m}
         /\ fl.version = v => Noted(fl, sec).done = fl.done \union {m}
<1>1. /\ Noted(fl, sec).pid = fl.pid /\ Noted(fl, sec).timeout = fl.timeout
      /\ Noted(fl, sec).age = fl.age
      /\ Noted(fl, sec).version = v /\ Noted(fl, sec).ext = 0
  BY NotedParts
<1>2. ASSUME fl.version # v PROVE Noted(fl, sec).done = {m}
  BY <1>2, NotedParts
<1>3. ASSUME fl.version = v PROVE Noted(fl, sec).done = fl.done \union {m}
  <2>1. fl.version = sec.version /\ fl.ext = sec.ext
    BY <1>3
  <2>2. Noted(fl, sec).done = fl.done \union {sec.number}
    BY <2>1, NotedParts
  <2>. QED
    BY <2>2
<1>. QED
  BY <1>1, <1>2, <1>3

(* A section of the PAT is read: if it was the last one missing, every     *)
(* service that is wanted was named by one of them; until then the filter  *)
(* goes on.                                                                *)
LEMMA PatSectionRead ==
  ASSUME BroadcastTyped, NEW fl, FilterRecord(fl), NEW q, IsSequence(q), q # <<>>,
         NEW sec, sec = Head(q), sec.table = "PAT",
         NEW P, NEW g \in Nat, PatOpen(fl, q, P, patVersion, sent, g),
         NEW P2, P \subseteq P2,
         \A k \in Wanted : (\E e \in ToSet(sec.entries) : e.sid = srv[k].service_id) => k \in P2
  PROVE  IF Done(fl, sec) THEN Wanted \subseteq P2
         ELSE PatOpen(Noted(fl, sec), Tail(q), P2, patVersion, sent, g)
<1>. DEFINE gl == Noted(fl, sec)
            ver == patVersion
            late == PatLate(fl, q, ver, sent)
            less == PatLate(gl, Tail(q), ver, sent)
<1>1. ver \in Nat \ {0} /\ ver \in 1 .. Len(tp.pat) /\ Len(tp.pat) \in Nat
      /\ DOMAIN tp.pat = 1 .. Len(tp.pat)
  BY LenProperties DEF BroadcastTyped
<1>2. PatRead(fl, P, ver) /\ PatQueue(fl, q, ver) /\ InTime(fl, q, late, 0, g)
  BY DEF PatOpen
<1>3. Range(q) = Range(Tail(q)) \union {sec}
  BY SequenceTail
<1>4. sec # Bad("garbled")
  BY DEF Bad
<1>5. IsPat(sec, ver) /\ fl.version <= sec.version
  BY <1>2, <1>3, <1>4 DEF PatQueue
<1>6. PICK v \in 1 .. ver : \E n \in DOMAIN tp.pat[v] : sec = PatSection(v, n)
  BY <1>5 DEF IsPat
<1>7. PICK n \in DOMAIN tp.pat[v] : sec = PatSection(v, n)
  BY <1>6
<1>8. /\ sec.version = v /\ sec.ext = 0 /\ sec.number = n - 1
      /\ sec.last = Len(tp.pat[v]) - 1 /\ sec.entries = tp.pat[v][n]
  BY <1>7 DEF PatSection
<1>9. v \in DOMAIN tp.pat /\ v \in Nat \ {0}
  BY <1>1
<1>10. DOMAIN tp.pat[v] = 1 .. Len(tp.pat[v]) /\ Len(tp.pat[v]) \in Nat
  <2>1. tp.pat[v] \in Seq(Seq([sid : Nat, pid : Nat]))
    BY <1>9, ElementOfSeq, LenProperties DEF BroadcastTyped
  <2>. QED
    BY <2>1, LenProperties
<1>11. /\ gl.pid = PidPat /\ gl.version = v /\ gl.ext = 0
       /\ gl.timeout = fl.timeout /\ gl.age = fl.age
       /\ fl.version # v => gl.done = {n - 1}
       /\ fl.version = v => gl.done = fl.done \union {n - 1}
       /\ fl.version # v => fl.version < v
  <2>1. fl.pid = PidPat /\ (fl.version = v => fl.ext = 0) /\ fl.version \in Int
    BY <1>2, <1>9 DEF PatRead
  <2>2. fl.version # v => fl.version < v
    BY <1>5, <1>8, <1>9, <2>1
  <2>. QED
    BY <1>8, <2>1, <2>2, NotedPat
<1>12. Done(fl, sec) <=> 0 .. Len(tp.pat[v]) - 1 \subseteq gl.done
  BY <1>8 DEF Done
<1>. HIDE DEF gl
<1>13. ASSUME NEW m \in DOMAIN tp.pat[v], m - 1 \in gl.done, NEW k \in Wanted, NamedIn(k, v, m)
       PROVE  k \in P2
  <2>1. CASE m = n
    BY <1>8, <1>13, <2>1 DEF NamedIn
  <2>2. CASE m # n
    <3>1. m - 1 # n - 1
      BY <1>10, <2>2
    <3>2. fl.version = v /\ m - 1 \in fl.done
      BY <1>11, <1>13, <3>1
    <3>3. k \in P
      BY <1>2, <1>9, <1>13, <3>2 DEF PatRead
    <3>. QED
      BY <3>3
  <2>. QED
    BY <2>1, <2>2
<1>14. CASE Done(fl, sec)
  <2>1. ASSUME NEW k \in Wanted PROVE k \in P2
    <3>1. PICK pid : /\ DOMAIN tp.pmt[pid] = {srv[k].service_id}
                     /\ \E m \in DOMAIN tp.pat[v] :
                          [sid |-> srv[k].service_id, pid |-> pid] \in ToSet(tp.pat[v][m])
      BY <1>9 DEF Wanted, Own
    <3>2. PICK m \in DOMAIN tp.pat[v] :
            [sid |-> srv[k].service_id, pid |-> pid] \in ToSet(tp.pat[v][m])
      BY <3>1
    <3>3. NamedIn(k, v, m)
      BY <3>2 DEF NamedIn
    <3>4. m - 1 \in gl.done
      BY <1>10, <1>12, <1>14
    <3>. QED
      BY <1>13, <3>3, <3>4
  <2>. QED
    BY <1>14, <2>1
<1>15. CASE ~Done(fl, sec)
  <2>1. PatRead(gl, P2, ver)
    BY <1>11, <1>12, <1>13, <1>15 DEF PatRead
  <2>2. PatQueue(gl, Tail(q), ver)
    BY <1>1, <1>2, <1>4, <1>8, <1>11, PatQueueTail
  <2>3. ASSUME NEW m \in DOMAIN tp.pat[ver], Heard(fl, q, PatSection(ver, m))
        PROVE  Heard(gl, Tail(q), PatSection(ver, m))
    <3>. DEFINE s == PatSection(ver, m)
    <3>1. s.version = ver /\ s.number = m - 1
      BY DEF PatSection
    <3>. HIDE DEF s
    <3>2. CASE s = sec
      <4>1. gl.version = s.version /\ s.number \in gl.done
        BY <1>8, <1>11, <3>2
      <4>. QED
        BY <4>1 DEF Heard, s
    <3>3. CASE s # sec /\ s \in Range(q)
      BY <1>3, <3>3 DEF Heard, s
    <3>4. CASE fl.version = ver /\ m - 1 \in fl.done
      <4>1. fl.version = v
        BY <1>1, <1>6, <1>11, <3>4
      <4>. QED
        BY <1>11, <3>1, <3>4, <4>1 DEF Heard, s
    <3>. QED
      BY <2>3, <3>1, <3>2, <3>3, <3>4 DEF Heard, s
  <2>4. less <= late /\ less \in {0, 1} /\ late \in {0, 1}
    BY <2>3, PatLateLess
  <2>5. Bad("garbled") \in Range(q) => Bad("garbled") \in Range(Tail(q))
    BY <1>3, <1>4
  <2>6. InTime(gl, Tail(q), less, 0, g)
    <3>. HIDE DEF less, late
    <3>. QED
      BY <1>2, <1>11, <2>4, <2>5, InTimeStill
  <2>7. PatOpen(gl, Tail(q), P2, ver, sent, g)
    BY <2>1, <2>2, <2>6 DEF PatOpen
  <2>. QED
    BY <1>15, <2>7 DEF gl
<1>. QED
  BY <1>14, <1>15

(* Services are told apart by their IDs, so the scan finds the one meant.  *)
LEMMA FoundWanted ==
  ASSUME InScan, NEW k \in Wanted
  PROVE  /\ k \in DOMAIN services /\ services[k].service_id = srv[k].service_id
         /\ FindService(srv[k].service_id) = k /\ k # 0 /\ srv[k].service_id # 0
         /\ \A j \in DOMAIN services : services[j].service_id = srv[k].service_id => j = k
<1>. DEFINE id == srv[k].service_id
            found == {j \in DOMAIN services : services[j].service_id = id}
<1>1. /\ DOMAIN services = DOMAIN srv
      /\ \A j \in DOMAIN srv : services[j].service_id = srv[j].service_id
      /\ DOMAIN services \subseteq Nat \ {0}
  BY DEF InScan, FilterListInv, ScanInv, PidsInv, ServicesInv
<1>2. k \in DOMAIN srv /\ Own(id)
  BY DEF Wanted
<1>3. found = {k}
  BY <1>1, <1>2 DEF InScan, DistinctServices
<1>4. Min(found) = k
  <2>1. found \in SUBSET Nat /\ found # {}
    BY <1>1, <1>3
  <2>2. Min(found) \in found
    BY <2>1, LeastInSet
  <2>. QED
    BY <1>3, <2>2
<1>5. FindService(id) = k
  BY <1>3, <1>4 DEF FindService
<1>6. id # 0
  <2>1. PICK pid \in DOMAIN tp.pmt : id \in DOMAIN tp.pmt[pid]
    BY <1>2 DEF Own
  <2>. QED
    BY <2>1, OwnPmt DEF InScan
<1>. QED
  BY <1>1, <1>2, <1>3, <1>5, <1>6

(* A service that is named by a section of the PAT is found by parse_pat() *)
LEMMA NamedFound ==
  ASSUME InScan, NEW k \in Wanted, NEW sec,
         \E e \in ToSet(sec.entries) : e.sid = srv[k].service_id
  PROVE  k \in Named(sec)
<1>1. PICK e \in ToSet(sec.entries) : e.sid = srv[k].service_id
  OBVIOUS
<1>2. FindService(e.sid) = k /\ k # 0 /\ e.sid # 0
  BY <1>1, FoundWanted
<1>. QED
  BY <1>1, <1>2 DEF Named

LEMMA RepeatedState ==
  ASSUME InScan, NEW f, ReadRepeated(f)
  PROVE  ScanState'
<1>. DEFINE P == PrivateServices
            fls(sec) == [filter EXCEPT ![f] = Noted(filter[f], sec)]
<1>1. PICK sec : /\ Reads(f, sec) /\ sec.table = filter[f].table /\ services' = services
                 /\ AlreadyRead(filter[f], sec)
                 /\ Conclude(f, Done(filter[f], sec), fls(sec), running, revents, Taken(f))
  BY Zenon DEF ReadRepeated
<1>2. /\ f \in DOMAIN filter /\ FilterRecord(filter[f])
      /\ IsSequence(queue[f]) /\ queue[f] # <<>>
      /\ sec = Head(queue[f]) /\ Taken(f)[f] = Tail(queue[f])
  BY <1>1, WhatIsRead
<1>3. /\ fls(sec)[f] = Noted(filter[f], sec) /\ DOMAIN fls(sec) = DOMAIN filter
      /\ \A g \in DOMAIN filter \ {f} : fls(sec)[g] = filter[g]
  BY <1>2
<1>4. FilterRecord(Noted(filter[f], sec)) /\ Noted(filter[f], sec).table = filter[f].table
  BY <1>2, NotedParts
<1>. HIDE DEF fls
<1>5. ASSUME f = 0, Wanted # {}
      PROVE  IF Done(filter[0], sec) THEN Wanted \subseteq P
             ELSE PatOpen(Noted(filter[0], sec), Tail(queue[0]), P, patVersion, sent, garbled)
  <2>1. /\ PatOpen(filter[0], queue[0], P, patVersion, sent, garbled)
        /\ sec = Bad("garbled") \/ IsPat(sec, patVersion)
    BY <1>1, <1>5, WhatIsRead
  <2>2. filter[0].table = "PAT"
    BY <1>1, <1>5, WhatIsRead DEF InScan, ScanState, FiltersTyped
  <2>3. IsPat(sec, patVersion)
    BY <1>1, <1>5, <2>1, <2>2 DEF Bad
  <2>4. PICK v \in 1 .. patVersion : \E n \in DOMAIN tp.pat[v] : sec = PatSection(v, n)
    BY <2>3 DEF IsPat
  <2>5. PICK n \in DOMAIN tp.pat[v] : sec = PatSection(v, n)
    BY <2>4
  <2>6. sec.version = v /\ sec.number = n - 1 /\ sec.entries = tp.pat[v][n]
    BY <2>5 DEF PatSection
  <2>7. filter[0].version = sec.version /\ sec.number \in filter[0].done
    BY <1>1, <1>2, <1>5, NotedParts
  <2>8. ASSUME NEW k \in Wanted, \E e \in ToSet(sec.entries) : e.sid = srv[k].service_id
        PROVE  k \in P
    <3>1. NamedIn(k, v, n)
      BY <2>6, <2>8 DEF NamedIn
    <3>2. filter[0].version = v /\ n - 1 \in filter[0].done /\ v # -1
      BY <2>6, <2>7 DEF InScan, BroadcastTyped
    <3>3. PatRead(filter[0], P, patVersion)
      BY <2>1 DEF PatOpen
    <3>. QED
      BY <2>5, <3>1, <3>2, <3>3 DEF PatRead
  <2>9. BroadcastTyped /\ garbled \in Nat
    BY DEF InScan, ScanState, CountsInv
  <2>. QED
    BY <1>1, <1>2, <1>5, <2>1, <2>2, <2>8, <2>9, PatSectionRead
<1>6. f \notin Wanted \intersect P
  <2>. SUFFICES ASSUME f \in Wanted \intersect P PROVE FALSE
    OBVIOUS
  <2>1. filter[f].done = {}
    BY <1>1, WhatIsRead DEF PmtOpen
  <2>. QED
    BY <1>1, <1>2, <2>1, NotedParts
<1>7. InHand(filter, queue, Range(running), P, KnownServices, patVersion, sent, garbled)
  BY DEF InScan, ScanState
<1>8. PrivateServices' = P /\ KnownServices' = KnownServices
  BY <1>1, WhatIsRead, ServicesSame DEF SameTables
<1>9. Range(running) \subseteq DOMAIN filter
  BY DEF InScan, ScanState, FiltersTyped
<1>10. \A g \in Range(running) \ {f} : fls(sec)[g] = filter[g] /\ Taken(f)[g] = queue[g]
  BY <1>1, <1>3, <1>9, WhatIsRead
<1>11. FiltersTyped(fls(sec), Taken(f), Range(running))
  BY <1>1, <1>2, <1>3, <1>4, WhatIsRead, TypedTurn
<1>12. CASE Done(filter[f], sec)
  <2>1. f = 0 => Wanted \subseteq P
    BY <1>5, <1>12
  <2>2. InHand(fls(sec), Taken(f), Range(running) \ {f}, P, KnownServices,
               patVersion, sent, garbled)
    BY <1>6, <1>7, <1>10, <2>1, LastTurn
  <2>. QED
    BY <1>1, <1>8, <1>11, <1>12, <2>2, WhatIsRead, ConcludeState
<1>13. CASE ~Done(filter[f], sec)
  <2>1. (f = 0 /\ Wanted # {}) =>
          PatOpen(fls(sec)[0], Taken(f)[0], P, patVersion, sent, garbled)
    BY <1>2, <1>3, <1>5, <1>13
  <2>2. InHand(fls(sec), Taken(f), Range(running), P, KnownServices,
               patVersion, sent, garbled)
    BY <1>6, <1>7, <1>10, <2>1, OwnTurn
  <2>. QED
    BY <1>1, <1>8, <1>11, <1>13, <2>2, WhatIsRead, ConcludeState
<1>. QED
  BY <1>12, <1>13

(* A PMT gives the service it belongs to the PID that is true: what was    *)
(* noted before, if anything, was true as well.                            *)
LEMMA PmtKnown ==
  ASSUME InScan, UNCHANGED <<srv, tp>>, NEW f, NEW sec, sec.table = "PMT", TrueSection(sec),
         services' = [k \in DOMAIN services |->
           IF k = Addressed(f, sec)
           THEN [services[k] EXCEPT !.teletext_pid = TeletextPid(sec.streams, @)]
           ELSE services[k]]
  PROVE  /\ PrivateServices' = PrivateServices
         /\ Wanted \intersect KnownServices \subseteq KnownServices'
         /\ \A k \in Wanted : sec.ext = srv[k].service_id => k \in KnownServices'
<1>0. ServicesInv
  BY DEF InScan, PidsInv
<1>1. DOMAIN services' = DOMAIN services
  OBVIOUS
<1>2. ASSUME NEW k \in DOMAIN services
      PROVE  /\ services'[k].priv = services[k].priv
             /\ k # Addressed(f, sec) => services'[k].teletext_pid = services[k].teletext_pid
             /\ k = Addressed(f, sec) =>
                  services'[k].teletext_pid = TeletextPid(sec.streams, services[k].teletext_pid)
  <2>1. ServiceRecord(services[k])
    BY <1>0 DEF ServicesInv
  <2>. QED
    BY <2>1 DEF ServiceRecord
<1>3. PrivateServices' = PrivateServices
  BY <1>1, <1>2 DEF PrivateServices
<1>4. \A id : TruePids(id)' = TruePids(id)
  BY DEF TruePids
<1>5. KnownServices' = {k \in DOMAIN services :
                          {services'[k].teletext_pid} = TruePids(srv[k].service_id)}
  BY <1>1, <1>4 DEF KnownServices
<1>6. ASSUME NEW k \in Wanted, k = Addressed(f, sec)
      PROVE  {services'[k].teletext_pid} = TruePids(srv[k].service_id)
  <2>1. k \in DOMAIN services /\ services[k].service_id = srv[k].service_id /\ k # 0
    BY FoundWanted
  <2>2. sec.ext = srv[k].service_id
    BY <1>0, <1>6, <2>1, FoundService DEF Addressed, ServicesInv
  <2>3. PICK pid \in DOMAIN tp.pmt : sec.ext \in DOMAIN tp.pmt[pid]
                                     /\ sec.streams = tp.pmt[pid][sec.ext]
    BY DEF TrueSection
  <2>4. TruePids(sec.ext) = {TeletextPid(sec.streams, 0)}
    BY <2>3, OwnPmt DEF InScan
  <2>5. services[k].teletext_pid \in {0, TeletextPid(sec.streams, 0)}
    BY <1>0, <2>1, <2>2, <2>4 DEF ServicesInv, PidsAreTrue
  <2>6. TeletextPid(sec.streams, services[k].teletext_pid) = TeletextPid(sec.streams, 0)
    BY <2>5 DEF TeletextPid
  <2>. QED
    BY <1>2, <1>6, <2>1, <2>2, <2>4, <2>6
<1>7. Wanted \intersect KnownServices \subseteq KnownServices'
  BY <1>2, <1>5, <1>6 DEF KnownServices
<1>8. ASSUME NEW k \in Wanted, sec.ext = srv[k].service_id PROVE k \in KnownServices'
  <2>1. k = Addressed(f, sec) /\ k \in DOMAIN services
    BY <1>8, FoundWanted DEF Addressed
  <2>. QED
    BY <1>5, <1>6, <2>1
<1>. QED
  BY <1>3, <1>7, <1>8

LEMMA NotedNumber ==
  ASSUME NEW fl, FilterRecord(fl), NEW sec
  PROVE  sec.number \in Noted(fl, sec).done
<1>1. CASE fl.version # sec.version \/ fl.ext # sec.ext
  BY <1>1, NotedParts
<1>2. CASE fl.version = sec.version /\ fl.ext = sec.ext
  <2>1. Fresh(fl, sec) = fl
    BY <1>2 DEF Fresh
  <2>. QED
    BY <2>1 DEF Noted, FilterRecord
<1>. QED
  BY <1>1, <1>2

LEMMA PmtState ==
  ASSUME InScan, NEW f, ReadPmt(f)
  PROVE  ScanState'
<1>. DEFINE P == PrivateServices
            fls(sec) == [filter EXCEPT ![f] = Noted(filter[f], sec)]
<1>1. PICK sec :
        /\ Reads(f, sec) /\ sec.table = "PMT" /\ filter[f].table = "PMT"
        /\ services' = [k \in DOMAIN services |->
             IF k = Addressed(f, sec)
             THEN [services[k] EXCEPT !.teletext_pid = TeletextPid(sec.streams, @)]
             ELSE services[k]]
        /\ Conclude(f, Done(filter[f], sec), fls(sec), running, revents, Taken(f))
  BY Zenon DEF ReadPmt
<1>2. /\ f \in DOMAIN filter /\ FilterRecord(filter[f])
      /\ IsSequence(queue[f]) /\ queue[f] # <<>>
      /\ sec = Head(queue[f]) /\ Taken(f)[f] = Tail(queue[f])
  BY <1>1, WhatIsRead
<1>3. /\ fls(sec)[f] = Noted(filter[f], sec) /\ DOMAIN fls(sec) = DOMAIN filter
      /\ \A g \in DOMAIN filter \ {f} : fls(sec)[g] = filter[g]
  BY <1>2
<1>4. FilterRecord(Noted(filter[f], sec)) /\ Noted(filter[f], sec).table = filter[f].table
  BY <1>2, NotedParts
<1>. HIDE DEF fls
<1>5. f # 0
  <2>1. f \in Range(running) => filter[f].table = IF f = 0 THEN "PAT" ELSE "PMT"
    BY DEF InScan, ScanState, FiltersTyped
  <2>. QED
    BY <1>1, <2>1, WhatIsRead
<1>6. TrueSection(sec)
  <2>1. DOMAIN queue = DOMAIN filter
    BY DEF InScan, ScanState, FiltersTyped
  <2>. QED
    BY <1>2, <2>1, QueueTail DEF InScan, PidsInv, QueuesInv
<1>7. /\ PrivateServices' = P
      /\ Wanted \intersect KnownServices \subseteq KnownServices'
      /\ \A k \in Wanted : sec.ext = srv[k].service_id => k \in KnownServices'
  <2>1. UNCHANGED <<srv, tp>>
    BY <1>1, WhatIsRead DEF SameTables
  <2>. QED
    BY <1>1, <1>6, <2>1, PmtKnown
<1>8. ASSUME f \in Wanted \intersect P
      PROVE  f \in KnownServices' /\ Done(filter[f], sec)
  <2>1. /\ filter[f].done = {}
        /\ sec \in {Bad("garbled"), PmtSection(filter[f].pid, srv[f].service_id)}
    BY <1>1, <1>8, WhatIsRead DEF PmtOpen
  <2>2. sec.ext = srv[f].service_id /\ sec.number = 0 /\ sec.last = 0
    BY <1>1, <2>1 DEF Bad, PmtSection
  <2>3. 0 \in Noted(filter[f], sec).done
    <3>1. sec.number \in Noted(filter[f], sec).done
      BY <1>2, NotedNumber
    <3>. QED
      BY <2>2, <3>1
  <2>4. 0 .. 0 = {0}
    OBVIOUS
  <2>5. Done(filter[f], sec)
    BY <2>2, <2>3, <2>4 DEF Done
  <2>. QED
    BY <1>7, <1>8, <2>2, <2>5
<1>9. InHand(filter, queue, Range(running), P, KnownServices, patVersion, sent, garbled)
  BY DEF InScan, ScanState
<1>10. \A g \in Range(running) \ {f} : fls(sec)[g] = filter[g] /\ Taken(f)[g] = queue[g]
  <2>1. Range(running) \subseteq DOMAIN filter
    BY DEF InScan, ScanState, FiltersTyped
  <2>. QED
    BY <1>1, <1>3, <2>1, WhatIsRead
<1>11. FiltersTyped(fls(sec), Taken(f), Range(running))
  BY <1>1, <1>2, <1>3, <1>4, WhatIsRead, TypedTurn
<1>12. CASE Done(filter[f], sec)
  <2>1. InHand(fls(sec), Taken(f), Range(running) \ {f}, P, KnownServices',
               patVersion, sent, garbled)
    BY <1>5, <1>7, <1>8, <1>9, <1>10, LastTurn
  <2>. QED
    BY <1>1, <1>7, <1>11, <1>12, <2>1, WhatIsRead, ConcludeState
<1>13. CASE ~Done(filter[f], sec)
  <2>1. InHand(fls(sec), Taken(f), Range(running), P, KnownServices',
               patVersion, sent, garbled)
    BY <1>5, <1>7, <1>8, <1>9, <1>10, <1>13, OwnTurn
  <2>. QED
    BY <1>1, <1>7, <1>11, <1>13, <2>1, WhatIsRead, ConcludeState
<1>. QED
  BY <1>12, <1>13

(* The filter that a PAT section opens for a service is one of its PMT.    *)
LEMMA NewPmtOpen ==
  ASSUME InScan, NEW k \in Wanted, NEW v \in DOMAIN tp.pat, NEW n \in DOMAIN tp.pat[v],
         NEW sec, sec.entries = tp.pat[v][n], sec.entries \in Seq([sid : Nat, pid : Nat]),
         \E e \in ToSet(sec.entries) : e.sid = srv[k].service_id
  PROVE  PmtOpen(k, NewFilter(PmtPid(sec, k), "PMT"), <<>>, sent, garbled)
<1>. DEFINE id == srv[k].service_id
            At == {m \in DOMAIN sec.entries : sec.entries[m].sid = services[k].service_id}
            fl == NewFilter(PmtPid(sec, k), "PMT")
<1>1. services[k].service_id = id
  BY FoundWanted
<1>2. At \in SUBSET Nat /\ At # {}
  <2>1. At # {}
    BY <1>1 DEF ToSet
  <2>. QED
    BY <2>1, LenProperties
<1>3. FirstEntry(sec, k) \in At
  <2>1. FirstEntry(sec, k) = Min(At)
    BY DEF FirstEntry
  <2>. HIDE DEF At
  <2>. QED
    BY <1>2, <2>1, LeastInSet
<1>4. PICK e \in ToSet(tp.pat[v][n]) : e.sid = id /\ PmtPid(sec, k) = e.pid
  <2>1. sec.entries[FirstEntry(sec, k)] \in ToSet(tp.pat[v][n])
    BY <1>3 DEF ToSet
  <2>. QED
    BY <1>1, <1>3, <2>1 DEF PmtPid
<1>5. PICK pid \in DOMAIN tp.pmt :
        /\ DOMAIN tp.pmt[pid] = {id}
        /\ \A m \in DOMAIN tp.pat[v] : \A d \in ToSet(tp.pat[v][m]) :
             (d.sid = id) = (d.pid = pid)
  BY DEF Wanted, Own
<1>6. PmtPid(sec, k) = pid
  BY <1>4, <1>5
<1>7. fl.pid = pid /\ fl.done = {} /\ fl.timeout = Timeout /\ fl.age = 0
  BY <1>6 DEF NewFilter
<1>. HIDE DEF fl
<1>8. Range(<<>>) = {}
  BY DEF Range
<1>9. PmtLate(<<>>, PmtSection(fl.pid, id), sent) \in {0, 1}
  BY DEF PmtLate
<1>10. garbled \in Nat /\ Timeout \in Nat /\ SlowTimeout \in Nat
  BY ScanAssumption DEF InScan, ScanState, CountsInv
<1>11. InTime(fl, <<>>, PmtLate(<<>>, PmtSection(fl.pid, id), sent), 1, garbled)
  BY <1>7, <1>9, <1>10 DEF InTime
<1>12. PmtOpen(k, fl, <<>>, sent, garbled)
  BY <1>5, <1>7, <1>8, <1>11 DEF PmtOpen
<1>. QED
  BY <1>12 DEF fl

LEMMA PatState ==
  ASSUME InScan, NEW f, ReadPat(f)
  PROVE  ScanState'
<1>. DEFINE P == PrivateServices
            fls(sec) == [g \in DOMAIN filter |->
                          IF g = f THEN Noted(filter[f], sec)
                          ELSE IF g \in Range(NewPmts(sec)) THEN NewFilter(PmtPid(sec, g), "PMT")
                          ELSE filter[g]]
<1>1. PICK sec :
        /\ Reads(f, sec) /\ sec.table = "PAT" /\ filter[f].table = "PAT"
        /\ services' = [k \in DOMAIN services |->
             [services[k] EXCEPT !.priv = @ \/ k \in Range(NewPmts(sec))]]
        /\ Conclude(f, Done(filter[f], sec), fls(sec), running \o NewPmts(sec),
                    IF NewPmts(sec) = <<>> THEN revents ELSE {}, Taken(f))
  <2>1. PICK sec :
          /\ Reads(f, sec) /\ sec.table = "PAT" /\ filter[f].table = "PAT"
          /\ services' = [k \in DOMAIN services |->
               [services[k] EXCEPT !.priv = @ \/ k \in ToSet(NewPmts(sec))]]
          /\ Conclude(f, Done(filter[f], sec),
               [g \in DOMAIN filter |->
                  IF g = f THEN Noted(filter[f], sec)
                  ELSE IF g \in ToSet(NewPmts(sec)) THEN NewFilter(PmtPid(sec, g), "PMT")
                  ELSE filter[g]],
               running \o NewPmts(sec), IF NewPmts(sec) = <<>> THEN revents ELSE {}, Taken(f))
    BY Zenon DEF ReadPat
  <2>2. ToSet(NewPmts(sec)) = Range(NewPmts(sec))
    BY ToSetIsRange
  <2>. QED
    BY <2>1, <2>2
<1>. DEFINE new == NewPmts(sec)
            all == running \o new
            done == Done(filter[f], sec)
            F == fls(sec)
<1>2. /\ f \in DOMAIN filter /\ FilterRecord(filter[f])
      /\ IsSequence(queue[f]) /\ queue[f] # <<>>
      /\ sec = Head(queue[f]) /\ Taken(f)[f] = Tail(queue[f]) /\ f \in Range(running)
      /\ DOMAIN Taken(f) = DOMAIN filter /\ IsSequence(Taken(f)[f])
      /\ \A g \in DOMAIN filter \ {f} : Taken(f)[g] = queue[g]
      /\ SameTables
  BY <1>1, WhatIsRead
<1>3. /\ DOMAIN filter = {0} \union DOMAIN srv /\ DOMAIN queue = DOMAIN filter
      /\ \A g \in DOMAIN filter : FilterRecord(filter[g]) /\ IsSequence(queue[g])
      /\ \A g \in DOMAIN queue \ Range(running) : queue[g] = <<>>
      /\ Range(running) \subseteq DOMAIN filter
      /\ \A g \in Range(running) : filter[g].table = IF g = 0 THEN "PAT" ELSE "PMT"
  BY DEF InScan, ScanState, FiltersTyped
<1>4. f = 0
  BY <1>1, <1>2, <1>3
<1>5. TrueSection(sec)
  BY <1>2, <1>3, QueueTail DEF InScan, PidsInv, QueuesInv
<1>6. /\ ServicesInv /\ IsSequence(srv) /\ DOMAIN services = DOMAIN srv
      /\ DOMAIN services \subseteq Nat \ {0} /\ FilterListInv /\ PidsInv /\ main = "scan"
      /\ Range(running) \subseteq {0} \union P
  BY DEF InScan, PidsInv, ServicesInv, FilterListInv, ScanInv, FiltersInv
<1>7. /\ all \in Seq(Nat) /\ NoRepeat(all)
      /\ Range(all) = Range(running) \union Range(new)
      /\ Range(new) \subseteq DOMAIN services
  BY <1>1, <1>5, <1>6, ReadPatFilterList
<1>8. Range(new) = Named(sec) \ P /\ sec.entries \in Seq([sid : Nat, pid : Nat])
  BY <1>1, <1>5, <1>6, NewFilters DEF TrueSection
<1>9. /\ DOMAIN F = DOMAIN filter /\ F[0] = Noted(filter[0], sec)
      /\ \A g \in Range(new) : F[g] = NewFilter(PmtPid(sec, g), "PMT")
      /\ \A g \in DOMAIN filter \ (Range(new) \union {0}) : F[g] = filter[g]
  BY <1>3, <1>4, <1>6, <1>7
<1>10. services' = [k \in DOMAIN services |->
                     [services[k] EXCEPT !.priv = @ \/ k \in Range(new)]]
  BY <1>1
<1>. HIDE DEF new, fls
<1>11. ASSUME NEW k \in DOMAIN services
       PROVE  /\ services'[k].priv <=> services[k].priv \/ k \in Range(new)
              /\ services'[k].teletext_pid = services[k].teletext_pid
  <2>1. services'[k] = [services[k] EXCEPT !.priv = services[k].priv \/ k \in Range(new)]
    BY <1>10
  <2>2. ServiceRecord(services[k])
    BY <1>6 DEF ServicesInv
  <2>3. /\ services'[k].teletext_pid = services[k].teletext_pid
        /\ services'[k].priv = (services[k].priv \/ k \in Range(new))
    BY <2>1, <2>2 DEF ServiceRecord
  <2>. QED
    BY <2>3, Zenon
<1>12. PrivateServices' = P \union Range(new) /\ KnownServices' = KnownServices
  <2>1. DOMAIN services' = DOMAIN services
    BY <1>10
  <2>2. UNCHANGED <<srv, tp>>
    BY <1>2 DEF SameTables
  <2>3. PrivateServices' = P \union Range(new)
    BY <1>7, <1>11, <2>1 DEF PrivateServices
  <2>4. KnownServices' = KnownServices
    BY <1>11, <2>1, <2>2 DEF KnownServices, TruePids
  <2>. QED
    BY <2>3, <2>4
<1>13. FiltersTyped(F, Taken(f), Range(all))
  <2>1. \A g \in DOMAIN F : FilterRecord(F[g])
    <3>1. FilterRecord(Noted(filter[0], sec))
      BY <1>2, <1>4, NotedParts
    <3>2. \A pid : FilterRecord(NewFilter(pid, "PMT"))
      BY DEF FilterRecord, NewFilter
    <3>. QED
      BY <1>3, <1>9, <3>1, <3>2
  <2>2. \A g \in DOMAIN Taken(f) : IsSequence(Taken(f)[g])
    BY <1>2, <1>3
  <2>3. \A g \in DOMAIN Taken(f) \ Range(all) : Taken(f)[g] = <<>>
    BY <1>2, <1>3, <1>7
  <2>4. Range(all) \subseteq DOMAIN F
    BY <1>3, <1>6, <1>7, <1>9
  <2>5. ASSUME NEW g \in Range(all) PROVE F[g].table = IF g = 0 THEN "PAT" ELSE "PMT"
    <3>1. Noted(filter[0], sec).table = filter[0].table
      BY <1>2, <1>4, NotedParts
    <3>2. \A pid : NewFilter(pid, "PMT").table = "PMT"
      BY DEF NewFilter
    <3>3. g \in Range(new) => g # 0
      BY <1>6, <1>7
    <3>. QED
      BY <1>2, <1>3, <1>4, <1>7, <1>9, <2>5, <3>1, <3>2, <3>3
  <2>. QED
    BY <1>2, <1>3, <1>9, <2>1, <2>2, <2>3, <2>4, <2>5 DEF FiltersTyped
<1>14. InHand(filter, queue, Range(running), P, KnownServices, patVersion, sent, garbled)
  BY DEF InScan, ScanState
<1>15. ASSUME Wanted # {}
       PROVE  /\ IF done THEN Wanted \subseteq P \union Range(new)
                 ELSE PatOpen(F[0], Taken(f)[0], P \union Range(new), patVersion, sent, garbled)
              /\ IsPat(sec, patVersion)
  <2>1. /\ PatOpen(filter[0], queue[0], P, patVersion, sent, garbled)
        /\ sec = Bad("garbled") \/ IsPat(sec, patVersion)
    BY <1>1, <1>4, <1>15, WhatIsRead
  <2>2. IsPat(sec, patVersion)
    BY <1>1, <2>1 DEF Bad
  <2>3. ASSUME NEW k \in Wanted, \E e \in ToSet(sec.entries) : e.sid = srv[k].service_id
        PROVE  k \in P \union Range(new)
    BY <1>8, <2>3, NamedFound
  <2>4. BroadcastTyped /\ garbled \in Nat
    BY DEF InScan, ScanState, CountsInv
  <2>5. IF Done(filter[0], sec) THEN Wanted \subseteq P \union Range(new)
        ELSE PatOpen(Noted(filter[0], sec), Tail(queue[0]), P \union Range(new),
                     patVersion, sent, garbled)
    BY <1>1, <1>2, <1>4, <2>1, <2>3, <2>4, PatSectionRead
  <2>. QED
    BY <1>2, <1>4, <1>9, <2>2, <2>5
<1>16. ASSUME NEW k \in Wanted, k \in Range(new)
       PROVE  PmtOpen(k, F[k], Taken(f)[k], sent, garbled)
  <2>1. k \in Named(sec) /\ k \notin P /\ k # 0
    BY <1>6, <1>7, <1>8, <1>16
  <2>2. F[k] = NewFilter(PmtPid(sec, k), "PMT") /\ Taken(f)[k] = <<>>
    BY <1>2, <1>3, <1>4, <1>6, <1>7, <1>9, <1>16, <2>1
  <2>3. PICK e \in ToSet(sec.entries) : k = FindService(e.sid)
    BY <2>1 DEF Named
  <2>4. services[k].service_id = e.sid /\ services[k].service_id = srv[k].service_id
    BY <1>6, <2>1, <2>3, FoundService, FoundWanted
  <2>5. PICK v \in 1 .. patVersion : \E n \in DOMAIN tp.pat[v] : sec = PatSection(v, n)
    BY <1>15, <1>16 DEF IsPat
  <2>6. PICK n \in DOMAIN tp.pat[v] : sec = PatSection(v, n)
    BY <2>5
  <2>7. sec.entries = tp.pat[v][n]
    BY <2>6 DEF PatSection
  <2>8. v \in DOMAIN tp.pat
    BY <2>5, LenProperties DEF InScan, BroadcastTyped
  <2>. QED
    BY <1>8, <2>2, <2>3, <2>4, <2>6, <2>7, <2>8, NewPmtOpen
<1>. DEFINE open == IF done THEN Range(all) \ {f} ELSE Range(all)
<1>17. InHand(F, Taken(f), open, P \union Range(new), KnownServices,
              patVersion, sent, garbled)
  <2>1. Wanted # {} =>
          IF 0 \in open THEN PatOpen(F[0], Taken(f)[0], P \union Range(new),
                                     patVersion, sent, garbled)
          ELSE Wanted \subseteq P \union Range(new)
    BY <1>2, <1>4, <1>7, <1>15
  <2>2. ASSUME NEW k \in Wanted, k \in P, k \notin Range(new)
        PROVE  IF k \in open THEN PmtOpen(k, F[k], Taken(f)[k], sent, garbled)
               ELSE k \in KnownServices
    <3>1. k \in DOMAIN filter /\ k # 0
      BY <1>3, <1>6, <2>2 DEF PrivateServices
    <3>2. F[k] = filter[k] /\ Taken(f)[k] = queue[k]
      BY <1>2, <1>4, <1>9, <2>2, <3>1
    <3>3. k \in open <=> k \in Range(running)
      BY <1>4, <1>7, <2>2, <3>1
    <3>. QED
      BY <1>14, <2>2, <3>2, <3>3 DEF InHand
  <2>3. ASSUME NEW k \in Wanted, k \in Range(new)
        PROVE  k \in open
    BY <1>4, <1>6, <1>7, <2>3
  <2>. HIDE DEF open, F
  <2>. QED
    BY <1>16, <2>1, <2>2, <2>3 DEF InHand
<1>18. Conclude(f, done, F, all, IF new = <<>> THEN revents ELSE {}, Taken(f))
  BY <1>1 DEF new
<1>19. f \in Range(all)
  BY <1>2, <1>7
<1>20. InHand(F, Taken(f), open, PrivateServices', KnownServices', patVersion, sent, garbled)
  BY <1>12, <1>17
<1>. DEFINE rev == IF new = <<>> THEN revents ELSE {}
<1>21. Conclude(f, Done(filter[f], sec), F, all, rev, Taken(f)) /\ SameTables
  BY <1>2, <1>18
<1>22. CASE Done(filter[f], sec)
  <2>1. InHand(F, Taken(f), Range(all) \ {f}, PrivateServices', KnownServices',
               patVersion, sent, garbled)
    BY <1>20, <1>22
  <2>. HIDE DEF F, all, open, rev, P
  <2>. QED
    BY <1>7, <1>13, <1>19, <1>21, <1>22, <2>1, ConcludeState
<1>23. CASE ~Done(filter[f], sec)
  <2>1. InHand(F, Taken(f), Range(all), PrivateServices', KnownServices',
               patVersion, sent, garbled)
    BY <1>20, <1>23
  <2>2. all \in Seq(Nat) /\ NoRepeat(all)
    BY <1>7
  <2>. HIDE DEF F, all, open, rev, P
  <2>3. Range(all) = (IF Done(filter[f], sec) THEN Range(all) \ {f} ELSE Range(all))
    BY <1>23
  <2>. QED
    BY <1>13, <1>19, <1>21, <2>1, <2>2, <2>3, ConcludeState
<1>. QED
  BY <1>22, <1>23

-----------------------------------------------------------------------------
(* Sections arrive and time passes                                         *)

(* It is left to show that the filters that are open have time.            *)
LEMMA OutsideState ==
  ASSUME InScan, UNCHANGED <<srv, tp, services, running, scan>>, CountsInv',
         FiltersTyped(filter', queue', Range(running)),
         (Wanted # {} /\ 0 \in Range(running)) =>
           PatOpen(filter'[0], queue'[0], PrivateServices, patVersion', sent', garbled'),
         \A k \in Wanted \intersect PrivateServices : k \in Range(running) =>
           PmtOpen(k, filter'[k], queue'[k], sent', garbled')
  PROVE  ScanState'
<1>1. PrivateServices' = PrivateServices /\ KnownServices' = KnownServices
  BY ServicesSame
<1>2. InHand(filter, queue, Range(running), PrivateServices, KnownServices,
             patVersion, sent, garbled)
  BY DEF InScan, ScanState
<1>3. InHand(filter', queue', Range(running), PrivateServices, KnownServices,
             patVersion', sent', garbled')
  BY <1>2 DEF InHand
<1>4. InHand(filter, queue, Range(running), PrivateServices, KnownServices,
             patVersion, sent, garbled)'
  BY <1>1, <1>3, InHandPrimed
<1>5. FiltersTyped(filter, queue, Range(running))'
  BY DEF FiltersTyped, FilterRecord
<1>6. scan' = "scanned" => running' = <<>>
  BY DEF InScan, ScanState
<1>. QED
  BY <1>4, <1>5, <1>6 DEF ScanState

LEMMA OpenFilters ==
  ASSUME InScan
  PROVE  /\ (Wanted # {} /\ 0 \in Range(running)) =>
              PatOpen(filter[0], queue[0], PrivateServices, patVersion, sent, garbled)
         /\ \A k \in Wanted \intersect PrivateServices : k \in Range(running) =>
              PmtOpen(k, filter[k], queue[k], sent, garbled)
         /\ FiltersTyped(filter, queue, Range(running))
         /\ garbled \in 0 .. Garbles
BY DEF InScan, ScanState, InHand, CountsInv

LEMMA SameState ==
  ASSUME InScan,
         UNCHANGED <<srv, services, filter, running, scan, tp, patVersion, queue, sent, garbled>>
  PROVE  ScanState'
<1>1. CountsInv'
  BY DEF InScan, ScanState, CountsInv
<1>. QED
  BY <1>1, OpenFilters, OutsideState

LEMMA InTimeLater ==
  ASSUME NEW fl, NEW q, NEW late \in {0, 1}, NEW base \in Nat, NEW g \in Nat,
         InTime(fl, q, late, base, g), NEW h \in Nat, h >= g,
         NEW late2 \in {0, 1}, late2 <= late
  PROVE  InTime(fl, q, late2, base, h)
BY DEF InTime

(* No section of the new PAT was sent before.                              *)
LEMMA UpdateState ==
  ASSUME InScan, UpdatePat
  PROVE  ScanState'
<1>. DEFINE fl == filter[0]
            q == queue[0]
            ver == patVersion
            P == PrivateServices
<1>1. /\ UNCHANGED <<srv, tp, services, filter, running, scan, queue, sent, garbled>>
      /\ patVersion' = ver + 1 /\ ver \in Nat \ {0}
  BY Orderly DEF UpdatePat, InScan
<1>2. CountsInv'
  BY <1>1 DEF InScan, ScanState, CountsInv
<1>3. ASSUME PatOpen(fl, q, P, ver, sent, garbled)
      PROVE  PatOpen(fl, q, P, ver + 1, sent, garbled)
  <2>1. PatRead(fl, P, ver) /\ PatQueue(fl, q, ver)
        /\ InTime(fl, q, PatLate(fl, q, ver, sent), 0, garbled)
    BY <1>3 DEF PatOpen
  <2>2. 1 .. ver \subseteq 1 .. ver + 1
    BY <1>1
  <2>3. PatRead(fl, P, ver + 1)
    BY <2>1, <2>2 DEF PatRead
  <2>4. \A sec : IsPat(sec, ver) => IsPat(sec, ver + 1)
    BY <2>2 DEF IsPat
  <2>5. PatQueue(fl, q, ver + 1)
    BY <2>1, <2>4 DEF PatQueue
  <2>6. PatLate(fl, q, ver + 1, sent) = 0
    <3>1. ASSUME NEW n PROVE PatSection(ver + 1, n) \notin sent
      <4>1. PatSection(ver + 1, n).table = "PAT" /\ PatSection(ver + 1, n).version = ver + 1
        BY DEF PatSection
      <4>. QED
        BY <1>1, <4>1 DEF InScan, ScanState, CountsInv
    <3>. QED
      BY <3>1 DEF PatLate
  <2>7. InTime(fl, q, 0, 0, garbled)
    <3>1. PatLate(fl, q, ver, sent) \in {0, 1}
      BY DEF PatLate
    <3>2. garbled \in Nat /\ garbled >= garbled
      BY OpenFilters
    <3>. QED
      BY <2>1, <3>1, <3>2, InTimeLater
  <2>. QED
    BY <2>3, <2>5, <2>6, <2>7 DEF PatOpen
<1>. QED
  BY <1>1, <1>2, <1>3, OpenFilters, OutsideState

(* A filter that is a second older.                                        *)
Aged(fl) == [fl EXCEPT !.age = Min({fl.age + 1, SlowTimeout + 1})]

LEMMA AgedParts ==
  ASSUME NEW fl, FilterRecord(fl)
  PROVE  /\ FilterRecord(Aged(fl))
         /\ Aged(fl).pid = fl.pid /\ Aged(fl).table = fl.table /\ Aged(fl).ext = fl.ext
         /\ Aged(fl).version = fl.version /\ Aged(fl).done = fl.done
         /\ Aged(fl).timeout = fl.timeout
         /\ fl.age \in Nat => Aged(fl).age \in Nat /\ Aged(fl).age <= fl.age + 1
<1>. DEFINE a == Min({fl.age + 1, SlowTimeout + 1})
<1>1. Aged(fl) = [fl EXCEPT !.age = a]
  BY DEF Aged
<1>2. ASSUME fl.age \in Nat PROVE a \in Nat /\ a <= fl.age + 1
  <2>1. {fl.age + 1, SlowTimeout + 1} \in SUBSET Nat
    BY <1>2, ScanAssumption
  <2>2. a \in Nat /\ \A y \in {fl.age + 1, SlowTimeout + 1} : a <= y
    BY <2>1, LeastInSet
  <2>. QED
    BY <2>2
<1>. HIDE DEF a
<1>. QED
  BY <1>1, <1>2 DEF FilterRecord

(* Before a second passes all that is on air was sent and read, so that a  *)
(* filter that is still open missed a section already.                     *)
LEMMA InTimeSecond ==
  ASSUME NEW fl, NEW q, NEW base \in Nat, NEW g \in Nat, InTime(fl, q, 1, base, g),
         Bad("garbled") \notin Range(q), NEW r,
         NEW gl, gl.timeout = fl.timeout, gl.age \in Nat, gl.age <= fl.age + 1
  PROVE  InTime(gl, r, 0, base, g)
BY DEF InTime

LEMMA PatSecond ==
  ASSUME InScan, Wanted # {}, NEW fl, FilterRecord(fl), NEW P, Air(PidPat) \subseteq sent,
         PatOpen(fl, <<>>, P, patVersion, sent, garbled)
  PROVE  PatOpen(Aged(fl), <<>>, P, patVersion, {}, garbled)
<1>. DEFINE ver == patVersion
            gl == Aged(fl)
<1>1. PatRead(fl, P, ver) /\ PatQueue(fl, <<>>, ver)
      /\ InTime(fl, <<>>, PatLate(fl, <<>>, ver, sent), 0, garbled)
  BY DEF PatOpen
<1>2. fl.age \in Nat
  BY <1>1 DEF InTime
<1>3. /\ gl.pid = fl.pid /\ gl.ext = fl.ext /\ gl.version = fl.version
      /\ gl.done = fl.done /\ gl.timeout = fl.timeout
      /\ gl.age \in Nat /\ gl.age <= fl.age + 1
  BY <1>2, AgedParts
<1>4. ver \in DOMAIN tp.pat /\ ver \in Nat \ {0}
  BY Orderly DEF InScan, BroadcastTyped
<1>5. DOMAIN tp.pat[ver] = 1 .. Len(tp.pat[ver]) /\ Len(tp.pat[ver]) \in Nat
  <2>1. tp.pat[ver] \in Seq(Seq([sid : Nat, pid : Nat]))
    BY <1>4, ElementOfSeq, LenProperties DEF InScan, BroadcastTyped
  <2>. QED
    BY <2>1, LenProperties
<1>6. PICK n \in DOMAIN tp.pat[ver] : ~(fl.version = ver /\ n - 1 \in fl.done)
  <2>1. CASE fl.version = ver
    <3>1. ~(0 .. Len(tp.pat[ver]) - 1 \subseteq fl.done)
      BY <1>1, <1>4, <2>1 DEF PatRead
    <3>2. PICK m \in 0 .. Len(tp.pat[ver]) - 1 : m \notin fl.done
      BY <3>1
    <3>3. m + 1 \in DOMAIN tp.pat[ver] /\ (m + 1) - 1 = m
      BY <1>5
    <3>. QED
      BY <3>2, <3>3
  <2>2. CASE fl.version # ver
    <3>1. \E n \in DOMAIN tp.pat[ver] : TRUE
      BY <1>4 DEF Wanted, Own
    <3>. QED
      BY <2>2, <3>1
  <2>. QED
    BY <2>1, <2>2
<1>7. Range(<<>>) = {}
  BY DEF Range
<1>8. PatLate(fl, <<>>, ver, sent) = 1
  <2>1. PatSection(ver, n) \in sent
    BY DEF Air
  <2>2. ~Heard(fl, <<>>, PatSection(ver, n))
    BY <1>6, <1>7 DEF Heard, PatSection
  <2>. QED
    BY <2>1, <2>2 DEF PatLate
<1>9. PatLate(gl, <<>>, ver, {}) = 0
  BY DEF PatLate
<1>10. InTime(gl, <<>>, 0, 0, garbled)
  <2>1. garbled \in Nat
    BY OpenFilters
  <2>. QED
    BY <1>1, <1>3, <1>7, <1>8, <2>1, InTimeSecond
<1>11. PatRead(gl, P, ver)
  BY <1>1, <1>3 DEF PatRead
<1>12. PatQueue(gl, <<>>, ver)
  BY <1>1, <1>3 DEF PatQueue
<1>. QED
  BY <1>9, <1>10, <1>11, <1>12 DEF PatOpen

LEMMA PmtSecond ==
  ASSUME InScan, NEW k \in Wanted, NEW fl, FilterRecord(fl), Air(fl.pid) \subseteq sent,
         PmtOpen(k, fl, <<>>, sent, garbled)
  PROVE  PmtOpen(k, Aged(fl), <<>>, {}, garbled)
<1>. DEFINE sec == PmtSection(fl.pid, srv[k].service_id)
            gl == Aged(fl)
<1>1. /\ fl.pid \in DOMAIN tp.pmt /\ DOMAIN tp.pmt[fl.pid] = {srv[k].service_id}
      /\ fl.done = {} /\ InTime(fl, <<>>, PmtLate(<<>>, sec, sent), 1, garbled)
  BY DEF PmtOpen
<1>2. /\ gl.pid = fl.pid /\ gl.done = fl.done /\ gl.timeout = fl.timeout
      /\ gl.age \in Nat /\ gl.age <= fl.age + 1
  <2>1. fl.age \in Nat
    BY <1>1 DEF InTime
  <2>. QED
    BY <2>1, AgedParts
<1>3. Range(<<>>) = {}
  BY DEF Range
<1>4. sec \in sent
  <2>1. fl.pid # PidPat
    BY <1>1, Orderly DEF InScan
  <2>. QED
    BY <1>1, <2>1 DEF Air
<1>5. PmtLate(<<>>, sec, sent) = 1 /\ PmtLate(<<>>, sec, {}) = 0
  BY <1>3, <1>4 DEF PmtLate
<1>. HIDE DEF sec
<1>6. InTime(gl, <<>>, 0, 1, garbled)
  <2>1. garbled \in Nat
    BY OpenFilters
  <2>. QED
    BY <1>1, <1>2, <1>3, <1>5, <2>1, InTimeSecond
<1>. QED
  BY <1>1, <1>2, <1>3, <1>5, <1>6 DEF PmtOpen, sec

LEMMA SecondState ==
  ASSUME InScan, Second
  PROVE  ScanState'
<1>1. /\ UNCHANGED <<srv, services, running, scan, tp, patVersion, queue, garbled>>
      /\ sent' = {}
      /\ filter' = [f \in DOMAIN filter |->
                     IF f \in Range(running) THEN Aged(filter[f]) ELSE filter[f]]
      /\ \A f \in Range(running) : queue[f] = <<>> /\ Air(filter[f].pid) \subseteq sent
  BY ToSetIsRange DEF Second, InScan, Aged
<1>2. FiltersTyped(filter, queue, Range(running)) /\ Range(running) \subseteq DOMAIN filter
  BY OpenFilters DEF FiltersTyped
<1>3. /\ DOMAIN filter' = DOMAIN filter
      /\ \A f \in DOMAIN filter : filter'[f] = IF f \in Range(running) THEN Aged(filter[f]) ELSE filter[f]
  BY <1>1
<1>4. \A f \in DOMAIN filter : FilterRecord(Aged(filter[f])) /\ Aged(filter[f]).table = filter[f].table
  BY <1>2, AgedParts DEF FiltersTyped
<1>5. CountsInv'
  BY <1>1 DEF InScan, ScanState, CountsInv
<1>6. FiltersTyped(filter', queue', Range(running))
  BY <1>1, <1>2, <1>3, <1>4 DEF FiltersTyped
<1>7. ASSUME Wanted # {}, 0 \in Range(running)
      PROVE  PatOpen(filter'[0], queue'[0], PrivateServices, patVersion', sent', garbled')
  <2>1. PatOpen(filter[0], <<>>, PrivateServices, patVersion, sent, garbled)
    BY <1>1, <1>7, OpenFilters
  <2>2. filter[0].pid = PidPat
    BY <2>1 DEF PatOpen, PatRead
  <2>3. FilterRecord(filter[0]) /\ filter'[0] = Aged(filter[0]) /\ Air(PidPat) \subseteq sent
    BY <1>1, <1>2, <1>3, <1>7, <2>2 DEF FiltersTyped
  <2>4. PatOpen(filter'[0], <<>>, PrivateServices, patVersion, {}, garbled)
    BY <1>7, <2>1, <2>3, PatSecond
  <2>. QED
    BY <1>1, <1>7, <2>4
<1>8. ASSUME NEW k \in Wanted \intersect PrivateServices, k \in Range(running)
      PROVE  PmtOpen(k, filter'[k], queue'[k], sent', garbled')
  <2>1. PmtOpen(k, filter[k], <<>>, sent, garbled)
    BY <1>1, <1>8, OpenFilters
  <2>2. FilterRecord(filter[k]) /\ filter'[k] = Aged(filter[k]) /\ Air(filter[k].pid) \subseteq sent
    BY <1>1, <1>2, <1>3, <1>8 DEF FiltersTyped
  <2>3. PmtOpen(k, filter'[k], <<>>, {}, garbled)
    BY <2>1, <2>2, PmtSecond
  <2>. QED
    BY <1>1, <1>8, <2>3
<1>. QED
  BY <1>1, <1>5, <1>6, <1>7, <1>8, OutsideState

LEMMA PatQueueAppend ==
  ASSUME NEW fl, NEW q, IsSequence(q), NEW ver \in Nat, PatQueue(fl, q, ver), NEW sec,
         \/ sec = Bad("garbled")
         \/ IsPat(sec, ver) /\ sec.version = ver /\ fl.version <= ver
  PROVE  PatQueue(fl, Append(q, sec), ver)
<1>. DEFINE r == Append(q, sec)
<1>1. /\ Range(r) = Range(q) \union {sec} /\ Len(q) \in Nat /\ Len(r) = Len(q) + 1
      /\ r[Len(q) + 1] = sec /\ \A i \in 1 .. Len(q) : r[i] = q[i] /\ q[i] \in Range(q)
  <2>1. Range(r) = Range(q) \union {sec} /\ Len(q) \in Nat /\ DOMAIN q = 1 .. Len(q)
    BY SequenceAppend, SequenceDomain
  <2>2. /\ Len(r) = Len(q) + 1 /\ r[Len(q) + 1] = sec
        /\ \A i \in 1 .. Len(q) : r[i] = q[i]
    BY AppendProperties, LenProperties DEF IsSequence
  <2>. QED
    BY <2>1, <2>2 DEF Range
<1>. HIDE DEF r
<1>2. \A s \in Range(r) : s = Bad("garbled") \/ (IsPat(s, ver) /\ fl.version <= s.version)
  BY <1>1 DEF PatQueue
<1>3. ASSUME NEW i \in 1 .. Len(r), NEW j \in 1 .. Len(r), i < j,
             r[i] # Bad("garbled"), r[j] # Bad("garbled")
      PROVE  r[i].version <= r[j].version
  <2>1. i \in 1 .. Len(q)
    BY <1>1, <1>3
  <2>2. CASE j \in 1 .. Len(q)
    BY <1>1, <1>3, <2>1, <2>2 DEF PatQueue
  <2>3. CASE j \notin 1 .. Len(q)
    <3>1. j = Len(q) + 1
      BY <1>1, <2>3
    <3>2. r[j] = sec /\ sec.version = ver
      BY <1>1, <1>3, <3>1
    <3>3. IsPat(r[i], ver)
      BY <1>1, <1>3, <2>1 DEF PatQueue
    <3>4. r[i].version \in 1 .. ver
      BY <3>3 DEF IsPat, PatSection
    <3>. QED
      BY <3>2, <3>4
  <2>. QED
    BY <2>2, <2>3
<1>4. PatQueue(fl, r, ver)
  BY <1>2, <1>3 DEF PatQueue
<1>. QED
  BY <1>4 DEF r

(* A section is sent on PID `pid'.  The filters on that PID get it, or get *)
(* it garbled; for the others none is late that was not before.            *)
LEMMA PatSent ==
  ASSUME InScan, NEW fl, NEW q, IsSequence(q), NEW P,
         PatOpen(fl, q, P, patVersion, sent, garbled), NEW pid, NEW sec \in Air(pid)
  PROVE  /\ pid = PidPat =>
              /\ PatOpen(fl, Append(q, sec), P, patVersion, sent \union {sec}, garbled)
              /\ PatOpen(fl, Append(q, Bad("garbled")), P, patVersion,
                         sent \union {sec}, garbled + 1)
         /\ pid # PidPat =>
              \A h \in {garbled, garbled + 1} :
                PatOpen(fl, q, P, patVersion, sent \union {sec}, h)
<1>. DEFINE ver == patVersion
            snt == sent \union {sec}
            late == PatLate(fl, q, ver, sent)
<1>1. /\ PatRead(fl, P, ver) /\ PatQueue(fl, q, ver)
      /\ InTime(fl, q, late, 0, garbled)
  BY DEF PatOpen
<1>2. ver \in Nat \ {0} /\ garbled \in Nat /\ ver \in 1 .. ver
  <2>1. ver \in Nat \ {0}
    BY Orderly DEF InScan
  <2>. QED
    BY <2>1, OpenFilters
<1>3. \A r, s : PatLate(fl, r, ver, s) \in {0, 1}
  BY DEF PatLate
<1>4. fl.version \in Int /\ fl.version <= ver
  BY <1>1, <1>2 DEF PatRead
<1>5. \A e : Range(Append(q, e)) = Range(q) \union {e}
  BY SequenceAppend
<1>6. ASSUME pid = PidPat
      PROVE  PatOpen(fl, Append(q, sec), P, ver, snt, garbled)
  <2>1. PICK n \in DOMAIN tp.pat[ver] : sec = PatSection(ver, n)
    BY <1>6 DEF Air
  <2>2. IsPat(sec, ver) /\ sec.version = ver /\ sec # Bad("garbled")
    BY <1>2, <2>1 DEF IsPat, PatSection, Bad
  <2>3. PatQueue(fl, Append(q, sec), ver)
    BY <1>1, <1>2, <1>4, <2>2, PatQueueAppend
  <2>4. PatLate(fl, Append(q, sec), ver, snt) <= late
    <3>1. ASSUME NEW m, PatSection(ver, m) \in snt, ~Heard(fl, Append(q, sec), PatSection(ver, m))
          PROVE  PatSection(ver, m) \in sent /\ ~Heard(fl, q, PatSection(ver, m))
      BY <1>5, <3>1 DEF Heard
    <3>. QED
      BY <3>1 DEF PatLate
  <2>5. InTime(fl, Append(q, sec), PatLate(fl, Append(q, sec), ver, snt), 0, garbled)
    <3>. DEFINE r == Append(q, sec)
                less == PatLate(fl, r, ver, snt)
    <3>1. late \in {0, 1} /\ less \in {0, 1} /\ less <= late
      BY <1>3, <2>4
    <3>2. Bad("garbled") \in Range(q) => Bad("garbled") \in Range(r)
      BY <1>5
    <3>3. InTime(fl, q, late, 0, garbled) /\ garbled \in Nat
      BY <1>1, <1>2
    <3>. HIDE DEF late, less, r
    <3>4. InTime(fl, r, less, 0, garbled)
      BY <3>1, <3>2, <3>3, InTimeStill
    <3>. QED
      BY <3>4 DEF less, r
  <2>. QED
    BY <1>1, <2>3, <2>5 DEF PatOpen
<1>7. ASSUME pid = PidPat
      PROVE  PatOpen(fl, Append(q, Bad("garbled")), P, ver, snt, garbled + 1)
  <2>. DEFINE r == Append(q, Bad("garbled"))
  <2>1. PatQueue(fl, r, ver)
    BY <1>1, <1>2, PatQueueAppend
  <2>2. InTime(fl, r, PatLate(fl, r, ver, snt), 0, garbled + 1)
    <3>1. Bad("garbled") \in Range(r)
      BY <1>5
    <3>2. late \in {0, 1} /\ PatLate(fl, r, ver, snt) \in {0, 1}
      BY <1>3
    <3>. HIDE DEF late, r
    <3>. QED
      BY <1>1, <1>2, <3>1, <3>2, InTimeGarbled
  <2>. QED
    BY <1>1, <2>1, <2>2 DEF PatOpen
<1>8. ASSUME pid # PidPat, NEW h \in {garbled, garbled + 1}
      PROVE  PatOpen(fl, q, P, ver, snt, h)
  <2>1. sec.table = "PMT"
    BY <1>8 DEF Air, PmtSection
  <2>2. \A m : PatSection(ver, m) # sec
    BY <2>1 DEF PatSection
  <2>3. PatLate(fl, q, ver, snt) = late
    BY <2>2 DEF PatLate
  <2>4. InTime(fl, q, late, 0, h)
    <3>1. h \in Nat /\ h >= garbled /\ late \in {0, 1} /\ late <= late
      BY <1>2, <1>3
    <3>. HIDE DEF late
    <3>. QED
      BY <1>1, <1>2, <3>1, InTimeLater
  <2>. QED
    BY <1>1, <2>3, <2>4 DEF PatOpen
<1>. QED
  BY <1>6, <1>7, <1>8

LEMMA PmtSent ==
  ASSUME InScan, NEW k \in Wanted, NEW fl, NEW q, IsSequence(q),
         PmtOpen(k, fl, q, sent, garbled), NEW pid, NEW sec \in Air(pid)
  PROVE  /\ pid = fl.pid =>
              /\ PmtOpen(k, fl, Append(q, sec), sent \union {sec}, garbled)
              /\ PmtOpen(k, fl, Append(q, Bad("garbled")), sent \union {sec}, garbled + 1)
         /\ pid # fl.pid =>
              \A h \in {garbled, garbled + 1} : PmtOpen(k, fl, q, sent \union {sec}, h)
<1>. DEFINE id == srv[k].service_id
            own == PmtSection(fl.pid, id)
            snt == sent \union {sec}
            late == PmtLate(q, own, sent)
<1>1. /\ fl.pid \in DOMAIN tp.pmt /\ DOMAIN tp.pmt[fl.pid] = {id} /\ fl.done = {}
      /\ Range(q) \subseteq {Bad("garbled"), own} /\ InTime(fl, q, late, 1, garbled)
  BY DEF PmtOpen
<1>2. garbled \in Nat /\ \A r, s : PmtLate(r, own, s) \in {0, 1}
  BY OpenFilters DEF PmtLate
<1>3. \A e : Range(Append(q, e)) = Range(q) \union {e}
  BY SequenceAppend
<1>4. fl.pid # PidPat
  BY <1>1, Orderly DEF InScan
<1>5. ASSUME pid = fl.pid
      PROVE  /\ PmtOpen(k, fl, Append(q, sec), snt, garbled)
             /\ PmtOpen(k, fl, Append(q, Bad("garbled")), snt, garbled + 1)
  <2>1. sec = own
    BY <1>1, <1>4, <1>5 DEF Air
  <2>2. PmtLate(Append(q, sec), own, snt) = 0
    BY <1>3, <2>1 DEF PmtLate
  <2>3. Bad("garbled") \in Range(q) => Bad("garbled") \in Range(Append(q, sec))
    BY <1>3
  <2>4. InTime(fl, Append(q, sec), 0, 1, garbled)
    <3>1. late \in {0, 1} /\ 0 <= late
      BY <1>2
    <3>. HIDE DEF late
    <3>. QED
      BY <1>1, <1>2, <2>3, <3>1, InTimeStill
  <2>5. PmtOpen(k, fl, Append(q, sec), snt, garbled)
    BY <1>1, <1>3, <2>1, <2>2, <2>4 DEF PmtOpen
  <2>. DEFINE r == Append(q, Bad("garbled"))
  <2>6. InTime(fl, r, PmtLate(r, own, snt), 1, garbled + 1)
    <3>1. Bad("garbled") \in Range(r)
      BY <1>3
    <3>2. late \in {0, 1} /\ PmtLate(r, own, snt) \in {0, 1}
      BY <1>2
    <3>. HIDE DEF late, r, own
    <3>. QED
      BY <1>1, <1>2, <3>1, <3>2, InTimeGarbled
  <2>7. PmtOpen(k, fl, r, snt, garbled + 1)
    BY <1>1, <1>3, <2>6 DEF PmtOpen
  <2>. QED
    BY <2>5, <2>7
<1>6. ASSUME pid # fl.pid, NEW h \in {garbled, garbled + 1}
      PROVE  PmtOpen(k, fl, q, snt, h)
  <2>1. sec # own
    <3>1. CASE pid = PidPat
      <4>1. sec.table = "PAT" /\ own.table = "PMT"
        BY <3>1 DEF Air, PatSection, PmtSection
      <4>. QED
        BY <4>1
    <3>2. CASE pid # PidPat
      <4>1. PICK sid \in DOMAIN tp.pmt[pid] : pid \in DOMAIN tp.pmt /\ sec = PmtSection(pid, sid)
        BY <3>2 DEF Air
      <4>2. sec.ext = sid /\ own.ext = id
        BY <4>1 DEF PmtSection
      <4>3. sid # id
        BY <1>1, <1>6, <4>1, Orderly DEF InScan
      <4>. QED
        BY <4>2, <4>3
    <3>. QED
      BY <3>1, <3>2
  <2>2. PmtLate(q, own, snt) = late
    BY <2>1 DEF PmtLate
  <2>3. InTime(fl, q, late, 1, h)
    <3>1. h \in Nat /\ h >= garbled /\ late \in {0, 1} /\ late <= late
      BY <1>2
    <3>2. InTime(fl, q, late, 1, garbled) /\ 1 \in Nat /\ garbled \in Nat
      BY <1>1, <1>2
    <3>. HIDE DEF late, own
    <3>. QED
      BY <3>1, <3>2, InTimeLater
  <2>. QED
    BY <1>1, <2>2, <2>3 DEF PmtOpen
<1>. QED
  BY <1>5, <1>6

LEMMA TransmitState ==
  ASSUME InScan, Transmit
  PROVE  ScanState'
<1>1. PICK pid : \E sec \in Air(pid) : \E e, h :
        /\ sent' = sent \union {sec} /\ garbled' = h /\ Arrives(pid, e)
        /\ \/ e = sec /\ h = garbled
           \/ e = Bad("garbled") /\ h = garbled + 1 /\ garbled < Garbles
  BY DEF Transmit, InScan
<1>1a. PICK sec \in Air(pid) : \E e, h :
        /\ sent' = sent \union {sec} /\ garbled' = h /\ Arrives(pid, e)
        /\ \/ e = sec /\ h = garbled
           \/ e = Bad("garbled") /\ h = garbled + 1 /\ garbled < Garbles
  BY <1>1
<1>2. PICK e, h :
        /\ sent' = sent \union {sec} /\ garbled' = h /\ Arrives(pid, e)
        /\ \/ e = sec /\ h = garbled
           \/ e = Bad("garbled") /\ h = garbled + 1 /\ garbled < Garbles
  BY <1>1a
<1>3. /\ UNCHANGED <<srv, services, filter, running, scan, tp, patVersion>>
      /\ DOMAIN queue' = DOMAIN queue
      /\ \A f \in DOMAIN queue :
           queue'[f] = IF f \in Range(running) /\ filter[f].pid = pid
                       THEN Append(queue[f], e) ELSE queue[f]
  BY <1>2, ToSetIsRange DEF Arrives, Listening
<1>4. FiltersTyped(filter, queue, Range(running)) /\ garbled \in 0 .. Garbles /\ Garbles \in Nat
  BY OpenFilters, ScanAssumption
<1>5. /\ DOMAIN queue = DOMAIN filter /\ Range(running) \subseteq DOMAIN filter
      /\ \A f \in DOMAIN filter : FilterRecord(filter[f]) /\ IsSequence(queue[f])
  BY <1>4 DEF FiltersTyped
<1>6. CountsInv'
  <2>1. sec.table = "PAT" => sec.version = patVersion
    BY DEF Air, PatSection, PmtSection
  <2>2. patVersion \in 1 .. patVersion
    <3>1. patVersion \in Nat \ {0}
      BY Orderly DEF InScan
    <3>. QED
      BY <3>1
  <2>3. garbled' \in 0 .. Garbles
    BY <1>2, <1>4
  <2>4. \A s \in sent : s.table = "PAT" => s.version \in 1 .. patVersion
    BY DEF InScan, ScanState, CountsInv
  <2>. QED
    BY <1>2, <1>3, <2>1, <2>2, <2>3, <2>4 DEF CountsInv
<1>7. FiltersTyped(filter', queue', Range(running))
  <2>1. \A f \in DOMAIN queue : IsSequence(queue'[f])
    BY <1>3, <1>5, SequenceAppend
  <2>2. \A f \in DOMAIN queue \ Range(running) : queue'[f] = queue[f]
    BY <1>3
  <2>. QED
    BY <1>3, <1>4, <2>1, <2>2 DEF FiltersTyped
<1>8. ASSUME Wanted # {}, 0 \in Range(running)
      PROVE  PatOpen(filter'[0], queue'[0], PrivateServices, patVersion', sent', garbled')
  <2>. DEFINE P == PrivateServices
              fl == filter[0]
              q == queue[0]
  <2>1. PatOpen(fl, q, P, patVersion, sent, garbled)
    BY <1>8, OpenFilters
  <2>2. fl.pid = PidPat /\ IsSequence(q) /\ 0 \in DOMAIN queue
    BY <1>5, <1>8, <2>1 DEF PatOpen, PatRead
  <2>3. CASE pid = PidPat
    <3>1. queue'[0] = Append(q, e)
      BY <1>3, <1>8, <2>2, <2>3
    <3>2. PatOpen(fl, Append(q, e), P, patVersion, sent \union {sec}, h)
      BY <1>2, <2>1, <2>2, <2>3, PatSent
    <3>. QED
      BY <1>2, <1>3, <3>1, <3>2
  <2>4. CASE pid # PidPat
    <3>1. queue'[0] = q
      BY <1>3, <2>2, <2>4
    <3>2. PatOpen(fl, q, P, patVersion, sent \union {sec}, h)
      BY <1>2, <2>1, <2>2, <2>4, PatSent
    <3>. QED
      BY <1>2, <1>3, <3>1, <3>2
  <2>. QED
    BY <2>3, <2>4
<1>9. ASSUME NEW k \in Wanted \intersect PrivateServices, k \in Range(running)
      PROVE  PmtOpen(k, filter'[k], queue'[k], sent', garbled')
  <2>. DEFINE fl == filter[k]
              q == queue[k]
  <2>1. PmtOpen(k, fl, q, sent, garbled)
    BY <1>9, OpenFilters
  <2>2. IsSequence(q) /\ k \in DOMAIN queue
    BY <1>5, <1>9
  <2>3. CASE pid = fl.pid
    <3>1. queue'[k] = Append(q, e)
      BY <1>3, <1>9, <2>2, <2>3
    <3>2. PmtOpen(k, fl, Append(q, e), sent \union {sec}, h)
      BY <1>2, <2>1, <2>2, <2>3, PmtSent
    <3>. QED
      BY <1>2, <1>3, <3>1, <3>2
  <2>4. CASE pid # fl.pid
    <3>1. queue'[k] = q
      BY <1>3, <2>2, <2>4
    <3>2. PmtOpen(k, fl, q, sent \union {sec}, h)
      BY <1>2, <2>1, <2>2, <2>4, PmtSent
    <3>. QED
      BY <1>2, <1>3, <3>1, <3>2
  <2>. QED
    BY <2>3, <2>4
<1>. QED
  BY <1>3, <1>6, <1>7, <1>8, <1>9, OutsideState

-----------------------------------------------------------------------------
(* The scan as a whole                                                     *)

LEMMA ScanningState ==
  ASSUME InScan, ReadFilters \/ Environment
  PROVE  ScanState' \/ scan' = "failed"
<1>1. CASE Poll
  BY <1>1, SameState DEF Poll
<1>2. ASSUME NEW f, TooManyFilters(f) PROVE scan' = "failed"
  BY <1>2 DEF TooManyFilters
<1>. QED
  BY <1>1, <1>2, NoEventState, UnusableState, GarbledState, RepeatedState, PatState,
     PmtState, TransmitState, UpdateState, SecondState
  DEF ReadFilters, Environment

(* At the start the PAT is waited for, and nothing was sent yet.           *)
LEMMA StartState ==
  ASSUME IsSequence(srv), StartScan, scan' = "scan", sent = {}, garbled = 0, BroadcastTyped
  PROVE  ScanState'
<1>. DEFINE fl == NewFilter(PidPat, "PAT")
            N == 0 .. Len(srv)
<1>1. /\ filter' = [k \in N |-> fl] /\ queue' = [k \in N |-> <<>>] /\ running' = <<0>>
      /\ UNCHANGED <<srv, tp, patVersion, sent, garbled>>
  BY DEF StartScan
<1>2. N = {0} \union DOMAIN srv
  BY SequenceDomain
<1>3. Range(<<0>>) = {0} /\ Range(<<>>) = {} /\ IsSequence(<<>>)
  BY EmptySeq DEF Range, IsSequence
<1>4. patVersion \in Nat \ {0}
  BY LenProperties DEF BroadcastTyped
<1>5. Garbles \in Nat /\ Timeout \in Nat /\ SlowTimeout \in Nat
  BY ScanAssumption
<1>6. CountsInv'
  BY <1>1, <1>5 DEF CountsInv
<1>7. FilterRecord(fl) /\ fl.table = "PAT"
  BY DEF FilterRecord, NewFilter
<1>8. FiltersTyped(filter', queue', {0})
  <2>1. \A f \in N : filter'[f] = fl /\ queue'[f] = <<>>
    BY <1>1
  <2>2. DOMAIN filter' = N /\ DOMAIN queue' = N
    BY <1>1
  <2>. HIDE DEF N, fl
  <2>. QED
    BY <1>2, <1>3, <1>7, <2>1, <2>2 DEF FiltersTyped
<1>9. FiltersTyped(filter, queue, Range(running))'
  BY <1>1, <1>3, <1>8 DEF FiltersTyped, FilterRecord
<1>10. PatOpen(fl, <<>>, {}, patVersion, {}, 0)
  <2>1. PatRead(fl, {}, patVersion)
    BY DEF NewFilter, PatRead
  <2>2. PatQueue(fl, <<>>, patVersion)
    BY <1>3 DEF PatQueue
  <2>3. PatLate(fl, <<>>, patVersion, {}) = 0
    BY DEF PatLate
  <2>4. InTime(fl, <<>>, 0, 0, 0)
    <3>1. fl.age = 0 /\ fl.timeout = Timeout
      BY DEF NewFilter
    <3>. HIDE DEF fl
    <3>. QED
      BY <1>4, <1>5, <3>1 DEF InTime
  <2>. QED
    BY <2>1, <2>2, <2>3, <2>4 DEF PatOpen
<1>11. PrivateServices' = {}
  BY DEF StartScan, PrivateServices
<1>12. InHand(filter', queue', Range(running'), PrivateServices', KnownServices',
              patVersion', sent', garbled')
  <2>1. filter'[0] = fl /\ queue'[0] = <<>> /\ Range(running') = {0}
    BY <1>1, <1>2, <1>3
  <2>. HIDE DEF fl, N
  <2>2. PatOpen(filter'[0], queue'[0], PrivateServices', patVersion', sent', garbled')
    BY <1>1, <1>10, <1>11, <2>1
  <2>. QED
    BY <1>11, <2>1, <2>2 DEF InHand
<1>13. InHand(filter, queue, Range(running), PrivateServices, KnownServices,
              patVersion, sent, garbled)'
  BY <1>1, <1>12, InHandPrimed
<1>. QED
  BY <1>6, <1>9, <1>13 DEF ScanState

LEMMA CompleteStep ==
  CompleteInv /\ PidsInv /\ FilterListInv /\ BroadcastTyped /\ SetupInv /\ [Next]_vars
    => CompleteInv'
<1>. SUFFICES ASSUME CompleteInv, PidsInv, FilterListInv, BroadcastTyped, SetupInv, [Next]_vars
              PROVE  CompleteInv'
  OBVIOUS
<1>0. FiltersInv /\ ScanInv /\ IsSequence(srv)
  BY DEF FilterListInv, PidsInv
<1>1. ASSUME main' \in {"collect", "print", "tune", "tuned", "holding", "ok", "error"},
             scan' \in {"idle", "failed"},
             main' \in {"collect", "tune"} => main \in {"start", "collect"},
             UNCHANGED <<sent, garbled>>
      PROVE  CompleteInv'
  BY <1>1 DEF CompleteInv
<1>2. CASE FindChannel
  <2>1. /\ main = "start" /\ main' \in {"collect", "print", "tune", "error"}
        /\ UNCHANGED <<scan, sent, garbled>>
    BY <1>2 DEF FindChannel, Exit
  <2>. QED
    BY <1>1, <2>1 DEF CompleteInv
<1>3. CASE CollectChannel
  <2>1. /\ main = "collect" /\ main' \in {"collect", "print", "tune"}
        /\ UNCHANGED <<scan, sent, garbled>>
    BY <1>3 DEF CollectChannel
  <2>. QED
    BY <1>1, <2>1 DEF CompleteInv
<1>4. CASE Tune
  <2>1. main = "tune" /\ sent = {} /\ garbled = 0
    BY <1>4 DEF Tune, CompleteInv
  <2>2. CASE NeedPatPmt
    <3>1. StartScan /\ main' = "scan" /\ scan' = "scan"
      BY <1>4, <2>2 DEF Tune, StartScan
    <3>2. ScanState'
      BY <1>0, <2>1, <3>1, StartState
    <3>. QED
      BY <3>1, <3>2 DEF CompleteInv
  <2>3. CASE ~NeedPatPmt
    <3>1. main' = "tuned" /\ UNCHANGED scanVars
      BY <1>4, <2>3 DEF Tune
    <3>. QED
      BY <1>1, <2>1, <3>1 DEF CompleteInv, scanVars
  <2>. QED
    BY <2>2, <2>3
<1>5. CASE TuneFails
  <2>1. main = "tune" /\ main' \in {"print", "error"} /\ UNCHANGED <<scan, sent, garbled>>
    BY <1>5 DEF TuneFails, Exit, scanVars
  <2>. QED
    BY <1>1, <2>1 DEF CompleteInv
<1>6. CASE ScanEnded
  <2>1. /\ main' \in {"print", "error", "tuned"} /\ scan' = "idle"
        /\ UNCHANGED <<sent, garbled>>
    BY <1>6 DEF ScanEnded, ReportPids, Exit
  <2>. QED
    BY <1>1, <2>1
<1>7. CASE ScanFailed
  <2>1. scan = "failed" /\ main' = "error" /\ UNCHANGED <<scan, sent, garbled>>
    BY <1>7 DEF ScanFailed, Exit, scanVars
  <2>. QED
    BY <1>1, <2>1
<1>8. CASE PrintPids \/ Hold \/ Release
  <2>1. /\ main \in {"print", "tuned", "holding"} /\ main' \in {"ok", "error", "holding"}
        /\ UNCHANGED <<scan, sent, garbled>>
    BY <1>8 DEF PrintPids, Hold, Release, Exit, scanVars
  <2>. QED
    BY <1>1, <2>1 DEF CompleteInv
<1>9. CASE Scanning
  <2>1. main = "scan" /\ main' = "scan" /\ (ReadFilters \/ Environment)
    BY <1>9 DEF Scanning, tuneVars
  <2>2. scan = "scan" /\ UNCHANGED <<srv, timely>>
    BY <2>1
    DEF ReadFilters, Poll, NoEvent, ReadUnusable, ReadGarbled, ReadRepeated, ReadPat,
        TooManyFilters, ReadPmt, Reads, Turn, Environment, Transmit, Arrives, UpdatePat, Second
  <2>3. ASSUME timely, DistinctServices PROVE ScanState' \/ scan' = "failed"
    <3>1. InScan
      BY <2>1, <2>2, <2>3 DEF CompleteInv, InScan
    <3>. QED
      BY <2>1, <3>1, ScanningState
  <2>4. DistinctServices' <=> DistinctServices
    BY <2>2 DEF DistinctServices
  <2>. QED
    BY <2>1, <2>2, <2>3, <2>4 DEF CompleteInv
<1>10. CASE UNCHANGED vars
  <2>1. UNCHANGED <<main, scan, srv, services, filter, running, tp, patVersion, timely,
                    queue, sent, garbled>>
    BY <1>10 DEF vars, scanVars, tuneVars
  <2>2. ASSUME main = "scan", timely, DistinctServices, ScanState PROVE ScanState'
    <3>1. InScan
      BY <2>2 DEF InScan
    <3>. QED
      BY <2>1, <3>1, SameState
  <2>3. DistinctServices' <=> DistinctServices
    BY <2>1 DEF DistinctServices
  <2>. QED
    BY <2>1, <2>2, <2>3 DEF CompleteInv
<1>. QED
  BY <1>2, <1>3, <1>4, <1>5, <1>6, <1>7, <1>8, <1>9, <1>10 DEF Next, Main

(* At the end of the scan no filter is open: that of the PAT has named all *)
(* services that are wanted, and each of those is known.                   *)
LEMMA CompleteAtEnd ==
  CompleteInv /\ PidsInv /\ FilterListInv => ScanComplete
<1>. SUFFICES ASSUME CompleteInv, PidsInv, FilterListInv, scan = "scanned", timely,
                     DistinctServices, NEW k \in DOMAIN services, Own(services[k].service_id)
              PROVE  {services[k].teletext_pid} = TruePids(services[k].service_id)
  BY DEF ScanComplete
<1>1. main = "scan" /\ ScanState
  BY DEF CompleteInv
<1>2. k \in DOMAIN srv /\ services[k].service_id = srv[k].service_id
  BY <1>1 DEF FilterListInv, ScanInv
<1>3. k \in Wanted
  BY <1>2 DEF Wanted
<1>4. Range(running) = {}
  BY <1>1 DEF ScanState, Range
<1>5. InHand(filter, queue, {}, PrivateServices, KnownServices, patVersion, sent, garbled)
  BY <1>1, <1>4 DEF ScanState
<1>6. k \in KnownServices
  BY <1>3, <1>5 DEF InHand
<1>. QED
  BY <1>2, <1>6 DEF KnownServices

(* On a transponder that repeats its tables every second, a scan that ends *)
(* has found the teletext PID of every service that has a PMT of its own:  *)
(* for any list of services, any order of the sections, any number of      *)
(* changes of the PAT, and garbled sections for which a filter has time.   *)
THEOREM ServicesAreFound == Spec => []ScanComplete
<1>1. Init => CompleteInv
  BY DEF Init, CompleteInv
<1>. QED
  BY <1>1, CompleteStep, CompleteAtEnd, PidsInvariant, FiltersInvariant, SetupInvariant, PTL
  DEF Spec
=============================================================================
