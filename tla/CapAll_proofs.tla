---------------------------- MODULE CapAll_proofs ----------------------------
(* Proofs about capall.pl: for any list of channels, any channels found on *)
(* a transponder, any of the faults of CapAll, and an interrupt at any     *)
(* time.                                                                   *)
EXTENDS CapAll, SequenceLemmas

ProcessesOk ==
  /\ proc \in [Net -> {"none", "start", "capture", "write", "ok", "error", "killed"}]
  /\ DOMAIN tmp = Net
  /\ DOMAIN xml = Net
  /\ \A n \in Net : proc[n] = "ok" => tmp[n] = "complete"
  /\ \A n \in Net : tmp[n] # "none" => proc[n] # "none" \/ n \in lost

(* Who knows of the processes: between two transponders there are none; a  *)
(* process that was started is waited for, and the signal handler knows    *)
(* its file; after an interrupt all are dead.  When the script has died    *)
(* nobody knows of them.                                                   *)
ProcessesKnown ==
  /\ pc \in {"next", "match", "done"} => \A n \in Net : proc[n] = "none"
  /\ pc \in {"fork", "wait"} =>
       \A n \in Net : proc[n] # "none" => n \in Range(pids) /\ n \in SigTmps
  /\ pc = "interrupted" =>
       \A n \in Net : /\ proc[n] \in {"none", "killed"}
                      /\ tmp[n] = "none" \/ n \in lost

(* None of the three properties is inductive: each depends on what the     *)
(* script knows of the processes at that point.                            *)
CapInv ==
  /\ pc \in {"next", "match", "fork", "wait", "done", "interrupted", "died"}
  /\ IsSequence(pids)
  /\ ProcessesOk
  /\ ProcessesKnown

LEMMA CapInit == Init => CapInv
<1>1. <<>> \in Seq({})
  BY EmptySeq
<1>. QED
  BY <1>1 DEF Init, CapInv, IsSequence, ProcessesOk, ProcessesKnown

LEMMA CapStep == CapInv /\ [Next]_vars => CapInv'
<1>. SUFFICES ASSUME CapInv, [Next]_vars PROVE CapInv'
  OBVIOUS
<1>0. IsSequence(pids) /\ ProcessesOk /\ ProcessesKnown
  BY DEF CapInv
<1>1. ASSUME pc' \in {"next", "match", "done"}, pc \in {"next", "match", "done"},
             UNCHANGED <<pids, proc, tmp, xml, lost>>
      PROVE  CapInv'
  BY <1>0, <1>1 DEF CapInv, ProcessesOk, ProcessesKnown
<1>2. CASE Query
  BY <1>1, <1>2 DEF Query, history
<1>13. ASSUME NEW c \in Channel, MatchLine(c) PROVE CapInv'
  BY <1>1, <1>13 DEF MatchLine, history
<1>3. CASE NoPid \/ TuneFails
  BY <1>1, <1>3 DEF NoPid, TuneFails
<1>4. CASE Finish
  BY <1>1, <1>4 DEF Finish, history
<1>5. CASE Tune
  <2>1. IsSequence(pids')
    BY <1>5, EmptySeq DEF Tune, IsSequence
  <2>. QED
    BY <1>0, <1>5, <2>1 DEF Tune, history, CapInv, ProcessesOk, ProcessesKnown
<1>6. CASE Fork
  <2>. DEFINE n == Head(tids)
  <2>1. /\ pc = "fork" /\ pc' = pc /\ xml' = xml /\ tmp' = tmp /\ lost' = lost
        /\ SigTmps' = SigTmps \union {n}
        /\ proc' = [proc EXCEPT ![n] = "start"]
        /\ pids' = Append(pids, n)
    BY <1>6 DEF Fork
  <2>. HIDE DEF n
  <2>2. IsSequence(pids') /\ Range(pids') = Range(pids) \union {n}
    BY <1>0, <2>1, SequenceAppend
  <2>3. ProcessesOk'
    BY <1>0, <2>1 DEF ProcessesOk
  <2>4. ProcessesKnown'
    BY <1>0, <2>1, <2>2 DEF ProcessesOk, ProcessesKnown
  <2>. QED
    BY <2>1, <2>2, <2>3, <2>4 DEF CapInv
<1>7. CASE Forked \/ Die
  BY <1>0, <1>7 DEF Forked, Die, history, CapInv, ProcessesOk, ProcessesKnown
<1>8. CASE Reap
  <2>. DEFINE n == Head(pids)
  <2>1. /\ pc = "wait" /\ pc' = pc /\ pids # <<>> /\ SigTmps' = SigTmps
        /\ xml' = xml \/ xml' = [xml EXCEPT ![n] = tmp[n]]
        /\ proc' = [proc EXCEPT ![n] = "none"]
        /\ pids' = Tail(pids)
        /\ \/ tmp' = [tmp EXCEPT ![n] = "none"] /\ lost' = lost
           \/ tmp' = tmp /\ tmp[n] = "none" /\ lost' = lost
           \/ tmp' = tmp /\ lost' = lost \union {n}
    BY <1>8 DEF Reap, Replace, Missing, Discard, Leave
  <2>. HIDE DEF n
  <2>2. IsSequence(pids') /\ Range(pids) \subseteq Range(pids') \union {n}
    BY <1>0, <2>1, SequenceTail DEF n
  <2>3. ProcessesOk'
    BY <1>0, <2>1 DEF ProcessesOk
  <2>4. ProcessesKnown'
    BY <1>0, <2>1, <2>2 DEF ProcessesOk, ProcessesKnown
  <2>. QED
    BY <2>1, <2>2, <2>3, <2>4 DEF CapInv
<1>9. CASE ReleaseTuner
  <2>1. Range(pids) = {}
    BY <1>9 DEF ReleaseTuner, Range
  <2>. QED
    BY <1>0, <1>9, <2>1 DEF ReleaseTuner, history, CapInv, ProcessesOk, ProcessesKnown
<1>10. CASE Interrupt
  <2>1. ProcessesOk'
    BY <1>0, <1>10 DEF Interrupt, history, ProcessesOk
  <2>2. ProcessesKnown'
    BY <1>0, <1>10 DEF Interrupt, history, CapInv, ProcessesOk, ProcessesKnown
  <2>. QED
    BY <1>0, <1>10, <2>1, <2>2 DEF Interrupt, CapInv
<1>11. ASSUME NEW n \in Net, Grabber(n) \/ Crash(n) PROVE CapInv'
  <2>1. UNCHANGED <<pc, pids, SigTmps, xml, lost>>
    BY <1>11 DEF Grabber, Exec, EndCapture, EndWrite, Crash, script, history
  <2>2. ProcessesOk'
    BY <1>0, <1>11, <2>1 DEF Grabber, Exec, EndCapture, EndWrite, Crash, ProcessesOk
  <2>3. ProcessesKnown'
    BY <1>0, <1>11, <2>1 DEF Grabber, Exec, EndCapture, EndWrite, Crash, ProcessesOk, ProcessesKnown
  <2>. QED
    BY <1>0, <2>1, <2>2, <2>3 DEF CapInv
<1>12. CASE UNCHANGED vars
  BY <1>0, <1>12 DEF vars, CapInv, ProcessesOk, ProcessesKnown
<1>. QED
  BY <1>2, <1>3, <1>4, <1>5, <1>6, <1>7, <1>8, <1>9, <1>10, <1>11, <1>12, <1>13 DEF Next, Script

LEMMA CapInvariant == Spec => []CapInv
BY CapInit, CapStep, PTL DEF Spec

(* No temporary file survives the script, whether it ends by itself or is  *)
(* interrupted at any point, and whatever became of the processes, but for *)
(* those that rename() could not move or whose end waitpid() missed.  (It  *)
(* says nothing of a script that dies for want of a process.)              *)
THEOREM TmpFilesRemoved == Spec => []NoTmpLeft
<1>1. CapInv => NoTmpLeft
  BY DEF CapInv, ProcessesOk, ProcessesKnown, NoTmpLeft
<1>. QED
  BY <1>1, CapInvariant, PTL

(* An XMLTV file is replaced only by the complete output of a process that *)
(* ended by itself, or by what a killed process left.                      *)
THEOREM OldFilesKept == Spec => FilesKept
<1>1. CapInv /\ [Next]_vars =>
        [\A n \in Net : xml'[n] # xml[n] => xml'[n] = "complete" \/ proc[n] = "killed"]_vars
  <2>. SUFFICES ASSUME CapInv, Next, NEW n \in Net, xml'[n] # xml[n]
                PROVE  xml'[n] = "complete" \/ proc[n] = "killed"
    OBVIOUS
  <2>1. Reap
    BY DEF Next, Script, Query, MatchLine, NoPid, Tune, TuneFails, Fork, Die, Forked,
           ReleaseTuner, Finish, Interrupt, Grabber, Exec, EndCapture, EndWrite, Crash
  <2>2. Replace(Head(pids)) /\ Ended(Head(pids))
    BY <2>1 DEF Reap, Missing, Discard, Leave
  <2>3. n = Head(pids) /\ xml'[n] = tmp[n]
    BY <2>2 DEF Replace, CapInv, ProcessesOk
  <2>. QED
    BY <2>2, <2>3 DEF Replace, Succeeded, Ended, CapInv, ProcessesOk
<1>. QED
  BY <1>1, CapInvariant, PTL DEF Spec, FilesKept

(* The tuner stays where it is until all processes of the transponder have *)
(* ended or are killed by an interrupt, unless the script dies.            *)
THEOREM TunerIsHeld == Spec => TunerHeld
<1>1. CapInv /\ [Next]_vars =>
        [\A n \in Net : proc[n] = "capture" /\ proc'[n] = "capture"
           => tuned' = tuned \/ pc' = "died"]_vars
  <2>. SUFFICES ASSUME CapInv, Next, NEW n \in Net,
                       proc[n] = "capture", proc'[n] = "capture"
                PROVE  tuned' = tuned \/ pc' = "died"
    OBVIOUS
  <2>1. ~Tune
    BY DEF Tune, CapInv, ProcessesKnown
  <2>2. ~ReleaseTuner
    BY DEF ReleaseTuner, CapInv, ProcessesKnown, Range
  <2>3. ~Interrupt
    BY DEF Interrupt
  <2>. QED
    BY <2>1, <2>2, <2>3
    DEF Next, Script, Query, MatchLine, NoPid, TuneFails, Fork, Die, Forked, Reap, Finish,
        Grabber, Exec, EndCapture, EndWrite, Crash, script
<1>. QED
  BY <1>1, CapInvariant, PTL DEF Spec, TunerHeld

-----------------------------------------------------------------------------
(* Every channel has one turn                                              *)

(* Where a channel is: in the list, among those of the transponder,        *)
(* started, reported or dropped, in one of the five only, and once.  A     *)
(* turn ends only when all channels found were started or dropped, and the *)
(* channel that was asked for is still the first of the list when none was *)
(* found.                                                                  *)
TurnsOk ==
  /\ Nets \in Seq(Net) /\ NoRepeat(Nets)
  /\ tids \in Seq(Net) /\ NoRepeat(tids)
  /\ Net = Range(Nets) \union Range(tids) \union started \union skipped \union dropped
  /\ Range(Nets) \intersect Range(tids) = {}
  /\ (started \union skipped \union dropped) \intersect (Range(Nets) \union Range(tids)) = {}
  /\ started \intersect skipped = {}
  /\ dropped \intersect (started \union skipped) = {}
  /\ pc \in {"next", "wait", "done"} => tids = <<>>
  /\ pc = "match" /\ tids = <<>> => Nets # <<>>
  /\ pc = "done" => Nets = <<>>

LEMMA TurnsInit == Init => TurnsOk
<1>. SUFFICES ASSUME Init PROVE TurnsOk
  OBVIOUS
<1>1. /\ pc = "next" /\ tids = <<>> /\ started = {} /\ skipped = {} /\ dropped = {}
      /\ Nets \in SetToSeqs(Net)
  BY DEF Init
<1>2. IsFiniteSet(Net) /\ Cardinality(Net) \in Nat
  BY CapAllAssumption, FS_CardinalityType
<1>3. /\ Nets \in [1 .. Cardinality(Net) -> Net]
      /\ \A i, j \in 1 .. Cardinality(Net) : i # j => Nets[i] # Nets[j]
  BY <1>1 DEF SetToSeqs
<1>4. Nets \in Seq(Net) /\ Len(Nets) = Cardinality(Net)
  BY <1>2, <1>3, SeqDef, LenProperties
<1>5. NoRepeat(Nets)
  BY <1>3, <1>4 DEF NoRepeat
<1>6. Range(Nets) = Net
  <2>1. 1 \in Int /\ Cardinality(Net) \in Int /\ Cardinality(Net) >= 0
    BY <1>2
  <2>2. /\ IsFiniteSet(1 .. Cardinality(Net))
        /\ Cardinality(1 .. Cardinality(Net)) = Cardinality(Net)
    BY <1>2, <2>1, FS_Interval
  <2>3. Nets \in Injection(1 .. Cardinality(Net), Net)
    BY <1>3 DEF Injection, IsInjective
  <2>4. Nets \in Surjection(1 .. Cardinality(Net), Net)
    BY <1>2, <2>2, <2>3, FS_Injection
  <2>. QED
    BY <1>3, <2>4 DEF Surjection, Range
<1>7. tids \in Seq(Net) /\ NoRepeat(tids) /\ Range(tids) = {}
  BY <1>1 DEF NoRepeat, Range
<1>. QED
  BY <1>1, <1>4, <1>5, <1>6, <1>7 DEF TurnsOk

LEMMA TurnsStep == TurnsOk /\ [Next]_vars => TurnsOk'
<1>. SUFFICES ASSUME TurnsOk, [Next]_vars PROVE TurnsOk'
  OBVIOUS
<1>0. /\ Nets \in Seq(Net) /\ NoRepeat(Nets)
      /\ tids \in Seq(Net) /\ NoRepeat(tids)
  BY DEF TurnsOk
<1>1. ASSUME UNCHANGED <<Nets, tids, started, skipped, dropped>>,
             pc' \in {"next", "wait"} => tids = <<>>,
             pc' = "match" => pc = "match",
             pc' = "done" => tids = <<>> /\ Nets = <<>>
      PROVE  TurnsOk'
  BY <1>1 DEF TurnsOk
<1>2. CASE Query
  <2>1. pc = "next" /\ tids = <<>> /\ tids' = tids /\ Nets # <<>>
    BY <1>2 DEF Query, TurnsOk
  <2>. QED
    BY <1>2, <2>1 DEF Query, history, TurnsOk
<1>3. ASSUME NEW c \in Channel, MatchLine(c) PROVE TurnsOk'
  <2>1. CASE c \notin Range(Nets)
    BY <1>1, <1>3, <2>1 DEF MatchLine, history, TurnsOk
  <2>2. CASE c \in Range(Nets)
    <3>. DEFINE S == {i \in DOMAIN Nets : Nets[i] = c}
                idx == Min(S)
    <3>1. Nets' = RemoveAt(Nets, idx) /\ tids' = Append(tids, c)
      BY <1>3, <2>2 DEF MatchLine
    <3>2. pc = "match" /\ pc' = pc /\ UNCHANGED <<started, skipped, dropped>>
      BY <1>3 DEF MatchLine, history
    <3>3. Len(Nets) \in Nat /\ DOMAIN Nets = 1 .. Len(Nets)
      BY <1>0, LenProperties
    <3>4. S \in SUBSET Nat /\ S # {}
      BY <2>2, <3>3 DEF Range
    <3>5. idx \in S
      BY <3>4, LeastInSet
    <3>6. idx \in 1 .. Len(Nets) /\ Nets[idx] = c
      BY <3>3, <3>5
    <3>. HIDE DEF S, idx
    <3>7. /\ Nets' \in Seq(Net) /\ NoRepeat(Nets')
          /\ Range(Nets') = Range(Nets) \ {c}
      BY <1>0, <3>1, <3>6, NoRepeatRemoved
    <3>8. c \in Net /\ c \notin Range(tids)
      BY <2>2 DEF TurnsOk
    <3>9. tids' \in Seq(Net) /\ NoRepeat(tids')
      BY <1>0, <3>1, <3>8, NoRepeatAppend
    <3>10. Range(tids') = Range(tids) \union {c}
      BY <1>0, <3>1, SequenceAppend DEF IsSequence
    <3>11. tids' # <<>>
      BY <3>10, EmptySeq DEF Range
    <3>. QED
      BY <2>2, <3>2, <3>7, <3>9, <3>10, <3>11 DEF TurnsOk
  <2>. QED
    BY <2>1, <2>2
<1>4. CASE NoPid
  <2>1. /\ pc = "match" /\ tids = <<>> /\ pc' = "next"
        /\ Nets' = Tail(Nets) /\ tids' = tids /\ UNCHANGED <<started, dropped>>
        /\ skipped' = skipped \union {Head(Nets)}
    BY <1>4 DEF NoPid
  <2>2. Nets # <<>>
    BY <2>1 DEF TurnsOk
  <2>3. /\ Nets' \in Seq(Net) /\ NoRepeat(Nets')
        /\ Range(Nets') = Range(Nets) \ {Head(Nets)} /\ Head(Nets) \in Range(Nets)
    BY <1>0, <2>1, <2>2, NoRepeatTail
  <2>. QED
    BY <2>1, <2>3 DEF TurnsOk
<1>5. CASE Fork
  <2>1. /\ pc = "fork" /\ pc' = pc /\ tids # <<>>
        /\ tids' = Tail(tids) /\ Nets' = Nets /\ UNCHANGED <<skipped, dropped>>
        /\ started' = started \union {Head(tids)}
    BY <1>5 DEF Fork
  <2>2. /\ tids' \in Seq(Net) /\ NoRepeat(tids')
        /\ Range(tids') = Range(tids) \ {Head(tids)} /\ Head(tids) \in Range(tids)
    BY <1>0, <2>1, NoRepeatTail
  <2>. QED
    BY <2>1, <2>2 DEF TurnsOk
<1>6. CASE Tune \/ Die \/ Forked \/ Finish
  BY <1>1, <1>6 DEF Tune, Die, Forked, Finish, history, TurnsOk
<1>7. CASE Reap \/ ReleaseTuner
  BY <1>1, <1>7 DEF Reap, ReleaseTuner, history, TurnsOk
<1>8. CASE Interrupt
  BY <1>1, <1>8 DEF Interrupt, history
<1>11. CASE TuneFails
  <2>1. /\ pc' = "next" /\ tids' = <<>> /\ UNCHANGED <<Nets, started, skipped>>
        /\ dropped' = dropped \union Range(tids)
    BY <1>11 DEF TuneFails
  <2>2. tids' \in Seq(Net) /\ NoRepeat(tids') /\ Range(tids') = {}
    BY <2>1 DEF NoRepeat, Range
  <2>. QED
    BY <2>1, <2>2 DEF TurnsOk
<1>9. ASSUME NEW n \in Net, Grabber(n) \/ Crash(n) PROVE TurnsOk'
  BY <1>1, <1>9 DEF Grabber, Exec, EndCapture, EndWrite, Crash, script, history, TurnsOk
<1>10. CASE UNCHANGED vars
  BY <1>1, <1>10 DEF vars, TurnsOk
<1>. QED
  BY <1>2, <1>3, <1>4, <1>5, <1>6, <1>7, <1>8, <1>9, <1>10, <1>11 DEF Next, Script

(* What is in the variables that the other invariants do not speak of.     *)
FilesTyped ==
  /\ lines \subseteq Channel
  /\ pids \in Seq(Net) /\ SigTmps \subseteq Net /\ lost \subseteq Net
  /\ tmp \in [Net -> {"none", "empty", "partial", "complete"}]
  /\ xml \in [Net -> {"none", "empty", "partial", "complete"}]

LEMMA FilesTypedStep == FilesTyped /\ TurnsOk /\ [Next]_vars => FilesTyped'
<1>. SUFFICES ASSUME FilesTyped, TurnsOk, [Next]_vars PROVE FilesTyped'
  OBVIOUS
<1>1. ASSUME UNCHANGED <<pids, SigTmps, tmp, xml, lost>>, lines' \subseteq Channel
      PROVE  FilesTyped'
  BY <1>1 DEF FilesTyped
<1>2. CASE Query
  BY <1>1, <1>2 DEF Query, history
<1>3. ASSUME NEW c \in Channel, MatchLine(c) PROVE FilesTyped'
  BY <1>1, <1>3 DEF MatchLine, history, FilesTyped
<1>4. CASE NoPid \/ TuneFails \/ Die \/ Forked \/ Finish
  BY <1>1, <1>4 DEF NoPid, TuneFails, Die, Forked, Finish, history, FilesTyped
<1>5. CASE Tune
  <2>1. pids' \in Seq(Net)
    BY <1>5 DEF Tune
  <2>. QED
    BY <1>5, <2>1 DEF Tune, history, FilesTyped
<1>6. CASE Fork
  <2>1. Head(tids) \in Net
    BY <1>6, NoRepeatTail DEF Fork, TurnsOk
  <2>2. pids' \in Seq(Net)
    BY <1>6, <2>1 DEF Fork, FilesTyped
  <2>. QED
    BY <1>6, <2>1, <2>2 DEF Fork, FilesTyped
<1>7. CASE Reap
  <2>1. pids' \in Seq(Net) /\ Head(pids) \in Net
    BY <1>7, HeadTailProperties DEF Reap, FilesTyped
  <2>2. tmp[Head(pids)] \in {"none", "empty", "partial", "complete"}
    BY <2>1 DEF FilesTyped
  <2>3. /\ lines' = lines /\ SigTmps' = SigTmps
        /\ xml' = xml \/ xml' = [xml EXCEPT ![Head(pids)] = tmp[Head(pids)]]
        /\ tmp' = tmp \/ tmp' = [tmp EXCEPT ![Head(pids)] = "none"]
        /\ lost' = lost \/ lost' = lost \union {Head(pids)}
    BY <1>7 DEF Reap, Replace, Missing, Discard, Leave
  <2>. QED
    BY <2>1, <2>2, <2>3 DEF FilesTyped
<1>8. CASE ReleaseTuner
  BY <1>8 DEF ReleaseTuner, history, FilesTyped
<1>9. CASE Interrupt
  BY <1>9 DEF Interrupt, history, FilesTyped
<1>10. ASSUME NEW n \in Net, Grabber(n) \/ Crash(n) PROVE FilesTyped'
  BY <1>10 DEF Grabber, Exec, EndCapture, EndWrite, Crash, script, history, FilesTyped
<1>11. CASE UNCHANGED vars
  BY <1>1, <1>11 DEF vars, FilesTyped
<1>. QED
  BY <1>2, <1>3, <1>4, <1>5, <1>6, <1>7, <1>8, <1>9, <1>10, <1>11 DEF Next, Script

LEMMA TurnsInvariant == Spec => [](TurnsOk /\ FilesTyped)
<1>1. Init => FilesTyped
  <2>1. <<>> \in Seq(Net)
    OBVIOUS
  <2>. QED
    BY <2>1 DEF Init, FilesTyped
<1>. QED
  BY <1>1, TurnsInit, TurnsStep, FilesTypedStep, PTL DEF Spec

(* The script never has a channel that is not in its list, or one twice.   *)
THEOREM ScriptTypes == Spec => []TypeOK
<1>1. CapInv /\ TurnsOk /\ FilesTyped => TypeOK
  <2>. SUFFICES ASSUME CapInv, TurnsOk, FilesTyped PROVE TypeOK
    OBVIOUS
  <2>1. Len(Nets) <= Cardinality(Net)
    BY CapAllAssumption, NoRepeatLength DEF TurnsOk
  <2>2. Range(pids) \subseteq Net
    BY LenProperties DEF FilesTyped, Range
  <2>. QED
    BY <2>1, <2>2 DEF CapInv, ProcessesOk, TurnsOk, FilesTyped, TypeOK
<1>. QED
  BY <1>1, CapInvariant, TurnsInvariant, PTL

(* In whatever order the list names the channels and tune_dvb prints them, *)
(* and whichever it misses, each has exactly one turn: it is captured,     *)
(* reported, or given up when tune_dvb cannot be started.                  *)
THEOREM EveryChannelServed == Spec => []AllServed
<1>1. CapInv /\ TurnsOk => AllServed
  <2>. SUFFICES ASSUME CapInv, TurnsOk PROVE AllServed
    OBVIOUS
  <2>1. ASSUME pc = "done" PROVE Range(Nets) = {} /\ Range(tids) = {}
    BY <2>1 DEF TurnsOk, Range
  <2>. QED
    BY <2>1 DEF CapInv, ProcessesKnown, TurnsOk, AllServed
<1>. QED
  BY <1>1, CapInvariant, TurnsInvariant, PTL

(* If tune_dvb can always be started, every channel is captured or         *)
(* reported.                                                               *)
THEOREM EveryChannelCaptured == "tune" \notin Faults /\ Spec => []NoneDropped
<1>1. ASSUME "tune" \notin Faults PROVE dropped = {} /\ [Next]_vars => dropped' = {}
  BY <1>1
  DEF Next, Script, vars, Query, MatchLine, NoPid, Tune, TuneFails, Fork, Die, Forked, Reap,
      ReleaseTuner, Finish, Interrupt, Grabber, Exec, EndCapture, EndWrite, Crash, history
<1>2. Init => dropped = {}
  BY DEF Init
<1>3. AllServed /\ dropped = {} => NoneDropped
  BY DEF AllServed, NoneDropped
<1>4. CASE "tune" \notin Faults
  <2>1. dropped = {} /\ [Next]_vars => (dropped = {})'
    BY <1>1, <1>4
  <2>. QED
    BY <1>2, <1>3, <2>1, EveryChannelServed, PTL DEF Spec
<1>5. CASE "tune" \in Faults
  BY <1>5
<1>. QED
  BY <1>4, <1>5
=============================================================================
