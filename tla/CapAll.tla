------------------------------- MODULE CapAll -------------------------------
(***************************************************************************)
(* capall.pl: captures all channels of a list, transponder by transponder, *)
(* with one tv_grab_ttx process per channel.  Each process writes to a     *)
(* temporary file, which replaces the XMLTV file of the channel if the     *)
(* process succeeded.                                                      *)
(*                                                                         *)
(* Abstracted: command lines, contents of the files (an XMLTV file is      *)
(* "complete" or "partial").  An interrupt (SIGINT) reaches the script and *)
(* all its processes.  For merge.pl, run at the end, see MergePl.           *)
(***************************************************************************)
EXTENDS Integers, Sequences, FiniteSets, SequencesExt

CONSTANTS
  Net,         \* the list of channels
  Channel,     \* the channels in channels.conf
  Transponder, \* Transponder[n]: where channel n is broadcast
  NoTtx,       \* channels without teletext
  Faults       \* what may go wrong: "signal" a process is killed, "tune" the
               \* second tune_dvb or "fork" a capture cannot be started,
               \* "wait" or "rename" fails

ASSUME CapAllAssumption ==
  /\ IsFiniteSet(Net)
  /\ Net \subseteq Channel /\ NoTtx \subseteq Channel
  /\ DOMAIN Transponder = Channel

Untuned == "untuned"

VARIABLES
  Nets,      \* channels that are not done yet
  pc,        \* place in the script
  lines,     \* channels tune_dvb has found and not printed yet
  tids,      \* channels to capture from the current transponder
  pids,      \* processes to wait for
  SigTmps,   \* temporary files the signal handler removes
  tuned,     \* transponder tune_dvb holds
  proc,      \* state of the process of each channel
  tmp,       \* its temporary file
  xml,       \* XMLTV file of each channel
  started,   \* history: channels for which a process was started,
  skipped,   \* those reported as "No teletext PID",
  dropped,   \* those whose tune_dvb could not be started,
  lost       \* and those whose output could not be moved, or its end was missed

script  == <<Nets, pc, lines, tids, pids, SigTmps, tuned>>
history == <<started, skipped, dropped, lost>>
vars    == <<Nets, pc, lines, tids, pids, SigTmps, tuned, proc, tmp, xml,
             started, skipped, dropped, lost>>

TypeOK ==
  /\ Range(Nets) \subseteq Net /\ Len(Nets) <= Cardinality(Net)
  /\ pc \in {"next", "match", "fork", "wait", "done", "interrupted", "died"}
  /\ lines \subseteq Channel
  /\ Range(tids) \subseteq Net /\ Range(pids) \subseteq Net /\ SigTmps \subseteq Net
  /\ proc \in [Net -> {"none", "start", "capture", "write", "ok", "error", "killed"}]
  /\ tmp \in [Net -> {"none", "empty", "partial", "complete"}]
  /\ xml \in [Net -> {"none", "empty", "partial", "complete"}]
  /\ started \subseteq Net /\ skipped \subseteq Net
  /\ dropped \subseteq Net /\ lost \subseteq Net

-----------------------------------------------------------------------------
(* The script                                                              *)

(* tune_dvb -P for the first channel of the list prints the channels of    *)
(* its transponder that have a teletext PID; the scan may miss some, and   *)
(* without a PID for the channel itself (no teletext, or tuning failed)    *)
(* nothing is printed.                                                     *)
Printed(n, found) ==
  \/ found = {}
  \/ /\ n \in found
     /\ found \subseteq {c \in Channel \ NoTtx : Transponder[c] = Transponder[n]}

(* The channels found are those of the list that are captured next.        *)
Query ==
  /\ pc = "next" /\ Nets # <<>>
  /\ \E found \in SUBSET Channel : Printed(Head(Nets), found) /\ lines' = found
  /\ pc' = "match" /\ tids' = <<>>
  /\ UNCHANGED <<Nets, pids, SigTmps, tuned, proc, tmp, xml, history>>

\* Mutant: after a match the next channel in the list is removed as well.
MatchLineSkipping(c) ==
  /\ pc = "match" /\ c \in lines
  /\ lines' = lines \ {c}
  /\ IF c \in Range(Nets)
     THEN LET idx == Min({i \in DOMAIN Nets : Nets[i] = c}) IN
          /\ tids' = Append(tids, c)
          /\ Nets' = SubSeq(Nets, 1, idx - 1) \o SubSeq(Nets, idx + 2, Len(Nets))
     ELSE UNCHANGED <<Nets, tids>>
  /\ UNCHANGED <<pc, pids, SigTmps, tuned, proc, tmp, xml, history>>

\* Mutant: channels are captured that are not in the list.
MatchLineAll(c) ==
  /\ pc = "match" /\ c \in lines
  /\ lines' = lines \ {c}
  /\ tids' = Append(tids, c)
  /\ Nets' = SelectSeq(Nets, LAMBDA n : n # c)
  /\ UNCHANGED <<pc, pids, SigTmps, tuned, proc, tmp, xml, history>>

(* A line with the name of a channel in the list takes it off the list.    *)
MatchLine(c) ==
  /\ pc = "match" /\ c \in lines
  /\ lines' = lines \ {c}
  /\ IF c \in Range(Nets)
     THEN LET idx == Min({i \in DOMAIN Nets : Nets[i] = c}) IN
          /\ tids' = Append(tids, c)
          /\ Nets' = RemoveAt(Nets, idx)
     ELSE UNCHANGED <<Nets, tids>>
  /\ UNCHANGED <<pc, pids, SigTmps, tuned, proc, tmp, xml, history>>

\* Mutant: the channel stays in the list.
NoPidKept ==
  /\ pc = "match" /\ lines = {} /\ tids = <<>>
  /\ pc' = "next"
  /\ skipped' = skipped \union {Head(Nets)}
  /\ UNCHANGED <<Nets, lines, tids, pids, SigTmps, tuned, proc, tmp, xml, started, dropped, lost>>

NoPid ==
  /\ pc = "match" /\ lines = {} /\ tids = <<>>
  /\ pc' = "next"
  /\ Nets' = Tail(Nets)
  /\ skipped' = skipped \union {Head(Nets)}
  /\ UNCHANGED <<lines, tids, pids, SigTmps, tuned, proc, tmp, xml, started, dropped, lost>>

(* The second tune_dvb holds the transponder until its input is closed.    *)
(* That it fails to tune goes unnoticed: the captures find nothing.        *)
Tune ==
  /\ pc = "match" /\ lines = {} /\ tids # <<>>
  /\ tuned' \in {Transponder[tids[1]], Untuned}
  /\ pc' = "fork" /\ pids' = <<>>
  /\ UNCHANGED <<Nets, lines, tids, SigTmps, proc, tmp, xml, history>>

(* It cannot be started: the loop goes on without the channels, which are  *)
(* off the list already.                                                   *)
TuneFails ==
  /\ pc = "match" /\ lines = {} /\ tids # <<>> /\ "tune" \in Faults
  /\ pc' = "next" /\ tids' = <<>>
  /\ dropped' = dropped \union Range(tids)
  /\ UNCHANGED <<Nets, lines, pids, SigTmps, tuned, proc, tmp, xml, started, skipped, lost>>

Fork ==
  /\ pc = "fork" /\ tids # <<>>
  /\ LET n == Head(tids) IN
     /\ SigTmps' = SigTmps \union {n}
     /\ proc' = [proc EXCEPT ![n] = "start"]
     /\ pids' = Append(pids, n)
     /\ started' = started \union {n}
  /\ tids' = Tail(tids)
  /\ UNCHANGED <<Nets, lines, pc, tuned, tmp, xml, skipped, dropped, lost>>

(* die: the captures that were started go on without script and tuner,     *)
(* and their files stay.                                                   *)
Die ==
  /\ pc = "fork" /\ tids # <<>> /\ "fork" \in Faults
  /\ pc' = "died" /\ tuned' = Untuned
  /\ UNCHANGED <<Nets, lines, tids, pids, SigTmps, proc, tmp, xml, history>>

Forked ==
  /\ pc = "fork" /\ tids = <<>>
  /\ pc' = "wait"
  /\ UNCHANGED <<Nets, lines, tids, pids, SigTmps, tuned, proc, tmp, xml, history>>

Ended(n) == proc[n] \in {"ok", "error", "killed"}

(* The script looks at $stat >> 8: this is the exit code, and 0 for a      *)
(* process that was killed by a signal.                                    *)
Succeeded(n) == proc[n] # "error"

\* Mutant: the output replaces the file whatever the exit code was.
ReplaceAny(n) ==
  /\ tmp[n] # "none"
  /\ xml' = [xml EXCEPT ![n] = tmp[n]]
  /\ tmp' = [tmp EXCEPT ![n] = "none"]
  /\ UNCHANGED lost

Replace(n) ==
  /\ Succeeded(n) /\ tmp[n] # "none"
  /\ xml' = [xml EXCEPT ![n] = tmp[n]]
  /\ tmp' = [tmp EXCEPT ![n] = "none"]
  /\ UNCHANGED lost

(* "missing output file": the process was killed before it opened it.      *)
Missing(n) ==
  /\ Succeeded(n) /\ tmp[n] = "none"
  /\ UNCHANGED <<tmp, xml, lost>>

\* Mutant: the temporary file of a failed process is left behind.
DiscardNothing(n) ==
  /\ ~Succeeded(n)
  /\ UNCHANGED <<tmp, xml, lost>>

Discard(n) ==
  /\ ~Succeeded(n)
  /\ tmp' = [tmp EXCEPT ![n] = "none"]
  /\ UNCHANGED <<xml, lost>>

(* rename() fails, or waitpid() returns something else: the temporary file *)
(* stays.                                                                  *)
Leave(n) ==
  /\ \/ "rename" \in Faults /\ Succeeded(n) /\ tmp[n] # "none"
     \/ "wait" \in Faults
  /\ lost' = lost \union {n}
  /\ UNCHANGED <<tmp, xml>>

Reap ==
  /\ pc = "wait" /\ pids # <<>> /\ Ended(Head(pids))
  /\ LET n == Head(pids) IN
     /\ Replace(n) \/ Missing(n) \/ Discard(n) \/ Leave(n)
     /\ proc' = [proc EXCEPT ![n] = "none"]
  /\ pids' = Tail(pids)
  /\ UNCHANGED <<Nets, lines, pc, tids, SigTmps, tuned, started, skipped, dropped>>

\* Mutant: the tuner is released after the first process.
ReleaseTunerEarly ==
  /\ pc = "wait" /\ \E n \in Net : Ended(n) \/ pids = <<>>
  /\ SigTmps' = {} /\ tuned' = Untuned
  /\ pc' = IF pids = <<>> THEN "next" ELSE pc
  /\ UNCHANGED <<Nets, lines, tids, pids, proc, tmp, xml, history>>

(* All processes are done: the tuner is free.                              *)
ReleaseTuner ==
  /\ pc = "wait" /\ pids = <<>>
  /\ SigTmps' = {} /\ tuned' = Untuned
  /\ pc' = "next"
  /\ UNCHANGED <<Nets, lines, tids, pids, proc, tmp, xml, history>>

Finish ==
  /\ pc = "next" /\ Nets = <<>>
  /\ pc' = "done"
  /\ UNCHANGED <<Nets, lines, tids, pids, SigTmps, tuned, proc, tmp, xml, history>>

(* sig_handler(): SIGINT also ends tune_dvb and the captures.              *)
Interrupt ==
  /\ pc \notin {"done", "interrupted", "died"}
  /\ pc' = "interrupted"
  /\ tmp' = [n \in Net |-> IF n \in SigTmps THEN "none" ELSE tmp[n]]
  /\ SigTmps' = {} /\ tuned' = Untuned
  /\ proc' = [n \in Net |-> IF proc[n] = "none" THEN "none" ELSE "killed"]
  /\ UNCHANGED <<Nets, lines, tids, pids, xml, history>>

-----------------------------------------------------------------------------
(* tv_grab_ttx, as far as the script sees it                               *)

(* The child opens its output file and executes tv_grab_ttx, or ends with  *)
(* an error.                                                               *)
Exec(n) ==
  /\ proc[n] = "start"
  /\ \/ /\ proc' = [proc EXCEPT ![n] = "capture"]
        /\ tmp' = [tmp EXCEPT ![n] = "empty"]
     \/ /\ proc' = [proc EXCEPT ![n] = "error"]
        /\ UNCHANGED tmp
  /\ UNCHANGED <<script, xml, history>>

(* The capture ends; without any programmes the exit code is 100 and       *)
(* nothing is written.  (When the script has died there may be some from   *)
(* before.)                                                                *)
EndCapture(n) ==
  /\ proc[n] = "capture"
  /\ \/ /\ tuned = Transponder[n] \/ pc = "died"
        /\ proc' = [proc EXCEPT ![n] = "write"]
        /\ tmp' = [tmp EXCEPT ![n] = "partial"]
     \/ /\ proc' = [proc EXCEPT ![n] = "error"]
        /\ UNCHANGED tmp
  /\ UNCHANGED <<script, xml, history>>

EndWrite(n) ==
  /\ proc[n] = "write"
  /\ proc' = [proc EXCEPT ![n] = "ok"]
  /\ tmp' = [tmp EXCEPT ![n] = "complete"]
  /\ UNCHANGED <<script, xml, history>>

(* A failed assertion, for instance, or the user kills the process.        *)
Crash(n) ==
  /\ "signal" \in Faults
  /\ proc[n] \in {"start", "capture", "write"}
  /\ proc' = [proc EXCEPT ![n] = "killed"]
  /\ UNCHANGED <<script, tmp, xml, history>>

Init ==
  /\ Nets \in SetToSeqs(Net)
  /\ pc = "next"
  /\ lines = {} /\ tids = <<>> /\ pids = <<>> /\ SigTmps = {} /\ tuned = Untuned
  /\ proc = [n \in Net |-> "none"]
  /\ tmp = [n \in Net |-> "none"]
  /\ xml \in [Net -> {"none", "complete"}]
  /\ started = {} /\ skipped = {} /\ dropped = {} /\ lost = {}

Script ==
  \/ Query \/ (\E c \in Channel : MatchLine(c))
  \/ NoPid \/ Tune \/ TuneFails \/ Fork \/ Die \/ Forked
  \/ Reap \/ ReleaseTuner \/ Finish

Grabber(n) == Exec(n) \/ EndCapture(n) \/ EndWrite(n)

Next ==
  \/ Script
  \/ Interrupt
  \/ \E n \in Net : Grabber(n) \/ Crash(n)

Spec == Init /\ [][Next]_vars

(* Processes run; a capture ends after the time given by -duration.        *)
FairSpec == Spec /\ WF_vars(Script) /\ \A n \in Net : WF_vars(Grabber(n))

-----------------------------------------------------------------------------
(* Properties                                                              *)

(* "discard output if not zero": an XMLTV file is never replaced by one    *)
(* that is not complete, and is never lost.                                *)
FilesComplete ==
  [][\A n \in Net : xml'[n] # xml[n] => xml'[n] = "complete"]_vars

(* The same for all processes that exit on their own: what was captured    *)
(* before stays when a process fails, and no file is replaced while its    *)
(* process still writes.                                                   *)
FilesKept ==
  [][\A n \in Net : xml'[n] # xml[n] =>
       xml'[n] = "complete" \/ proc[n] = "killed"]_vars

(* The tuner is not moved on while a process captures, unless the script   *)
(* dies.                                                                   *)
TunerHeld ==
  [][\A n \in Net : proc[n] = "capture" /\ proc'[n] = "capture"
       => tuned' = tuned \/ pc' = "died"]_vars

(* When the script has finished, every channel had its turn, in whatever   *)
(* order the list and tune_dvb name them: it was captured, reported as     *)
(* without PID or given up with its transponder; none had two turns, and   *)
(* no process is left.                                                     *)
AllServed ==
  /\ pc = "done" => /\ started \union skipped \union dropped = Net
                    /\ \A n \in Net : proc[n] = "none"
  /\ (started \union skipped \union dropped) \intersect (Range(Nets) \union Range(tids)) = {}
  /\ started \intersect skipped = {}
  /\ dropped \intersect (started \union skipped) = {}

(* "The script will tune all the channels given in the list", and a        *)
(* failure is "printed by sub-command".                                    *)
NoneDropped ==
  pc = "done" => started \union skipped = Net

(* No temporary file is left behind when the script ends or is             *)
(* interrupted, but those that it could not move or whose process it did   *)
(* not see end.                                                            *)
NoTmpLeft ==
  pc \in {"done", "interrupted"} => \A n \in Net \ lost : tmp[n] = "none"

(* The script ends: every turn takes a channel off the list, and no        *)
(* process is waited for that does not end.                                *)
Finishes == <>(pc \in {"done", "interrupted", "died"})
=============================================================================
