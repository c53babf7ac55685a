------------------------------ MODULE XmltvFile ------------------------------
(***************************************************************************)
(* What keeping an XMLTV file up to date means, said of sets: one step     *)
(* replaces the programmes of a channel by those of a captured schedule,   *)
(* keeps what the schedule leaves room for and the other channels, and     *)
(* forgets what is old.  Times are those read from the file, and it keeps  *)
(* one of the programmes that are read with the same start.  No lists, no  *)
(* order of output.                                                        *)
(***************************************************************************)
EXTENDS XmltvProg

VARIABLES
  chn,    \* channels declared in the file
  prog,   \* programmes in the file
  now     \* the clock

(* Old programmes of the same start add their text to a new slot; any that *)
(* share time with it are replaced.                                        *)
Merged(x, had) ==
  LET same == {p \in had : p.start = x.start}
  IN IF same = {} THEN x ELSE MergeSlotDesc(x, CHOOSE p \in same : TRUE)

Overlap(x, p) == p.start < EndOf(x) /\ (OldEnd(p) > x.start \/ p.start >= x.start)

Update(c, slots) ==
  \E kept \in Readings(prog, now) :
    LET had == {p \in kept : p.ch = c}
        new == Current(slots, now)
    IN /\ new # <<>>
       /\ prog' = {Exported(Merged(new[i], had), c) : i \in DOMAIN new}
            \union {p.xml : p \in {q \in had : \A i \in DOMAIN new : ~Overlap(new[i], q)}}
            \union {p.xml : p \in kept \ had}
       /\ chn' = {c} \union {p.ch : p \in kept}
       /\ UNCHANGED now

Wait == now' \in Clock /\ now' > now /\ UNCHANGED <<chn, prog>>

Init == chn = {} /\ prog = {} /\ now = 0

Next == (\E c \in Channel : \E s \in Captures[c] : Update(c, s)) \/ Wait

Spec == Init /\ [][Next]_<<chn, prog, now>>
=============================================================================
