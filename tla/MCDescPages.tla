---------------------------- MODULE MCDescPages ----------------------------
(* Evenings of three programmes around the end of a year of ten days: the  *)
(* third one is broadcast after midnight, or the next day at the time of   *)
(* the first.                                                              *)
EXTENDS DescPages

At(day, hour, min) == (day * 24 + hour) * 60 + min

MCSchedules == {<<At(8, 20, 15), At(8, 22, 0), At(9, 0, 30)>>,
                <<At(9, 20, 15), At(10, 0, 30), At(10, 20, 15)>>,
                <<At(8, 0, 30), At(9, 0, 30), At(9, 2, 0)>>}
MCCaptures  == {At(7, 12, 0), At(9, 0, 10)}

\* The second page is only referred to behind the first
MCRefs == {r \in [1 .. 3 -> {NoPage, 832, 833}] :
             \A i \in 1 .. 3 : r[i] = 833 => \E j \in 1 .. i - 1 : r[j] = 832}
MCLost == {<<>>, <<832, 0>>, <<832, 1>>, <<832, 2>>}

Look == [date |-> "full", day |-> "calendar", ad |-> "none", vps |-> {}, noise |-> 0,
         below |-> FALSE, number |-> FALSE]
MCLooks ==
  {Look, [Look EXCEPT !.day = "broadcast", !.vps = {1, 3}, !.noise = 1, !.number = TRUE],
   [Look EXCEPT !.date = "noyear", !.ad = "above", !.below = TRUE, !.number = TRUE],
   [Look EXCEPT !.date = "hours", !.ad = "below", !.vps = {1, 2, 3}, !.noise = 1],
   [Look EXCEPT !.date = "weekday", !.day = "broadcast", !.ad = "below"],
   [Look EXCEPT !.date = "relative", !.ad = "above"]}

Style == [kind |-> "line", day |-> "calendar", skew |-> 0, parts |-> 1, dated |-> TRUE,
          teaser |-> FALSE, repeat |-> FALSE, marks |-> FALSE]
TeaserBelow == [Style EXCEPT !.kind = "noyear", !.teaser = TRUE]
MCStyles ==
  {TeaserBelow,
   [Style EXCEPT !.teaser = TRUE, !.parts = 2],
   [Style EXCEPT !.kind = "weekday", !.day = "broadcast", !.teaser = TRUE, !.marks = TRUE],
   [Style EXCEPT !.kind = "noyear", !.skew = 2, !.parts = 2, !.dated = FALSE, !.marks = TRUE],
   [Style EXCEPT !.kind = "trailing", !.parts = 2, !.repeat = TRUE],
   [Style EXCEPT !.kind = "vps", !.day = "broadcast", !.repeat = TRUE, !.skew = 4]}
=============================================================================
