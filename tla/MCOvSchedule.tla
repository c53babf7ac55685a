---------------------------- MODULE MCOvSchedule ----------------------------
(* Broadcast schedules of four programmes within three days, on two or     *)
(* three pages or sub-pages.                                               *)
EXTENDS OvSchedule

At(day, hour, min) == (day * 24 + hour) * 60 + min

\* Page 309 is followed by 310; sub-pages before or behind a single page
MCLayouts == {<< <<777, 0>>, <<784, 0>> >>,
            << <<768, 1>>, <<768, 2>>, <<769, 0>> >>,
            << <<768, 0>>, <<769, 1>>, <<769, 2>> >>}

Grid == {At(1, 7, 0), At(1, 20, 15), At(1, 22, 0)}
        \union {At(d, 0, 30) : d \in {1, 2, 3}}
        \union {At(2, 7, 0), At(2, 14, 0), At(2, 22, 0)}

MCSchedules ==
  {q \in [1 .. 4 -> Grid] : \A i \in 2 .. 4 : q[i - 1] < q[i]}

MCDates  == {"calendar", "broadcast", "once"}
MCExtras == {{}, {"repeated"}, {"ends"}, {"tips"}}
=============================================================================
