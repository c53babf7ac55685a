----------------------------- MODULE MCTuneDvb -----------------------------
(* Instances of TuneDvb.                                                   *)
EXTENDS TuneDvb

CONSTANTS One, Two, Three   \* channel names

\* MPlayer entries for DVB-C and DVB-T2, VDR entries for DVB-S.
Cable(n, f, id) ==
  [format |-> "C", name |-> n, freq |-> f, inversion |-> "INVERSION_AUTO",
   fec |-> "FEC_NONE", modulation |-> "QAM_64", numeric |-> TRUE, video |-> 1511, sid |-> id]
Radio(n, f, id) == [Cable(n, f, id) EXCEPT !.video = 0]
Vdr(n, f, pid, id) ==
  [format |-> "VDR", name |-> n, freq |-> f, source |-> "S19.2E",
   symbolRate |-> 27500, par |-> <<[op |-> "H", val |-> -1], [op |-> "S", val |-> 1]>>,
   video |-> 101, ttx |-> pid, sid |-> id]
Terrestrial(n, f, id) ==
  [format |-> "T2", name |-> n, freq |-> f, inversion |-> "INVERSION_AUTO",
   bandwidth |-> "BANDWIDTH_8_MHZ", numeric |-> FALSE, modulation |-> "QAM_256",
   transmission |-> "TRANSMISSION_MODE_32K", guard |-> "GUARD_INTERVAL_1_128",
   hierarchy |-> "HIERARCHY_AUTO", video |-> 6601, sid |-> id]

TwoChannels == <<Cable(One, 610000000, 1), Cable(Two, 610000000, 2)>>
ThreeChannels ==
  <<Radio(Three, 610000000, 3), Terrestrial(Two, 474000000, 2),
    Cable(Two, 610000000, 2), Cable(One, 610000000, 1), Cable(Three, 610000000, 3)>>
VdrChannels ==
  <<Vdr(One, 11727, 35, 1), Vdr(Two, 11727, 0, 2), Vdr(Three, 12545, 37, 3)>>

Private(p) == [type |-> "teletext", pid |-> p]
Video(p) == [type |-> "video", pid |-> p]
Entry(id, p) == [sid |-> id, pid |-> p]

\* A PAT of two sections whose entries change places, one service without
\* teletext.
Changing ==
  [pat |-> << << <<Entry(0, 16), Entry(1, 101)>>, <<Entry(2, 102)>> >>,
              << <<Entry(2, 102), Entry(3, 103)>>, <<Entry(1, 101)>> >> >>,
   pmt |-> (101 :> (1 :> <<Video(201), Private(301)>>)) @@
           (102 :> (2 :> <<Video(202), Private(302)>>)) @@
           (103 :> (3 :> <<Video(203)>>))]

\* Two services that share a PMT PID, one without PMT.
Shared ==
  [pat |-> << << <<Entry(1, 101), Entry(2, 101), Entry(3, 103)>> >> >>,
   pmt |-> (101 :> ((1 :> <<Private(301)>>) @@ (2 :> <<Private(302)>>)))]

Start(c, o, t, good) ==
  [conf |-> c, chan |-> One, opt |-> o, tp |-> t, timely |-> good]

MCSetups ==
  {Start(TwoChannels, "P", Changing, good) : good \in BOOLEAN} \union
  {Start(ThreeChannels, "P", Changing, TRUE)} \union
  {Start(TwoChannels, "P", Shared, good) : good \in BOOLEAN} \union
  {Start(ThreeChannels, o, Shared, good) :
     o \in {"p", "P", "v", "x", "hold"}, good \in BOOLEAN} \union
  {Start(<<Cable(Two, 610000000, 2)>>, "p", Shared, TRUE)} \union
  {Start(VdrChannels, o, Changing, TRUE) : o \in {"p", "P"}}

=============================================================================
