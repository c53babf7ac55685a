----------------------------- MODULE MCTtxStream -----------------------------
(* Small services for TLC: two or three magazines, a decimal and a         *)
(* hexadecimal page each, the BTT and the pages it links.                  *)
EXTENDS TtxStream

\* Page 100, the BTT and the MPT it links: the linked page is not
\* acceptable before the BTT was received
PagesTop == {256, 496, 497}
\* A decimal and a hexadecimal page of magazine 1, one of magazine 2
PagesMixed == {256, 266, 512}
\* Pages that share magazines
PagesShared == {256, 257, 512, 513}
\* One page per magazine
PagesLone == {256, 512}

AllPages == PagesTop \union PagesMixed

SubOne == {0}

Air(modes, loss, page, pkg) ==
  [modes |-> modes, loss |-> loss, hide |-> {FALSE}, page |-> page, pkg |-> pkg]

\* Parallel services, with TOP tables and with two magazines, that only
\* lose rows, and a serial service that loses headers as well
AirsBoth == {Air({FALSE}, {"row"}, PagesTop, {0, 1, 21}),
             Air({FALSE}, {"row"}, PagesMixed, {0, 1, 2}),
             Air({TRUE}, {"header", "row"}, PagesMixed, {0, 1, 2, 28})}
\* Headers only: a service that changes between the modes, and a parallel one
AirsShared == {Air(BOOLEAN, {}, PagesShared, {0})}
AirsLone == {Air({FALSE}, {}, PagesLone, {0})}

MCData == Handle \union {Blank}

\* Every line of the BTT links 1F1 as MPT and 1F2 as AIT, as far as they exist
LinkTo(page) == IF page \in Page THEN page ELSE NoPage
MCLinkOf == [d \in MCData |-> IF d \in Handle /\ d[1] = BttPage
                              THEN <<LinkTo(497), LinkTo(498)>> ELSE NoLink]
=============================================================================
