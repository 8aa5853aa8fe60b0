------------------------------- MODULE MCLinks -------------------------------
(***************************************************************************)
(* The protocols that words travel by, each for itself: a behaviour is a   *)
(* behaviour of one of the eight parts, and the others stay as they begin. *)
(*                                                                         *)
(*  - the handshake crossing, and the level and pulse crossings;           *)
(*  - the asynchronous FIFO, whose progress does not depend on the words   *)
(*    it carries, so that one payload is enough;                           *)
(*  - the packet arbiter;                                                  *)
(*  - the ready/valid stream in one clock domain;                          *)
(*  - the credit link and the request/response connection;                 *)
(*  - the control and status registers.                                    *)
(*                                                                         *)
(* The three crossings have their resets, and the books of the reset       *)
(* episode and of the last delivery, in common.                            *)
(***************************************************************************)
EXTENDS Handshake, StreamChain, CreditLink, RequestResponse, PacketArbiter, CsrBlock

CONSTANT Depth    \* of AsyncFifo

(* What AsyncFifo assumes of its depth.                                    *)
ASSUME FifoAssumption ==
    /\ Depth \in Nat
    /\ Depth >= 4
    /\ \E k \in 2..Depth : 2^k = Depth

VARIABLES
    part,
    \* WireCrossings
    level, source_toggle, sync_stage1, sync_stage2, toggle_sync1, toggle_sync2,
    previous_toggle, steady, settled, owed,
    \* AsyncFifo
    write_binary, write_gray, read_gray_sync1, read_gray_sync2, full,
    read_binary, read_gray, write_gray_sync1, write_gray_sync2, read_valid,
    storage, read_data

Crossing == INSTANCE WireCrossings
Fifo == INSTANCE AsyncFifo WITH Data <- {ZeroData}, output_valid <- read_valid

-----------------------------------------------------------------------------
Parts == {"handshake", "wires", "fifo", "arbiter", "chain", "credit", "request",
          "csr"}

commonVars == <<source_reset, destination_reset, cleared, delivered>>
handshakeVars == <<sourceVars, request_sync1, request_sync2, destination_acknowledge>>
wireVars == <<level, source_toggle, sync_stage1, sync_stage2, toggle_sync1, toggle_sync2,
              previous_toggle, steady, settled, owed>>
fifoVars == <<write_binary, write_gray, read_gray_sync1, read_gray_sync2, full,
              read_binary, read_gray, write_gray_sync1, write_gray_sync2, read_valid,
              storage, read_data>>
linksVars == <<part, commonVars, handshakeVars, wireVars, fifoVars, arbiterVars,
               chainVars, linkVars, rrVars, csrVars>>

(* What a part that does not run is built for.                             *)
ArbiterIdles == policy = "round_robin" /\ grant_scope = "beat"
ChainIdles == build = "systemverilog" /\ region = "pipeline"
CreditIdles == family = "credit"
CsrIdles == priority = "hardware"
RequestIdles == ordering = "in_order" /\ request_depth = 0 /\ response_depth = 0

LinksInit ==
    /\ part \in Parts
    /\ Init /\ Crossing!Init /\ Fifo!Init
    /\ ArbiterInit /\ (part # "arbiter" => ArbiterIdles)
    /\ ChainInit /\ (part # "chain" => ChainIdles)
    /\ LinkInit /\ (part # "credit" => CreditIdles)
    /\ RequestInit /\ (part # "request" => RequestIdles)
    /\ CsrInit /\ (part # "csr" => CsrIdles)

(* The parts that do not run stay as they are.                             *)
OthersIdle ==
    /\ UNCHANGED part
    /\ IF part = "handshake" THEN TRUE ELSE UNCHANGED handshakeVars
    /\ IF part = "wires" THEN UNCHANGED delivered ELSE UNCHANGED wireVars
    /\ IF part = "fifo" THEN TRUE ELSE UNCHANGED fifoVars
    /\ IF part \in {"handshake", "wires", "fifo"} THEN TRUE ELSE UNCHANGED commonVars
    /\ IF part = "arbiter" THEN TRUE ELSE UNCHANGED arbiterVars
    /\ IF part = "chain" THEN TRUE ELSE UNCHANGED chainVars
    /\ IF part = "credit" THEN TRUE ELSE UNCHANGED linkVars
    /\ IF part = "request" THEN TRUE ELSE UNCHANGED rrVars
    /\ IF part = "csr" THEN TRUE ELSE UNCHANGED csrVars

LinksNext ==
    /\ \/ part = "handshake" /\ Next
       \/ part = "wires" /\ Crossing!Next
       \/ part = "fifo" /\ Fifo!Next
       \/ part = "arbiter" /\ ArbiterNext
       \/ part = "chain" /\ ChainNext
       \/ part = "credit" /\ LinkNext
       \/ part = "request" /\ RequestNext
       \/ part = "csr" /\ CsrNext
    /\ OthersIdle

-----------------------------------------------------------------------------
(* The fairness of each part, as its module states it.                     *)
Ticks ==
    /\ \/ part = "handshake" /\ (SourceClock \/ \E ready \in BOOLEAN : BothClocks(ready))
       \/ part = "fifo" /\ (Fifo!SourceClock \/ \E ready \in BOOLEAN : Fifo!BothClocks(ready))
       \/ part = "arbiter" /\ Progress
       \/ part = "chain" /\ ChainClock(TRUE)
    /\ OthersIdle

Takes ==
    /\ \/ part = "handshake" /\ (DestinationClock(TRUE) \/ BothClocks(TRUE))
       \/ part = "fifo" /\ (Fifo!DestinationClock(TRUE) \/ Fifo!BothClocks(TRUE))
       \/ /\ part = "wires"
          /\ \/ Crossing!DestinationEdge
             \/ \E newLevel \in {0, 1}, pulse \in BOOLEAN : Crossing!BothEdges(newLevel, pulse)
       \/ part = "arbiter" /\ ArbiterResetEdge
       \/ part = "chain" /\ ChainResetEdge /\ ~chain_reset'
    /\ OthersIdle

ReleasesSource ==
    /\ \/ part = "handshake" /\ ReleaseSource
       \/ part = "fifo" /\ Fifo!ReleaseSource
       \/ part = "wires" /\ Crossing!ReleaseSource
    /\ OthersIdle

ReleasesDestination ==
    /\ \/ part = "handshake" /\ ReleaseDestination
       \/ part = "fifo" /\ Fifo!ReleaseDestination
       \/ part = "wires" /\ Crossing!ReleaseDestination
    /\ OthersIdle

PacketsEnd == part = "arbiter" /\ PacketEnds /\ OthersIdle
ResetEnds == part = "arbiter" /\ ArbiterResetEdge /\ ~reset' /\ OthersIdle

LinksSpec ==
    /\ LinksInit /\ [][LinksNext]_linksVars
    /\ WF_linksVars(Ticks) /\ WF_linksVars(Takes)
    /\ WF_linksVars(ReleasesSource) /\ WF_linksVars(ReleasesDestination)
    /\ SF_linksVars(PacketsEnd) /\ SF_linksVars(ResetEnds)

-----------------------------------------------------------------------------
(* The registers of the part that runs hold values of their width.  Of the *)
(* stream this says that no word is made of two, of the counters that they *)
(* do not pass their bounds.                                               *)
LinksTypeOK ==
    CASE part = "handshake" -> TypeOK
      [] part = "wires" -> Crossing!TypeOK
      [] part = "fifo" -> Fifo!TypeOK
      [] part = "arbiter" -> ArbiterTypeOK
      [] part = "chain" -> ChainTypeOK
      [] part = "credit" -> LinkTypeOK
      [] part = "request" -> RequestTypeOK
      [] part = "csr" -> CsrTypeOK

(* No pulse is lost and none is made up: outside a reset episode, the      *)
(* changes under way are exactly the pulses yet to be seen.  And a level   *)
(* that has been still for two edges of the destination is what the        *)
(* destination sees.                                                       *)
WiresExact == part = "wires" => Crossing!WiresExact

(* What is accepted at the source of a crossing, a word or a pulse, is     *)
(* seen at its destination unless a reset comes, and the source is never   *)
(* refused for ever.                                                       *)
CrossingsProgress ==
    /\ AcceptedIsOffered /\ SourceReadyAgain
    /\ Fifo!AcceptedIsOffered /\ Fifo!SourceReadyAgain
    /\ Crossing!PulseSeen
=============================================================================
