-------------------------------- MODULE Parts --------------------------------
(***************************************************************************)
(* The parts under and beside the connection, checked one at a time: part  *)
(* is the one that is used, the others stay as they are.  They are the     *)
(* data structures, the codecs, the loop of dwnx_conn_write_ctrl_frames    *)
(* and the idle timeout.                                                   *)
(***************************************************************************)
EXTENDS Gaptr, Ratelim, Pq, HashMap, Ksl, Pool, Codec, CtrlLoop, Idle

VARIABLE part

structureVars == <<gapVars, rateVars, pqVars, mapVars, kslVars, poolVars>>
codecVars == <<readerVars, paramVars, frameVars, writerVars>>

partVars == <<part, structureVars, codecVars, loopVars, idleVars>>

Init ==
  /\ GapInit /\ PqInit /\ MapInit /\ KslInit /\ RateInit /\ ParamsInit /\ LoopInit
  /\ part \in {"gaptr", "ratelim", "pq", "map", "ksl", "pool", "loop", "idle",
               "reader", "params", "frames", "writer"}
  /\ part # "ratelim" => burst = 0 /\ rate = 0 /\ ts = 0
  /\ IF part = "pool" THEN PoolInit ELSE pool = NewPool(1, 1) /\ freed = << >> /\ lent = {}
  /\ IF part = "reader" THEN ReaderInit ELSE known = FALSE /\ r = Start(FALSE) /\ fed = << >>
  /\ IF part = "frames" THEN FrameInit
     ELSE room = 0 /\ bytes = << >> /\ put = << >> /\ got = << >>
  /\ IF part = "writer" THEN WriterInit
     ELSE w = NewWriter(<< >>, << >>) /\ out = << >> /\ call = NoCall
  /\ IF part = "idle" THEN IdleInit
     ELSE /\ now = 0 /\ wires = [p \in Peers |-> << >>]
          /\ ends = [p \in Peers |-> NewEnd([client |-> 0, server |-> 0], p, 0)]

Next ==
  /\ UNCHANGED part
  /\ \/ /\ UNCHANGED <<codecVars, loopVars, idleVars>>
        /\ \/ part = "gaptr"   /\ GapNext
                               /\ UNCHANGED <<rateVars, pqVars, mapVars, kslVars, poolVars>>
           \/ part = "ratelim" /\ RateNext
                               /\ UNCHANGED <<gapVars, pqVars, mapVars, kslVars, poolVars>>
           \/ part = "pq"      /\ PqNext
                               /\ UNCHANGED <<gapVars, rateVars, mapVars, kslVars, poolVars>>
           \/ part = "map"     /\ MapNext
                               /\ UNCHANGED <<gapVars, rateVars, pqVars, kslVars, poolVars>>
           \/ part = "ksl"     /\ KslNext
                               /\ UNCHANGED <<gapVars, rateVars, pqVars, mapVars, poolVars>>
           \/ part = "pool"    /\ PoolNext
                               /\ UNCHANGED <<gapVars, rateVars, pqVars, mapVars, kslVars>>
     \/ /\ UNCHANGED <<structureVars, loopVars, idleVars>>
        /\ \/ part = "reader" /\ ReaderNext /\ UNCHANGED <<paramVars, frameVars, writerVars>>
           \/ part = "params" /\ ParamsNext /\ UNCHANGED <<readerVars, frameVars, writerVars>>
           \/ part = "frames" /\ FrameNext  /\ UNCHANGED <<readerVars, paramVars, writerVars>>
           \/ part = "writer" /\ WriterNext /\ UNCHANGED <<readerVars, paramVars, frameVars>>
     \/ part = "loop" /\ LoopNext /\ UNCHANGED <<structureVars, codecVars, idleVars>>
     \/ part = "idle" /\ IdleNext  /\ UNCHANGED <<structureVars, codecVars, loopVars>>

Spec == Init /\ [][Next]_partVars

-----------------------------------------------------------------------------

(* Each of these is of one part, whose properties it names                 *)

\* The table holds what was inserted, where a search will look for it
\* (dwnx_map_insert, dwnx_map_find, dwnx_map_remove).
MapExact == part = "map" => FindsPresent /\ RobinHood

\* The tree keeps its shape through splits and merges, finds exactly what was
\* put there, and tells its caller where (dwnx_ksl_insert, dwnx_ksl_remove,
\* dwnx_ksl_remove_hint, dwnx_ksl_lower_bound_search).
KslExact == part = "ksl" => KslFinds /\ KslIterators /\ KslBalanced

\* What one end says the other hears, and nothing that is heard is lost when it
\* is kept (dwnx_transport_params_encode, dwnx_transport_params_decode).
ParamsExact == part = "params" => ParamsRoundTrip /\ AcceptedIsKept

\* A frame is its bytes, all of them and no more (dwnx_frd_decode,
\* dwnx_qre_encode_frame).
FramesExact == part = "frames" => FramesRoundTrip /\ CutFrameRefused
=============================================================================
