------------------------------- MODULE ChunkStream -------------------------------
(*****************************************************************************)
(* What the SDK promises to the gateway for one upstream call, independently *)
(* of goroutines, contexts and the sync.Map: a stream is opened once, the    *)
(* chunks produced on it are delivered in order, each once, at most Window   *)
(* of them are ever in flight (the backpressure of sdk/types.go:198-201),    *)
(* and end-of-stream is signalled only when everything that was produced has *)
(* been delivered and nothing more will be produced.                         *)
(*                                                                           *)
(* InvokeStream implements this specification.                               *)
(*****************************************************************************)
EXTENDS Naturals, Sequences

CONSTANTS Streams,   (* stream identifiers                                   *)
          Chunks,    (* what a provider can put on a stream                  *)
          Window     (* how far production may run ahead of delivery         *)

VARIABLES phase,      (* "new" | "open" | "finished", per stream              *)
          produced,   (* everything the provider put on the stream           *)
          delivered,  (* everything the gateway was handed                   *)
          eof         (* whether the gateway has been told EOF               *)

streamVars == <<phase, produced, delivered, eof>>

Init == /\ phase = [s \in Streams |-> "new"]
        /\ produced = [s \in Streams |-> <<>>]
        /\ delivered = [s \in Streams |-> <<>>]
        /\ eof = [s \in Streams |-> FALSE]

Open(s) == /\ phase[s] = "new"
           /\ phase' = [phase EXCEPT ![s] = "open"]
           /\ UNCHANGED <<produced, delivered, eof>>

Produce(s) == /\ phase[s] = "open"
              /\ Len(produced[s]) < Len(delivered[s]) + Window
              /\ \E c \in Chunks :
                    produced' = [produced EXCEPT ![s] = Append(@, c)]
              /\ UNCHANGED <<phase, delivered, eof>>

Finish(s) == /\ phase[s] = "open"
             /\ phase' = [phase EXCEPT ![s] = "finished"]
             /\ UNCHANGED <<produced, delivered, eof>>

Deliver(s) == /\ Len(delivered[s]) < Len(produced[s])
              /\ delivered' = [delivered EXCEPT ![s] =
                                  Append(@, produced[s][Len(@) + 1])]
              /\ UNCHANGED <<phase, produced, eof>>

SignalEOF(s) == /\ phase[s] = "finished"
                /\ delivered[s] = produced[s]
                /\ eof' = [eof EXCEPT ![s] = TRUE]
                /\ UNCHANGED <<phase, produced, delivered>>

Step(s) == Open(s) \/ Produce(s) \/ Finish(s) \/ Deliver(s) \/ SignalEOF(s)

Next == \E s \in Streams : Step(s)

Spec == Init /\ [][Next]_streamVars

=============================================================================
