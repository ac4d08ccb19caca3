------------------------------- MODULE InvokeStream -------------------------------
(*****************************************************************************)
(* The streaming half of sdk/server.go (InvokeStart, InvokeNext,             *)
(* InvokeCancel) together with the control of the two providers that run     *)
(* behind it, plugins/upstream-openai and plugins/upstream-codex.            *)
(*                                                                           *)
(* net/rpc runs every call in a goroutine of its own, and InvokeStart starts *)
(* one more per stream, the producer.  The actors are therefore, per stream: *)
(* the producer, the InvokeNext call in flight (the gateway has at most one  *)
(* per stream: it pulls chunks one at a time, sdk/types.go:198-201), an      *)
(* InvokeCancel that can come at any moment, and the deadline timer.         *)
(*                                                                           *)
(* What an upstream answers is an environment choice.  Of a chunk only the   *)
(* kind is kept: content, usage or error; its text is abstracted away.       *)
(*****************************************************************************)
EXTENDS Naturals, Sequences

CONSTANTS MaxStreams,       (* bound: InvokeStart calls                      *)
          MaxSends,         (* bound: chunks a provider produces per stream  *)
          ChanCap,          (* capacity of the chunk channel (32 in the SDK) *)
          MaxChoices,       (* bound: deltas in one event or one response    *)
          Providers,        (* which plugins may serve: "openai", "codex"    *)
          DeadlineChoices,  (* whether a call carries a deadline             *)
          StreamingChoices  (* whether the upstream answer is streamed       *)

ASSUME BoundsAssumption ==
    /\ MaxStreams \in Nat
    /\ MaxSends \in Nat
    /\ ChanCap \in Nat \ {0}
    /\ MaxChoices \in Nat \ {0}

ASSUME ChoicesAssumption ==
    /\ Providers \subseteq {"openai", "codex"}
    /\ DeadlineChoices \subseteq BOOLEAN
    /\ StreamingChoices \subseteq BOOLEAN

Streams == 1..MaxStreams
Kinds == {"delta", "usage", "error"}

VARIABLES
    provider,   (* Service.UpstreamProvider: which plugin this process is    *)
    nextID,     (* Service.nextID, the last identifier handed out            *)
    streams,    (* the keys of Service.streams                               *)
    pc,         (* where the producer goroutine is                           *)
    streaming,  (* whether the provider reads the answer event by event      *)
    ctx,        (* the context contextFromCall made for the call             *)
    ch,         (* the contents of the channel; it is closed iff pc is done  *)
    pending,    (* the kinds the provider still has to send before it reads  *)
    why,        (* how the provider came to its end, "none" until then       *)
    heard,      (* history: the chunks the provider made of what it was told *)
    missed,     (* history: the provider passed over an event of the answer  *)
    next,       (* the InvokeNext call of the gateway                        *)
    sent,       (* history: every chunk put on the channel                   *)
    got,        (* history: every chunk InvokeNext took from the channel     *)
    cancelled   (* history: an InvokeCancel found the stream                 *)

producerVars == <<provider, pc, streaming, pending, why, heard, missed>>
vars == <<provider, nextID, streams, pc, streaming, ctx, ch, pending, why, heard,
          missed, next, sent, got, cancelled>>

ProducerStates == {"none", "call", "read", "send", "fail", "return", "close", "done"}
ContextStates == {"background", "live", "expired", "cancelled", "released"}
Reasons == {"none", "setup", "request", "body", "complete", "cut", "aborted"}
NextStates == {"idle", "loaded", "eof", "ended", "unknown"}

-----------------------------------------------------------------------------
(* ctx.Done() is ready.  A context without a deadline is Background: its     *)
(* Done channel is nil, and its cancel function does nothing.                *)
CtxDone(i) == ctx[i] \in {"expired", "cancelled", "released"}

(* cancel(): the first of cancel and deadline decides. *)
CancelCtx(i, how) == ctx' = [ctx EXCEPT ![i] = IF @ = "live" THEN how ELSE @]

Room(i) == Len(ch[i]) < ChanCap

(* Mutant of Put: a send with a default branch, which drops when full. *)
PutOrDrop(i, kind) ==
    /\ ch' = [ch EXCEPT ![i] = IF Room(i) THEN Append(@, kind) ELSE @]
    /\ sent' = [sent EXCEPT ![i] = Append(@, kind)]

Put(i, kind) ==
    /\ Room(i)
    /\ ch' = [ch EXCEPT ![i] = Append(@, kind)]
    /\ sent' = [sent EXCEPT ![i] = Append(@, kind)]

-----------------------------------------------------------------------------
Init == /\ provider \in Providers
        /\ nextID = 0
        /\ streams = {}
        /\ pc = [i \in Streams |-> "none"]
        /\ streaming = [i \in Streams |-> FALSE]
        /\ ctx = [i \in Streams |-> "background"]
        /\ ch = [i \in Streams |-> <<>>]
        /\ pending = [i \in Streams |-> <<>>]
        /\ why = [i \in Streams |-> "none"]
        /\ heard = [i \in Streams |-> <<>>]
        /\ missed = [i \in Streams |-> FALSE]
        /\ next = [i \in Streams |-> "idle"]
        /\ sent = [i \in Streams |-> <<>>]
        /\ got = [i \in Streams |-> <<>>]
        /\ cancelled = [i \in Streams |-> FALSE]

(* InvokeStart: a fresh identifier, a registered stream, a running producer. *)
InvokeStart(i) ==
    /\ i = nextID + 1
    /\ nextID' = i
    /\ streams' = streams \union {i}
    /\ pc' = [pc EXCEPT ![i] = "call"]
    /\ \E d \in DeadlineChoices :
          ctx' = [ctx EXCEPT ![i] = IF d THEN "live" ELSE "background"]
    /\ \E s \in StreamingChoices : streaming' = [streaming EXCEPT ![i] = s]
    /\ UNCHANGED <<provider, ch, pending, why, heard, missed, next, sent, got, cancelled>>

-----------------------------------------------------------------------------
(* The producer goroutine: UpstreamProvider.Invoke inside its wrapper.       *)

(* The provider decides to send the kinds ks, for the reason w ("none": it   *)
(* will read on when they are sent).                                         *)
Prepare(i, ks, w) ==
    /\ pending' = [pending EXCEPT ![i] = ks]
    /\ heard' = [heard EXCEPT ![i] = @ \o ks]
    /\ why' = [why EXCEPT ![i] = w]
    /\ pc' = [pc EXCEPT ![i] = IF ks = <<>> THEN "return" ELSE "send"]
    /\ UNCHANGED <<nextID, streams, provider, streaming, ctx, ch, missed, next, sent, got, cancelled>>

(* json.Marshal or http.NewRequestWithContext fails: Invoke returns an error. *)
SetupFails(i) ==
    /\ pc[i] = "call"
    /\ pc' = [pc EXCEPT ![i] = "fail"]
    /\ why' = [why EXCEPT ![i] = "setup"]
    /\ UNCHANGED <<nextID, streams, provider, streaming, ctx, ch, pending, heard, missed, next, sent, got, cancelled>>

(* The upstream answers 2xx (for codex: at the first try, or at the second   *)
(* after a token refresh).                                                   *)
CallOk(i) ==
    /\ pc[i] = "call"
    /\ pc' = [pc EXCEPT ![i] = "read"]
    /\ UNCHANGED <<nextID, streams, provider, streaming, ctx, ch, pending, why, heard, missed, next, sent, got, cancelled>>

(* http.Do fails (network, client timeout, context), or the status is not 2xx. *)
CallFails(i) == pc[i] = "call" /\ Prepare(i, <<"error">>, "request")

Deltas(k) == [j \in 1..k |-> "delta"]

(* One server-sent event: some deltas, then the usage if the event has it.   *)
ReadEvent(i) ==
    /\ pc[i] = "read" /\ streaming[i]
    /\ \E k \in 0..MaxChoices, usage \in {<<>>, <<"usage">>} :
          /\ Deltas(k) \o usage # <<>>
          /\ Len(sent[i]) + k + Len(usage) <= MaxSends
          /\ Prepare(i, Deltas(k) \o usage, "none")

(* An event that does not parse is passed over, and codex passes over the    *)
(* events that report an error or a failed response: neither is told on.     *)
SkipEvent(i) ==
    /\ pc[i] = "read" /\ streaming[i]
    /\ missed' = [missed EXCEPT ![i] = TRUE]
    /\ UNCHANGED <<nextID, streams, provider, pc, streaming, ctx, ch, pending, why, heard,
                   next, sent, got, cancelled>>

(* The scan ends: at [DONE] ("complete"), or where the body ends without it  *)
(* ("cut"), which the scanner does not take for an error.                    *)
ReadEnd(i) ==
    /\ pc[i] = "read" /\ streaming[i]
    /\ \E how \in {"complete", "cut"} : Prepare(i, <<>>, how)

(* One JSON document.  openai sends a delta per choice, codex exactly one;   *)
(* both then send the usage.                                                 *)
ReadResponse(i) ==
    /\ pc[i] = "read" /\ ~streaming[i]
    /\ \E k \in 0..MaxChoices :
          /\ provider = "codex" => k = 1
          /\ Prepare(i, Append(Deltas(k), "usage"), "complete")

(* Mutant of ReadFails: the read loop goes on after reporting the error. *)
ReadFailsAndContinues(i) == pc[i] = "read" /\ Prepare(i, <<"error">>, "none")

(* The scanner or the JSON decoder reports an error. *)
ReadFails(i) == pc[i] = "read" /\ Prepare(i, <<"error">>, "body")

(* Mutant of Guarded: codex sends the final error bare, as openai does. *)
GuardedEventsOnly(i) == streaming[i] /\ why[i] = "none"

(* Which sends sit in a select with ctx.Done(): the events of a streamed     *)
(* answer, and in codex also the error that ends it.  The rest are bare.     *)
Guarded(i) == /\ streaming[i]
              /\ \/ why[i] = "none"
                 \/ why[i] = "body" /\ provider = "codex"

AfterSend(i) == IF Tail(pending[i]) # <<>> THEN "send"
                ELSE IF why[i] = "none" THEN "read" ELSE "return"

Send(i) ==
    /\ pc[i] = "send"
    /\ Put(i, Head(pending[i]))
    /\ pending' = [pending EXCEPT ![i] = Tail(@)]
    /\ pc' = [pc EXCEPT ![i] = AfterSend(i)]
    /\ UNCHANGED <<nextID, streams, provider, streaming, ctx, why, heard, missed, next, got, cancelled>>

AbortSend(i) ==
    /\ pc[i] = "send" /\ Guarded(i) /\ CtxDone(i)
    /\ pending' = [pending EXCEPT ![i] = <<>>]
    /\ why' = [why EXCEPT ![i] = IF @ = "none" THEN "aborted" ELSE @]
    /\ pc' = [pc EXCEPT ![i] = "return"]
    /\ UNCHANGED <<nextID, streams, provider, streaming, ctx, ch, heard, missed, next, sent, got, cancelled>>

(* The wrapper reports the error Invoke returned, or drops it. *)
FailSend(i) ==
    /\ pc[i] = "fail"
    /\ Put(i, "error")
    /\ pc' = [pc EXCEPT ![i] = "return"]
    /\ UNCHANGED <<nextID, streams, provider, streaming, ctx, pending, why, heard, missed, next, got, cancelled>>

(* Mutant of FailDrop: the select has a default branch. *)
FailDropAlways(i) ==
    /\ pc[i] = "fail"
    /\ pc' = [pc EXCEPT ![i] = "return"]
    /\ UNCHANGED <<nextID, streams, provider, streaming, ctx, ch, pending, why, heard, missed, next, sent, got, cancelled>>

FailDrop(i) ==
    /\ pc[i] = "fail" /\ CtxDone(i)
    /\ pc' = [pc EXCEPT ![i] = "return"]
    /\ UNCHANGED <<nextID, streams, provider, streaming, ctx, ch, pending, why, heard, missed, next, sent, got, cancelled>>

(* defer cancel(), then defer close(ch). *)
Return(i) ==
    /\ pc[i] = "return"
    /\ CancelCtx(i, "released")
    /\ pc' = [pc EXCEPT ![i] = "close"]
    /\ UNCHANGED <<nextID, streams, provider, streaming, ch, pending, why, heard, missed, next, sent, got, cancelled>>

(* Mutant of Close: the channel is closed on the success path only. *)
CloseOnSuccess(i) ==
    /\ pc[i] = "close" /\ why[i] = "complete"
    /\ pc' = [pc EXCEPT ![i] = "done"]
    /\ UNCHANGED <<nextID, streams, provider, streaming, ctx, ch, pending, why, heard, missed, next, sent, got, cancelled>>

(* Mutant of Close: the producer removes the entry when it is done. *)
CloseAndDelete(i) ==
    /\ pc[i] = "close"
    /\ pc' = [pc EXCEPT ![i] = "done"]
    /\ streams' = streams \ {i}
    /\ UNCHANGED <<nextID, provider, streaming, ctx, ch, pending, why, heard, missed, next, sent, got, cancelled>>

Close(i) ==
    /\ pc[i] = "close"
    /\ pc' = [pc EXCEPT ![i] = "done"]
    /\ UNCHANGED <<nextID, streams, provider, streaming, ctx, ch, pending, why, heard, missed, next, sent, got, cancelled>>

-----------------------------------------------------------------------------
(* InvokeNext: the map is read, the channel is received from, and on EOF the *)
(* entry is deleted, in three steps that everything else can come between.   *)

(* The gateway calls for streams it was given, and not again after EOF. *)
NextCall(i) ==
    /\ i \in 1..nextID /\ next[i] = "idle"
    /\ next' = [next EXCEPT ![i] = IF i \in streams THEN "loaded" ELSE "unknown"]
    /\ UNCHANGED <<nextID, streams, ctx, ch, sent, got, cancelled, producerVars>>

NextReceive(i) ==
    /\ next[i] = "loaded" /\ ch[i] # <<>>
    /\ got' = [got EXCEPT ![i] = Append(@, Head(ch[i]))]
    /\ ch' = [ch EXCEPT ![i] = Tail(@)]
    /\ next' = [next EXCEPT ![i] = "idle"]
    /\ UNCHANGED <<nextID, streams, ctx, sent, cancelled, producerVars>>

(* Mutant of NextClosed: a closed channel is taken for a drained one. *)
NextClosedEarly(i) ==
    /\ next[i] = "loaded" /\ pc[i] = "done"
    /\ next' = [next EXCEPT ![i] = "eof"]
    /\ UNCHANGED <<nextID, streams, ctx, ch, sent, got, cancelled, producerVars>>

NextClosed(i) ==
    /\ next[i] = "loaded" /\ ch[i] = <<>> /\ pc[i] = "done"
    /\ next' = [next EXCEPT ![i] = "eof"]
    /\ UNCHANGED <<nextID, streams, ctx, ch, sent, got, cancelled, producerVars>>

NextEOF(i) ==
    /\ next[i] = "eof"
    /\ streams' = streams \ {i}
    /\ next' = [next EXCEPT ![i] = "ended"]
    /\ UNCHANGED <<nextID, ctx, ch, sent, got, cancelled, producerVars>>

(* InvokeCancel of a registered stream; of any other it changes nothing. *)
InvokeCancel(i) ==
    /\ i \in streams
    /\ streams' = streams \ {i}
    /\ CancelCtx(i, "cancelled")
    /\ cancelled' = [cancelled EXCEPT ![i] = TRUE]
    /\ UNCHANGED <<nextID, ch, next, sent, got, producerVars>>

DeadlineExpires(i) ==
    /\ ctx[i] = "live"
    /\ ctx' = [ctx EXCEPT ![i] = "expired"]
    /\ UNCHANGED <<nextID, streams, ch, next, sent, got, cancelled, producerVars>>

-----------------------------------------------------------------------------
Producer(i) == \/ SetupFails(i) \/ CallOk(i) \/ CallFails(i)
               \/ ReadEvent(i) \/ SkipEvent(i) \/ ReadEnd(i)
               \/ ReadResponse(i) \/ ReadFails(i)
               \/ Send(i) \/ AbortSend(i)
               \/ FailSend(i) \/ FailDrop(i)
               \/ Return(i) \/ Close(i)

InvokeNext(i) == NextReceive(i) \/ NextClosed(i) \/ NextEOF(i)

Next == \E i \in Streams : \/ InvokeStart(i)
                           \/ Producer(i)
                           \/ NextCall(i) \/ InvokeNext(i)
                           \/ InvokeCancel(i)
                           \/ DeadlineExpires(i)

Spec == Init /\ [][Next]_vars

(* A goroutine that can run does run; the upstream answers or the client     *)
(* times out (both providers set http.Client.Timeout); and the gateway keeps *)
(* calling InvokeNext until EOF, as server.go:280-283 expects of it.         *)
Fairness == \A i \in Streams : /\ WF_vars(Producer(i))
                               /\ WF_vars(InvokeNext(i))
                               /\ WF_vars(NextCall(i))

FairSpec == Spec /\ Fairness

-----------------------------------------------------------------------------
(* Types of all the variables. *)
TypeOK ==
    /\ provider \in Providers
    /\ nextID \in 0..MaxStreams
    /\ streams \subseteq Streams
    /\ pc \in [Streams -> ProducerStates]
    /\ streaming \in [Streams -> BOOLEAN]
    /\ ctx \in [Streams -> ContextStates]
    /\ ch \in [Streams -> Seq(Kinds)]
    /\ pending \in [Streams -> Seq(Kinds)]
    /\ why \in [Streams -> Reasons]
    /\ heard \in [Streams -> Seq(Kinds)]
    /\ missed \in [Streams -> BOOLEAN]
    /\ next \in [Streams -> NextStates]
    /\ sent \in [Streams -> Seq(Kinds)]
    /\ got \in [Streams -> Seq(Kinds)]
    /\ cancelled \in [Streams -> BOOLEAN]

(* What InvokeNext has handed out, followed by what is in the channel, is    *)
(* what the provider sent, in order: no chunk is lost, doubled or overtaken, *)
(* whatever InvokeCancel and the deadline do (server.go:284-297).            *)
InOrderNoLoss == \A i \in Streams : got[i] \o ch[i] = sent[i]

(* A consumer that sees EOF and has seen no error chunk has every delta and  *)
(* usage the provider read, and no failure the provider was told of (setup,  *)
(* no answer, a bad status, an error of the scanner or decoder) has passed   *)
(* for the end, unless the context of the call ended (server.go:266-274,     *)
(* upstream-openai:186-188, upstream-codex:339-341).  It does not have the   *)
(* whole answer: a streamed body that just stops, or an event that was       *)
(* passed over, is no failure the provider takes note of; an answer that is  *)
(* one document is whole.                                                    *)
Whole(i) == why[i] = "complete" /\ ~missed[i]
QuietEOFHidesNothingHeard ==
    \A i \in Streams :
        next[i] = "ended" /\ (\A k \in 1..Len(got[i]) : got[i][k] # "error") =>
            \/ ctx[i] \in {"expired", "cancelled"}
            \/ /\ why[i] \in {"complete", "cut"} /\ got[i] = heard[i]
               /\ streaming[i] \/ Whole(i)

(* Nothing follows an error chunk: an error is the last thing a consumer of  *)
(* the stream can receive before EOF, from either provider and the wrapper.  *)
ErrorIsLast ==
    \A i \in Streams : \A k \in 1..Len(sent[i]) :
        sent[i][k] = "error" => k = Len(sent[i])

(* The gateway is told "unknown stream" only for a stream it has cancelled:  *)
(* an entry is never deleted under a reader that has not been told EOF       *)
(* (server.go:285-294, 305).                                                 *)
UnknownOnlyAfterCancel == \A i \in Streams : next[i] = "unknown" => cancelled[i]

(* An entry leaves Service.streams only by InvokeCancel or when the channel  *)
(* is closed and drained; identifiers are not reused (server.go:292, 305).   *)
LeavesDrainedOrCancelled ==
    \A i \in streams : i \notin streams' =>
        \/ cancelled'[i]
        \/ pc[i] = "done" /\ ch[i] = <<>> /\ got[i] = sent[i]
EntriesLeaveDrainedOrCancelled == [][LeavesDrainedOrCancelled]_vars

(* The promise to the gateway, with the producer at most ChanCap ahead.      *)
AbstractPhase(i) == CASE pc[i] = "none" -> "new"
                      [] pc[i] = "done" -> "finished"
                      [] OTHER -> "open"

Abstract == INSTANCE ChunkStream WITH
                Chunks <- Kinds,
                Window <- ChanCap,
                phase <- [i \in Streams |-> AbstractPhase(i)],
                produced <- sent,
                delivered <- got,
                eof <- [i \in Streams |-> next[i] \in {"eof", "ended"}]

(* The SDK and both providers implement ChunkStream (sdk/types.go:198-201).  *)
ImplementsChunkStream == Abstract!Spec

(* A gateway that keeps calling gets to the end of every stream: EOF, or     *)
(* "unknown stream" once it has cancelled (server.go:280-294).               *)
ReaderReachesEnd ==
    \A i \in Streams : pc[i] # "none" ~> next[i] \in {"ended", "unknown"}

(* InvokeCancel aborts the stream: the producer stops and the channel is     *)
(* closed (the comment at server.go:301-304).                                *)
CancelEndsProducer == \A i \in Streams : cancelled[i] ~> pc[i] = "done"

(* InvokeCancel ends a streamed call of upstream-codex that has a deadline,  *)
(* even when the channel is full and nobody reads it any more: each of its   *)
(* sends can give way to the context (upstream-codex:291-299, :339-341).     *)
CancelEndsCodexStream ==
    \A i \in Streams :
        provider = "codex" /\ streaming[i] /\ ctx[i] = "cancelled" ~> pc[i] = "done"

=============================================================================
