------------------------------------ MODULE Serve ------------------------------------
(*****************************************************************************)
(* The life of a plugin process, sdk/server.go: ServeUnix takes over the     *)
(* socket path, serves connections until a signal or a failing Accept, and   *)
(* gives the path back.  The gateway may start a plugin again after it       *)
(* stopped or crashed, and may start the next process before the last one is *)
(* gone: the instances meet only at the path, a name in the file system.     *)
(*                                                                           *)
(* A process has two goroutines, ServeUnix itself and the accept loop; they  *)
(* share the listener, the context and a channel of capacity one.            *)
(*****************************************************************************)
EXTENDS Naturals

CONSTANT MaxInstances    (* bound: processes started, one after the other    *)

ASSUME InstancesAssumption == MaxInstances \in Nat

Instances == 1..MaxInstances
Nobody == 0

VARIABLES
    stage,      (* where ServeUnix is                                        *)
    path,       (* whose socket the path names, dead or alive, or Nobody     *)
    open,       (* the listener is open: a connection to it is accepted      *)
    acceptor,   (* where the accept loop is                                  *)
    errCh,      (* what the accept loop reported                             *)
    signalled,  (* ctx is done: SIGINT or SIGTERM came once Notify was on    *)
    result,     (* what ServeUnix returned, or how else the process ended    *)
    overlapped, (* history: the process shared its life with another one     *)
    askedFirst  (* history: the signal came before the loop judged its error *)

serveVars == <<stage, path, open, acceptor, errCh, signalled, result, overlapped, askedFirst>>

Alive(i) == stage[i] \notin {"down", "gone"}

(* A connection that is made to the path now reaches the instance. *)
Reached(i) == path = i /\ open[i]

ServeInit ==
    /\ stage = [i \in Instances |-> "down"]
    /\ path = Nobody
    /\ open = [i \in Instances |-> FALSE]
    /\ acceptor = [i \in Instances |-> "none"]
    /\ errCh = [i \in Instances |-> "empty"]
    /\ signalled = [i \in Instances |-> FALSE]
    /\ result = [i \in Instances |-> "none"]
    /\ overlapped = [i \in Instances |-> FALSE]
    /\ askedFirst = [i \in Instances |-> FALSE]

(* The gateway starts the next process. *)
Start(i) ==
    /\ stage[i] = "down"
    /\ \A j \in Instances : j < i => stage[j] # "down"
    /\ stage' = [stage EXCEPT ![i] = "remove"]
    /\ LET others == {j \in Instances : Alive(j)}
       IN overlapped' = [j \in Instances |-> \/ overlapped[j]
                                             \/ (j \in others)
                                             \/ (j = i /\ others # {})]
    /\ UNCHANGED <<path, open, acceptor, errCh, signalled, result, askedFirst>>

(* Mutant of Remove: the stale socket is left where it is. *)
RemoveNothing(i) ==
    /\ stage[i] = "remove"
    /\ stage' = [stage EXCEPT ![i] = "listen"]
    /\ UNCHANGED <<path, open, acceptor, errCh, signalled, result, overlapped, askedFirst>>

(* os.Remove(socketPath), its error ignored: whatever is there goes. *)
Remove(i) ==
    /\ stage[i] = "remove"
    /\ path' = Nobody
    /\ stage' = [stage EXCEPT ![i] = "listen"]
    /\ UNCHANGED <<open, acceptor, errCh, signalled, result, overlapped, askedFirst>>

(* Mutant of Listen: the path is removed once more after the bind. *)
ListenThenRemove(i) ==
    /\ stage[i] = "listen"
    /\ path = Nobody
    /\ open' = [open EXCEPT ![i] = TRUE]
    /\ stage' = [stage EXCEPT ![i] = "notify"]
    /\ UNCHANGED <<path, acceptor, errCh, signalled, result, overlapped, askedFirst>>

(* net.Listen binds the path, which must be free... *)
Listen(i) ==
    /\ stage[i] = "listen"
    /\ path = Nobody
    /\ path' = i
    /\ open' = [open EXCEPT ![i] = TRUE]
    /\ stage' = [stage EXCEPT ![i] = "notify"]
    /\ UNCHANGED <<acceptor, errCh, signalled, result, overlapped, askedFirst>>

(* ... and otherwise fails: ServeUnix returns, main panics. *)
ListenFails(i) ==
    /\ stage[i] = "listen"
    /\ path # Nobody
    /\ stage' = [stage EXCEPT ![i] = "gone"]
    /\ result' = [result EXCEPT ![i] = "listen"]
    /\ UNCHANGED <<path, open, acceptor, errCh, signalled, overlapped, askedFirst>>

(* signal.NotifyContext, and the accept loop is started.  (RegisterName,     *)
(* before it, fails only for a type that is no service: this one is.)        *)
Notify(i) ==
    /\ stage[i] = "notify"
    /\ stage' = [stage EXCEPT ![i] = "serve"]
    /\ acceptor' = [acceptor EXCEPT ![i] = "accept"]
    /\ UNCHANGED <<path, open, errCh, signalled, result, overlapped, askedFirst>>

(* SIGINT or SIGTERM while the handler is on cancels the context; at any     *)
(* other moment the signal kills the process, as Crash does.                 *)
Signal(i) ==
    /\ stage[i] = "serve"
    /\ ~signalled[i]
    /\ signalled' = [signalled EXCEPT ![i] = TRUE]
    /\ askedFirst' = [askedFirst EXCEPT ![i] = acceptor[i] \in {"accept", "failed"}]
    /\ UNCHANGED <<stage, path, open, acceptor, errCh, result, overlapped>>

(* Accept fails on an open listener: out of descriptors, aborted connection. *)
AcceptFails(i) ==
    /\ acceptor[i] = "accept"
    /\ open[i]
    /\ acceptor' = [acceptor EXCEPT ![i] = "failed"]
    /\ UNCHANGED <<stage, path, open, errCh, signalled, result, overlapped, askedFirst>>

(* Accept fails because the listener was closed. *)
AcceptClosed(i) ==
    /\ acceptor[i] = "accept"
    /\ ~open[i]
    /\ acceptor' = [acceptor EXCEPT ![i] = "failed"]
    /\ UNCHANGED <<stage, path, open, errCh, signalled, result, overlapped, askedFirst>>

(* Mutant of Judge: the error is taken for one whether or not ctx is done. *)
JudgeBlindly(i) ==
    /\ acceptor[i] = "failed"
    /\ acceptor' = [acceptor EXCEPT ![i] = "err"]
    /\ UNCHANGED <<stage, path, open, errCh, signalled, result, overlapped, askedFirst>>

(* The select of the accept loop: nil if the process was asked to stop...    *)
Judge(i) ==
    /\ acceptor[i] = "failed"
    /\ acceptor' = [acceptor EXCEPT ![i] = IF signalled[i] THEN "nil" ELSE "err"]
    /\ UNCHANGED <<stage, path, open, errCh, signalled, result, overlapped, askedFirst>>

(* ... and the send, a step of its own: a signal may come before it. *)
Report(i) ==
    /\ acceptor[i] \in {"nil", "err"}
    /\ errCh' = [errCh EXCEPT ![i] = acceptor[i]]
    /\ acceptor' = [acceptor EXCEPT ![i] = "done"]
    /\ UNCHANGED <<stage, path, open, signalled, result, overlapped, askedFirst>>

(* Mutant of Stop: only the report of the accept loop is waited for. *)
StopOnReport(i) ==
    /\ stage[i] = "serve"
    /\ signalled[i]
    /\ errCh[i] # "empty"
    /\ result' = [result EXCEPT ![i] = "nil"]
    /\ stage' = [stage EXCEPT ![i] = "unlink"]
    /\ UNCHANGED <<path, open, acceptor, errCh, signalled, overlapped, askedFirst>>

(* Mutant of Stop: os.Exit instead of a return, the deferred calls do not run. *)
StopByExit(i) ==
    /\ stage[i] = "serve"
    /\ signalled[i]
    /\ result' = [result EXCEPT ![i] = "nil"]
    /\ stage' = [stage EXCEPT ![i] = "gone"]
    /\ open' = [open EXCEPT ![i] = FALSE]
    /\ UNCHANGED <<path, acceptor, errCh, signalled, overlapped, askedFirst>>

(* The select at the end of ServeUnix; with both ready it may take either. *)
Stop(i) ==
    /\ stage[i] = "serve"
    /\ signalled[i]
    /\ result' = [result EXCEPT ![i] = "nil"]
    /\ stage' = [stage EXCEPT ![i] = "unlink"]
    /\ UNCHANGED <<path, open, acceptor, errCh, signalled, overlapped, askedFirst>>

ReturnReport(i) ==
    /\ stage[i] = "serve"
    /\ errCh[i] # "empty"
    /\ result' = [result EXCEPT ![i] = errCh[i]]
    /\ stage' = [stage EXCEPT ![i] = "unlink"]
    /\ UNCHANGED <<path, open, acceptor, errCh, signalled, overlapped, askedFirst>>

(* ln.Close of a unix listener removes the path by its name, whosever socket *)
(* it names by now, and then closes the descriptor...                        *)
Unlink(i) ==
    /\ stage[i] = "unlink"
    /\ path' = Nobody
    /\ stage' = [stage EXCEPT ![i] = "close"]
    /\ UNCHANGED <<open, acceptor, errCh, signalled, result, overlapped, askedFirst>>

CloseListener(i) ==
    /\ stage[i] = "close"
    /\ open' = [open EXCEPT ![i] = FALSE]
    /\ stage' = [stage EXCEPT ![i] = "again"]
    /\ UNCHANGED <<path, acceptor, errCh, signalled, result, overlapped, askedFirst>>

(* ... and the deferred os.Remove does it by name once more. *)
RemoveAgain(i) ==
    /\ stage[i] = "again"
    /\ path' = Nobody
    /\ stage' = [stage EXCEPT ![i] = "gone"]
    /\ UNCHANGED <<open, acceptor, errCh, signalled, result, overlapped, askedFirst>>

(* The process is killed, or panics, anywhere: its socket stays behind. *)
Crash(i) ==
    /\ Alive(i)
    /\ stage' = [stage EXCEPT ![i] = "gone"]
    /\ open' = [open EXCEPT ![i] = FALSE]
    /\ result' = [result EXCEPT ![i] = "killed"]
    /\ UNCHANGED <<path, acceptor, errCh, signalled, overlapped, askedFirst>>

(* The accept loop dies with its process. *)
AcceptStep(i) ==
    Alive(i) /\ (AcceptFails(i) \/ AcceptClosed(i) \/ Judge(i) \/ Report(i))

(* What the process does by itself, whatever its environment does. *)
Internal(i) ==
    \/ Remove(i)
    \/ Listen(i)
    \/ ListenFails(i)
    \/ Notify(i)
    \/ Stop(i)
    \/ ReturnReport(i)
    \/ Unlink(i)
    \/ CloseListener(i)
    \/ RemoveAgain(i)

ServeNext ==
    \E i \in Instances : Start(i) \/ Internal(i) \/ AcceptStep(i) \/ Signal(i) \/ Crash(i)

(* A goroutine that can take a step is scheduled. *)
ServeSpec ==
    /\ ServeInit
    /\ [][ServeNext]_serveVars
    /\ \A i \in Instances : /\ WF_serveVars(Internal(i))
                            /\ WF_serveVars(Alive(i) /\ (Judge(i) \/ Report(i)))

-----------------------------------------------------------------------------
ServeTypeOK ==
    /\ stage \in [Instances -> {"down", "remove", "listen", "notify", "serve", "unlink",
                             "close", "again", "gone"}]
    /\ path \in Instances \union {Nobody}
    /\ open \in [Instances -> BOOLEAN]
    /\ acceptor \in [Instances -> {"none", "accept", "failed", "nil", "err", "done"}]
    /\ errCh \in [Instances -> {"empty", "nil", "err"}]
    /\ signalled \in [Instances -> BOOLEAN]
    /\ result \in [Instances -> {"none", "nil", "err", "listen", "killed"}]
    /\ overlapped \in [Instances -> BOOLEAN]
    /\ askedFirst \in [Instances -> BOOLEAN]

(* A process that shares its life with no other is reachable from the moment *)
(* it listens until it closes its listener, whatever earlier processes left  *)
(* at the path: stale sockets of crashed ones do not stop or divert it.      *)
(* (With overlapping lives it fails: the older process removes the younger   *)
(* one's socket by name when it stops.)                                      *)
Reachable ==
    \A i \in Instances :
        stage[i] \in {"notify", "serve"} /\ ~overlapped[i] => Reached(i)

(* A plugin that is asked to stop before its accept loop has judged a failed *)
(* Accept ends without an error, whatever the loop sees from then on and     *)
(* whichever of the two goroutines is first.  And it never ends quietly      *)
(* unless it was asked to.  (A signal that comes once the loop's select has  *)
(* taken its default branch, before or after the error is sent, is not       *)
(* covered: the last select may then return that error, and main panics for  *)
(* what may have been a plain SIGTERM.)                                      *)
CleanStop ==
    \A i \in Instances :
        /\ askedFirst[i] => result[i] \in {"none", "nil", "killed"}
        /\ result[i] = "nil" => signalled[i]

(* A process that nobody killed leaves no socket of its own at the path. *)
NothingStale ==
    \A i \in Instances :
        stage[i] = "gone" /\ result[i] \in {"nil", "err", "listen"} => path # i

(* A started process comes to serve, unless it is killed or another process  *)
(* shares its life: it does not matter that an earlier one crashed.          *)
ComesUp ==
    \A i \in Instances :
        stage[i] = "remove" ~> \/ (stage[i] = "serve" /\ Reached(i))
                            \/ result[i] = "killed"
                            \/ overlapped[i]

(* A process that was signalled ends, and nothing waits on anything. *)
StopsWhenAsked ==
    \A i \in Instances : signalled[i] ~> stage[i] = "gone"
=============================================================================
