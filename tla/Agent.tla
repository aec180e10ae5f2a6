------------------------------- MODULE Agent -------------------------------
(***************************************************************************)
(* The life of an agent, internal/agent/agent.go: New sets its parts up    *)
(* one after the other, and Shutdown, which the program, the goroutine of  *)
(* cmux and the goroutine of the gRPC server may all call, takes them down *)
(* in an order that matters.                                               *)
(*                                                                         *)
(* A part is "none" before its setup, then "open" and finally "closed".    *)
(* cmux, gRPC and serf are libraries: all listeners of the mux are one     *)
(* socket, so that GracefulStop, which closes the listener of the server,  *)
(* ends the mux too; GracefulStop takes no new call and waits for those    *)
(* that run.                                                               *)
(***************************************************************************)
EXTENDS Naturals

CONSTANTS
    Users,      \* the goroutines of the program that call Shutdown, once each
    Mux, Grpc,  \* the goroutines of New: a.serve and the one in setupServer
    NoCaller,   \* shutdownLock is free
    Calls,      \* RPCs that clients make
    MaxFaults   \* bound on the operations that fail

Callers == Users \cup {Mux, Grpc}

ASSUME AgentAssumption ==
    /\ Mux \notin Users /\ Grpc \notin Users /\ Mux # Grpc
    /\ NoCaller \notin Callers
    /\ MaxFaults \in Nat

VARIABLES
    setup,     \* the function of New that runs next
    listener, log, server, membership,  \* the parts
    mux,       \* cmux: "none", "serving" or "returned"
    calls,     \* the RPCs whose handler runs
    shutdown, shutdownLock,
    pc,        \* where each caller is in Shutdown
    faults     \* how much of the bound is used

parts == <<listener, log, server, membership>>
vars  == <<setup, parts, mux, calls, shutdown, shutdownLock, pc, faults>>

Fault == faults < MaxFaults /\ faults' = faults + 1

-----------------------------------------------------------------------------
(* New.  When a step fails New returns the error and what was set up stays *)
(* as it is; WaitForLeader fails with the log open already.                *)

Setup(from, to) == setup = from /\ setup' = to

SetupFails ==
    /\ setup \in {"mux", "log", "server", "membership"}
    /\ setup' = "failed"
    /\ log' \in {log} \cup (IF setup = "log" THEN {"open"} ELSE {})
    /\ Fault
    /\ UNCHANGED <<listener, server, membership, mux, calls, shutdown, shutdownLock, pc>>

setupMux ==
    /\ Setup("mux", "log")
    /\ listener' = "open"
    /\ UNCHANGED <<log, server, membership, mux, calls, shutdown, shutdownLock, pc, faults>>

setupLog ==
    /\ Setup("log", "server")
    /\ log' = "open"
    /\ UNCHANGED <<listener, server, membership, mux, calls, shutdown, shutdownLock, pc, faults>>

(* Mutant: the mux serves before the agent is complete.                    *)
setupServerServes ==
    /\ Setup("server", "membership")
    /\ server' = "open"
    /\ mux' = "serving"
    /\ UNCHANGED <<listener, log, membership, calls, shutdown, shutdownLock, pc, faults>>

setupServer ==
    /\ Setup("server", "membership")
    /\ server' = "open"
    /\ UNCHANGED <<listener, log, membership, mux, calls, shutdown, shutdownLock, pc, faults>>

(* The last step, and go a.serve().                                        *)
setupMembership ==
    /\ Setup("membership", "done")
    /\ membership' = "open"
    /\ mux' = "serving"
    /\ UNCHANGED <<listener, log, server, calls, shutdown, shutdownLock, pc, faults>>

-----------------------------------------------------------------------------
(* The environment: calls come over the mux, and go on until the client or *)
(* the handler ends them; the socket may break.                            *)

CallBegins(x) ==
    /\ mux # "none" /\ server = "open" /\ x \notin calls
    /\ calls' = calls \cup {x}
    /\ UNCHANGED <<setup, parts, mux, shutdown, shutdownLock, pc, faults>>

CallEnds(x) ==
    /\ x \in calls
    /\ calls' = calls \ {x}
    /\ UNCHANGED <<setup, parts, mux, shutdown, shutdownLock, pc, faults>>

SocketFails ==
    /\ listener = "open"
    /\ Fault
    /\ listener' = "closed"
    /\ UNCHANGED <<setup, log, server, membership, mux, calls, shutdown, shutdownLock, pc>>

-----------------------------------------------------------------------------
(* Who calls Shutdown.                                                     *)

Enter(c) ==
    /\ pc[c] = "idle"
    /\ pc' = [pc EXCEPT ![c] = "lock"]
    /\ UNCHANGED <<setup, parts, calls, shutdown, shutdownLock, faults>>

UserShutdown(c) == setup = "done" /\ Enter(c) /\ UNCHANGED mux

(* a.serve: mux.Serve returns when the socket is closed.                   *)
MuxReturns ==
    /\ mux = "serving" /\ listener = "closed"
    /\ mux' = "returned"
    /\ Enter(Mux)

(* server.Serve returns an error when the mux is gone, and none when the   *)
(* server was stopped.                                                     *)
GrpcReturns ==
    /\ mux = "returned" /\ server = "open"
    /\ Enter(Grpc)
    /\ UNCHANGED mux

-----------------------------------------------------------------------------
(* Shutdown.  The flag is set before anything is done, so that a call      *)
(* after one that failed does nothing.                                     *)

(* Mutant: the lock covers the flag only.                                  *)
ShutdownBeginsUnlocked(c) ==
    /\ pc[c] = "lock" /\ shutdownLock = NoCaller
    /\ shutdown' = TRUE
    /\ pc' = [pc EXCEPT ![c] = IF shutdown THEN "nil" ELSE "leave"]
    /\ UNCHANGED <<setup, parts, mux, calls, shutdownLock, faults>>

ShutdownBegins(c) ==
    /\ pc[c] = "lock" /\ shutdownLock = NoCaller
    /\ shutdown' = TRUE
    /\ IF shutdown
       THEN pc' = [pc EXCEPT ![c] = "nil"] /\ UNCHANGED shutdownLock
       ELSE pc' = [pc EXCEPT ![c] = "leave"] /\ shutdownLock' = c
    /\ UNCHANGED <<setup, parts, mux, calls, faults>>

(* Mutant: the lock is released on success only.                           *)
ReturnsLocked(c, result) ==
    /\ pc' = [pc EXCEPT ![c] = result]
    /\ shutdownLock' = IF result = "nil" THEN NoCaller ELSE shutdownLock

Returns(c, result) ==
    /\ pc' = [pc EXCEPT ![c] = result]
    /\ shutdownLock' = NoCaller

(* An error of Leave or of Close ends Shutdown there.                      *)
ShutdownFails(c) ==
    /\ pc[c] \in {"leave", "close"}
    /\ Fault
    /\ Returns(c, "error")
    /\ UNCHANGED <<setup, parts, mux, calls, shutdown>>

ShutdownLeaves(c) ==
    /\ pc[c] = "leave"
    /\ membership' = "closed"
    /\ pc' = [pc EXCEPT ![c] = "stop"]
    /\ UNCHANGED <<setup, listener, log, server, mux, calls, shutdown, shutdownLock, faults>>

(* server.GracefulStop: no more calls, then the wait for those that run.   *)
ShutdownStops(c) ==
    /\ pc[c] = "stop"
    /\ listener' = "closed" /\ server' = "closed"
    /\ pc' = [pc EXCEPT ![c] = "drain"]
    /\ UNCHANGED <<setup, log, membership, mux, calls, shutdown, shutdownLock, faults>>

(* Mutant: Stop in the place of GracefulStop.                              *)
DrainedAtOnce == TRUE

Drained == calls = {}

ShutdownDrains(c) ==
    /\ pc[c] = "drain" /\ Drained
    /\ pc' = [pc EXCEPT ![c] = "close"]
    /\ UNCHANGED <<setup, parts, mux, calls, shutdown, shutdownLock, faults>>

ShutdownCloses(c) ==
    /\ pc[c] = "close"
    /\ log' = "closed"
    /\ Returns(c, "nil")
    /\ UNCHANGED <<setup, listener, server, membership, mux, calls, shutdown, faults>>

-----------------------------------------------------------------------------
Init ==
    /\ setup = "mux"
    /\ listener = "none" /\ log = "none" /\ server = "none" /\ membership = "none"
    /\ mux = "none"
    /\ calls = {}
    /\ shutdown = FALSE /\ shutdownLock = NoCaller
    /\ pc = [c \in Callers |-> "idle"]
    /\ faults = 0

Proceeds(c) ==
    \/ ShutdownBegins(c) \/ ShutdownFails(c) \/ ShutdownLeaves(c)
    \/ ShutdownStops(c) \/ ShutdownDrains(c) \/ ShutdownCloses(c)

Next ==
    \/ setupMux \/ setupLog \/ setupServer \/ setupMembership \/ SetupFails
    \/ \E x \in Calls : CallBegins(x) \/ CallEnds(x)
    \/ SocketFails \/ MuxReturns \/ GrpcReturns
    \/ \E c \in Users : UserShutdown(c)
    \/ \E c \in Callers : Proceeds(c)

Spec == Init /\ [][Next]_vars

(* A caller goes on, and gets the lock when it is released (sync.Mutex     *)
(* does not starve a waiter).  Nothing is assumed of the calls that run: a *)
(* ConsumeStream at the end of the log goes round until its client goes.   *)
FairSpec ==
    /\ Spec
    /\ WF_vars(MuxReturns)
    /\ \A c \in Callers : SF_vars(Proceeds(c))

-----------------------------------------------------------------------------
Part == {"none", "open", "closed"}

Inside == {"leave", "stop", "drain", "close"}

LockHeld == \A c \in Callers : pc[c] \in Inside <=> shutdownLock = c

(* Shape of the state; the lock is with the caller that is inside.         *)
TypeOK ==
    /\ setup \in {"mux", "log", "server", "membership", "done", "failed"}
    /\ listener \in Part /\ log \in Part /\ server \in Part /\ membership \in Part
    /\ mux \in {"none", "serving", "returned"}
    /\ calls \subseteq Calls
    /\ shutdown \in BOOLEAN /\ shutdownLock \in Callers \cup {NoCaller}
    /\ pc \in [Callers -> Inside \cup {"idle", "lock", "nil", "error"}]
    /\ LockHeld
    /\ faults \in 0 .. MaxFaults

(* No handler of the gRPC server runs on a log that is closed or not there *)
(* yet (agent.go, New and Shutdown).                                       *)
HandlersHaveLog == calls # {} => log = "open"

(* Nobody gets to a.membership.Leave before the membership is set: it      *)
(* would call through a nil pointer (agent.go, New, setupServer, serve).   *)
MembershipSet == \A c \in Callers : pc[c] = "leave" => membership # "none"

(* When nothing failed, each Shutdown that returned nil, the first and the *)
(* ones that found the flag set, returned after all was shut down          *)
(* (agent.go, Shutdown).                                                   *)
NilMeansClosed ==
    (\E c \in Callers : pc[c] = "nil") /\ faults = 0 =>
        membership = "closed" /\ server = "closed" /\ log = "closed" /\ calls = {}

(* If no RPC runs for ever, every call of Shutdown returns, whoever else   *)
(* calls it and whatever fails (agent.go, Shutdown, serve, setupServer).   *)
(* The premise is needed: GracefulStop does not end a waiting stream.      *)
ShutdownReturns ==
    (\A x \in Calls : []<>(x \notin calls)) =>
        \A c \in Callers : pc[c] = "lock" ~> pc[c] \in {"nil", "error"}
=============================================================================
