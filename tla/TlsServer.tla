------------------------------ MODULE TlsServer ------------------------------
(***************************************************************************)
(* The listener of the TLS server: admission, the task of each connection, *)
(* shutdown and the expiry of the certificate                              *)
(* (crates/azihsm-tls-server/src/server.rs:86), and the release of the key *)
(* and the state lock after it (lib.rs:28).                                *)
(*                                                                         *)
(* Time is a clock of whole units.  A task that could go on without its    *)
(* client does so before the clock moves: delays of the scheduler are      *)
(* shorter than a unit.  The exception is the signature of a handshake,    *)
(* which blocks its thread in the provider (tls.rs:50): no timer fires and *)
(* no abort takes effect until it returns, however long that takes.        *)
(***************************************************************************)
EXTENDS Integers, FiniteSets, FiniteSetsExt

CONSTANTS
  Conns,             \* sockets of clients
  MaxConnections,    \* admission permits
  Expiry,            \* when the certificate expires
  HandshakeTimeout, ReadTimeout, WriteTimeout, DrainTimeout,
  Horizon            \* bound: where the clock of the model stops

ASSUME TimesAreNaturals ==
  {MaxConnections, Expiry, HandshakeTimeout, ReadTimeout, WriteTimeout,
   DrainTimeout, Horizon} \subseteq Nat
ASSUME HorizonPastExpiry == Expiry < Horizon

\* A drain takes as long as a handshake or a write may, ten seconds each.
ASSUME DrainCovers ==
  DrainTimeout > 0 /\ HandshakeTimeout <= DrainTimeout /\ WriteTimeout <= DrainTimeout

VARIABLES
  now,     \* the clock
  phase,   \* where run() is
  drain,   \* the end of the drain, once it is announced
  conn,    \* what the task of each connection does
  due,     \* the deadline of what it waits for
  held     \* the key session and the state lock

vars == <<now, phase, drain, conn, due, held>>

Phases  == {"starting", "accepting", "draining", "aborting", "stopped"}
Waiting == {"handshake", "finishing", "reading", "writing", "closing"}
Active  == Waiting \cup {"signing"}

Init ==
  /\ now \in 0..Expiry /\ phase = "starting" /\ drain = Expiry
  /\ conn = [c \in Conns |-> "none"] /\ due = [c \in Conns |-> 0]
  /\ held = TRUE

\* The drain has been announced on the watch channel, or the channel is gone.
ShuttingDown == phase \in {"draining", "aborting", "stopped"}

-----------------------------------------------------------------------------
(* Deadlines.                                                              *)

\* Variant: the deadline is not clamped to the expiry.
UnclampedDeadline(timeout) == now + timeout

OperationDeadline(timeout) == Min({now + timeout, Expiry, drain})
HandshakeDeadline == Min({now + HandshakeTimeout, Expiry})

\* Closing is not cut short by the end of the drain.
CloseDeadline == Min({now + WriteTimeout, Expiry})

\* Variant: the drain is shorter than what a handshake or a write may take.
HastyDrainEnd == Min({now + DrainTimeout - 1, Expiry})

DrainEnd == Min({now + DrainTimeout, Expiry})

-----------------------------------------------------------------------------
(* The task of one connection (serve_connection).                          *)

To(c, state, deadline) ==
  /\ conn' = [conn EXCEPT ![c] = state]
  /\ due' = [due EXCEPT ![c] = deadline]
  /\ UNCHANGED <<now, phase, drain, held>>

\* The task returns and its permit with it.
End(c) == To(c, "none", 0)

\* The loop takes a socket and spawns its task, which looks at the expiry
\* first.  Without a permit the socket is dropped and nothing changes.
Admit(c) ==
  /\ phase = "accepting" /\ conn[c] = "none"
  /\ Cardinality({d \in Conns : conn[d] \in Active}) < MaxConnections
  /\ now < Expiry
  /\ To(c, "handshake", HandshakeDeadline)

\* The hello of the client is there: CertificateVerify is signed.
Sign(c) == conn[c] = "handshake" /\ To(c, "signing", due[c])

\* Variant: a task in the provider survives the abort of its set.
SignedGoesOn(c) ==
  /\ conn[c] = "signing"
  /\ To(c, "finishing", due[c]) \/ End(c)

Signed(c) ==
  /\ conn[c] = "signing"
  /\ \/ phase \notin {"aborting", "stopped"} /\ To(c, "finishing", due[c])
     \/ End(c)

\* The handshake is complete; a shutdown announced meanwhile is seen next.
Finish(c) ==
  /\ conn[c] = "finishing"
  /\ IF now >= Expiry THEN End(c)
                      ELSE To(c, "reading", OperationDeadline(ReadTimeout))

\* A whole frame arrived.  It is answered unless the certificate has expired;
\* select! may prefer it to a shutdown that is announced as well.
Answer(c) ==
  /\ conn[c] = "reading"
  /\ IF now >= Expiry THEN End(c)
                      ELSE To(c, "writing", OperationDeadline(WriteTimeout))

\* The client took the whole answer.
Answered(c) ==
  /\ conn[c] = "writing" /\ To(c, "reading", OperationDeadline(ReadTimeout))

\* The client closes, or the shutdown is noticed between two frames.
Close(c) ==
  /\ conn[c] = "reading"
  /\ IF now >= Expiry THEN End(c) ELSE To(c, "closing", CloseDeadline)

\* An oversized or broken frame, a failed handshake, a client that is gone, or
\* a close_notify that was sent.
Fail(c) == conn[c] \in Waiting /\ End(c)

TimeOut(c) == conn[c] \in Waiting /\ now >= due[c] /\ End(c)

-----------------------------------------------------------------------------
(* The loop of run() and what follows it.                                  *)

Loop(next, deadline) ==
  /\ phase' = next /\ drain' = deadline
  /\ UNCHANGED <<now, conn, due, held>>

\* remaining <= 0, or the address cannot be bound.
Start ==
  /\ phase = "starting"
  /\ \/ now < Expiry /\ Loop("accepting", drain)
     \/ Loop("aborting", drain)

CtrlC  == phase = "accepting" /\ Loop("draining", DrainEnd)

\* Variant: the expiry is looked at only when a connection has something to do.
ExpireWhenBusy ==
  /\ phase = "accepting" /\ now >= Expiry /\ \E c \in Conns : conn[c] # "none"
  /\ Loop("draining", now)

Expire == phase = "accepting" /\ now >= Expiry /\ Loop("draining", now)

\* abort_all drops every task that is not inside the provider.
Abort == [c \in Conns |-> IF conn[c] = "signing" THEN "signing" ELSE "none"]

EndDrain ==
  /\ phase = "draining"
  /\ now >= drain \/ \A c \in Conns : conn[c] = "none"
  /\ phase' = "aborting" /\ conn' = Abort /\ UNCHANGED <<now, drain, due, held>>

\* An error of accept() or of the signal handler returns from run() without a
\* drain; the task set is dropped, which aborts its tasks.
AcceptFails ==
  /\ phase = "accepting"
  /\ phase' = "aborting" /\ conn' = Abort /\ UNCHANGED <<now, drain, due, held>>

\* Every task is joined, here or by the end of the runtime.
Join ==
  /\ phase = "aborting" /\ \A c \in Conns : conn[c] = "none"
  /\ phase' = "stopped" /\ UNCHANGED <<now, drain, conn, due, held>>

\* Variant: the identity goes with run(), before the runtime.
ReleaseEarly ==
  /\ held /\ phase \in {"aborting", "stopped"} /\ held' = FALSE
  /\ UNCHANGED <<now, phase, drain, conn, due>>

\* main drops the identity after run() and the runtime.
Release ==
  /\ held /\ phase = "stopped" /\ held' = FALSE
  /\ UNCHANGED <<now, phase, drain, conn, due>>

\* Someone still has something to do at this instant.
Pressing ==
  \/ phase = "accepting" /\ now >= Expiry
  \/ phase = "draining" /\ (now >= drain \/ \A c \in Conns : conn[c] = "none")
  \/ \E c \in Conns :
       \/ conn[c] \in Waiting /\ now >= due[c]
       \/ conn[c] = "reading" /\ ShuttingDown

Tick ==
  /\ now < Horizon /\ ~Pressing
  /\ now' = now + 1 /\ UNCHANGED <<phase, drain, conn, due, held>>

Client(c) == Sign(c) \/ Finish(c) \/ Answer(c) \/ Answered(c) \/ Fail(c)
Task(c) == Signed(c) \/ Close(c) \/ TimeOut(c)
Main == Start \/ Expire \/ EndDrain \/ Join \/ Release

Next ==
  \/ Tick \/ Main \/ CtrlC \/ AcceptFails
  \/ \E c \in Conns : Admit(c) \/ Client(c) \/ Task(c)

Spec == Init /\ [][Next]_vars

\* Time passes, the thread of run() runs, the provider returns, timers fire and
\* a shutdown is noticed in the end, since select! draws among the branches that
\* are ready.  Nothing is assumed of clients and operators.
FairSpec ==
  Spec /\ WF_vars(Tick) /\ WF_vars(Main)
       /\ \A c \in Conns : WF_vars(Signed(c)) /\ WF_vars(TimeOut(c))
                             /\ SF_vars(ShuttingDown /\ Close(c))

-----------------------------------------------------------------------------
(* Properties.                                                             *)

TypeOK ==
  /\ now \in 0..Horizon /\ phase \in Phases /\ drain \in 0..Horizon
  /\ conn \in [Conns -> {"none"} \cup Active] /\ due \in [Conns -> 0..Expiry]
  /\ held \in BOOLEAN

\* Once the certificate has expired no connection is served, whatever it was
\* doing: only signatures that the provider has not returned are left.
NothingServedExpired ==
  now > Expiry => \A c \in Conns : conn[c] \in {"none", "signing"}

\* The session of the key and the lock of the directory are not released while
\* a task may still use them, whichever way run() ended.
KeyOutlivesTasks == held \/ \A c \in Conns : conn[c] = "none"

\* A drain that is not cut by the expiry ends no handshake and no answer before
\* its own deadline: the ten seconds are enough for what was under way, and for
\* each answer that began during the drain.
CutOnlyOverdue ==
  [][phase = "draining" /\ phase' = "aborting" /\ drain < Expiry =>
       \A c \in Conns :
         conn[c] \in {"handshake", "finishing", "reading", "writing"} => due[c] <= now]_vars

\* The server stops when it is asked to and when its certificate expires, and
\* then gives up key and lock, however clients behave.
Stops == <>(phase = "stopped" /\ ~held)
=============================================================================
