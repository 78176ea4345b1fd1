--------------------------- MODULE TlsServerProofs ---------------------------
(***************************************************************************)
(* What the listener keeps at every step, for any number of clients and    *)
(* permits, any timeouts, and any moment at which the certificate expires. *)
(***************************************************************************)
EXTENDS TlsServer, TLAPS

\* A finite choice of deadlines: the least is one of them, and no later than any.
LEMMA LeastOfThree ==
  ASSUME NEW a \in Nat, NEW b \in Nat, NEW c \in Nat
  PROVE  /\ Min({a, b, c}) \in {a, b, c}
         /\ Min({a, b, c}) <= a /\ Min({a, b, c}) <= b /\ Min({a, b, c}) <= c
PROOF
  <1>1. \E x \in {a, b, c} : \A y \in {a, b, c} : x =< y
    <2>1. CASE a <= b /\ a <= c
      BY <2>1
    <2>2. CASE b <= a /\ b <= c
      BY <2>2
    <2>3. CASE c <= a /\ c <= b
      BY <2>3
    <2> QED BY <2>1, <2>2, <2>3
  <1> QED BY <1>1 DEF Min

LEMMA LeastOfTwo ==
  ASSUME NEW a \in Nat, NEW b \in Nat
  PROVE  /\ Min({a, b}) \in {a, b}
         /\ Min({a, b}) <= a /\ Min({a, b}) <= b
PROOF
  <1>1. {a, b} = {a, b, b}
    OBVIOUS
  <1> QED BY <1>1, LeastOfThree

\* Every deadline is a time, and none is later than the expiry.
LEMMA Deadlines ==
  ASSUME TypeOK
  PROVE  /\ HandshakeDeadline \in 0..Expiry /\ HandshakeDeadline <= now + HandshakeTimeout
         /\ CloseDeadline \in 0..Expiry
         /\ DrainEnd \in 0..Expiry
         /\ DrainEnd < Expiry => DrainEnd = now + DrainTimeout
         /\ \A t \in {ReadTimeout, WriteTimeout} :
              /\ OperationDeadline(t) \in 0..Expiry
              /\ OperationDeadline(t) <= now + t /\ OperationDeadline(t) <= drain
PROOF
  <1>1. /\ now \in Nat /\ drain \in Nat /\ Expiry \in Nat
        /\ HandshakeTimeout \in Nat /\ WriteTimeout \in Nat
        /\ ReadTimeout \in Nat /\ DrainTimeout \in Nat
    BY TimesAreNaturals DEF TypeOK
  <1>2. \A t \in {HandshakeTimeout, WriteTimeout, DrainTimeout} :
          /\ Min({now + t, Expiry}) \in 0..Expiry /\ Min({now + t, Expiry}) <= now + t
          /\ Min({now + t, Expiry}) \in {now + t, Expiry}
    <2> TAKE t \in {HandshakeTimeout, WriteTimeout, DrainTimeout}
    <2>1. now + t \in Nat
      BY <1>1
    <2> QED BY <1>1, <2>1, LeastOfTwo
  <1>3. ASSUME NEW t \in {ReadTimeout, WriteTimeout}
        PROVE  /\ OperationDeadline(t) \in 0..Expiry
               /\ OperationDeadline(t) <= now + t /\ OperationDeadline(t) <= drain
    <2>1. now + t \in Nat
      BY <1>1
    <2> QED BY <1>1, <2>1, LeastOfThree DEF OperationDeadline
  <1> QED BY <1>1, <1>2, <1>3 DEF HandshakeDeadline, CloseDeadline, DrainEnd

-----------------------------------------------------------------------------
(* The inductive invariant.                                                *)

\* What follows from where run() is: the expiry has not passed while it accepts
\* or drains, since both end at that instant, and no task outlives the join.
Staged ==
  /\ phase \in {"accepting", "draining"} => now <= Expiry
  /\ phase \in {"starting", "accepting", "draining"} => drain <= Expiry
  /\ phase = "aborting" => \A c \in Conns : conn[c] \in {"none", "signing"}
  /\ phase \in {"starting", "stopped"} => \A c \in Conns : conn[c] = "none"
  /\ held \/ phase = "stopped"

\* Before the drain a handshake and an answer are due within their timeout, and
\* in it before its end; a reader that is due later is dismissed at once.
Timely ==
  /\ phase = "accepting" =>
       \A c \in Conns :
         /\ conn[c] \in {"handshake", "signing", "finishing"} => due[c] <= now + HandshakeTimeout
         /\ conn[c] = "writing" => due[c] <= now + WriteTimeout
  /\ phase = "draining" /\ drain < Expiry =>
       \A c \in Conns :
         /\ conn[c] \in {"handshake", "signing", "finishing", "writing"} => due[c] <= drain
         /\ conn[c] = "reading" => due[c] <= drain \/ now < drain

Inv == TypeOK /\ Staged /\ Timely

LEMMA InitInv == Init => Inv
PROOF
  BY TimesAreNaturals, HorizonPastExpiry
     DEF Init, Inv, TypeOK, Staged, Timely, Phases

\* Time passes.
LEMMA TickInv == Inv /\ Tick => Inv'
PROOF
  <1> SUFFICES ASSUME Inv, Tick PROVE Inv'
    OBVIOUS
  <1> USE TimesAreNaturals, HorizonPastExpiry DEF Inv, Tick
  <1>1. TypeOK'
    BY DEF TypeOK
  <1>2. Staged'
    <2>1. CASE phase \in {"accepting", "draining"}
      <3>1. now < Expiry
        BY <2>1 DEF Pressing, Staged, TypeOK
      <3> QED BY <2>1, <3>1 DEF Staged, TypeOK
    <2> QED BY <2>1 DEF Staged
  <1>3. Timely'
    <2>1. ASSUME phase = "accepting", NEW c \in Conns
          PROVE  /\ conn[c] \in {"handshake", "signing", "finishing"} => due[c] <= now + 1 + HandshakeTimeout
                 /\ conn[c] = "writing" => due[c] <= now + 1 + WriteTimeout
      BY <2>1 DEF Timely, TypeOK
    <2>2. ASSUME phase = "draining", NEW c \in Conns PROVE conn[c] # "reading"
      BY <2>2 DEF Pressing, ShuttingDown
    <2> QED BY <2>1, <2>2 DEF Timely
  <1> QED BY <1>1, <1>2, <1>3

\* The task of a connection goes to a state with its deadline.
LEMMA ToInv ==
  ASSUME Inv, NEW c \in Conns, NEW to \in {"none"} \cup Active, NEW d \in 0..Expiry, To(c, to, d),
         to # "none" => phase \in {"accepting", "draining"} \/ (phase = "aborting" /\ to = "signing"),
         to \in {"handshake", "signing", "finishing"} /\ phase = "accepting" => d <= now + HandshakeTimeout,
         to = "writing" /\ phase = "accepting" => d <= now + WriteTimeout,
         to \in {"handshake", "signing", "finishing", "reading", "writing"}
           /\ phase = "draining" /\ drain < Expiry => d <= drain
  PROVE  Inv'
PROOF
  <1> USE DEF Inv, To
  <1>1. TypeOK'
    BY DEF TypeOK
  <1>2. Staged'
    BY DEF Staged, TypeOK
  <1>3. Timely'
    <2>1. ASSUME NEW e \in Conns, e # c PROVE conn'[e] = conn[e] /\ due'[e] = due[e]
      BY <2>1 DEF TypeOK
    <2>2. conn'[c] = to /\ due'[c] = d
      BY DEF TypeOK
    <2> QED BY <2>1, <2>2 DEF Timely
  <1> QED BY <1>1, <1>2, <1>3

LEMMA EndInv == ASSUME Inv, NEW c \in Conns, End(c) PROVE Inv'
PROOF
  BY ToInv, TimesAreNaturals DEF End

\* A task in one of the states of a served connection has a run() that serves.
LEMMA Serving ==
  ASSUME Inv, NEW c \in Conns, conn[c] \in Waiting
  PROVE  phase \in {"accepting", "draining"}
PROOF
  BY DEF Inv, Staged, TypeOK, Phases, Waiting

LEMMA ConnInv ==
  ASSUME Inv, NEW c \in Conns, Admit(c) \/ Client(c) \/ Task(c)
  PROVE  Inv'
PROOF
  <1> USE Deadlines, TimesAreNaturals DEF Inv, Active, Waiting
  <1>d. due[c] \in 0..Expiry
    BY DEF TypeOK
  <1>1. CASE Admit(c)
    BY <1>1, ToInv DEF Admit
  <1>2. CASE Sign(c)
    BY <1>2, <1>d, Serving, ToInv DEF Sign, Timely
  <1>3. CASE Signed(c)
    BY <1>3, <1>d, ToInv, EndInv DEF Signed, Timely, TypeOK, Phases, Staged
  <1>4. CASE Finish(c)
    BY <1>4, Serving, ToInv, EndInv DEF Finish
  <1>5. CASE Answer(c)
    BY <1>5, Serving, ToInv, EndInv DEF Answer
  <1>6. CASE Answered(c)
    BY <1>6, Serving, ToInv DEF Answered
  <1>7. CASE Close(c)
    BY <1>7, Serving, ToInv, EndInv DEF Close
  <1>8. CASE Fail(c) \/ TimeOut(c)
    BY <1>8, EndInv DEF Fail, TimeOut
  <1> QED BY <1>1, <1>2, <1>3, <1>4, <1>5, <1>6, <1>7, <1>8 DEF Client, Task

\* What is left of the tasks when run() gives them up.
LEMMA AbortInv ==
  ASSUME Inv, phase' = "aborting", conn' = Abort, phase # "stopped",
         UNCHANGED <<now, drain, due, held>>
  PROVE  Inv'
PROOF
  <1>1. conn' \in [Conns -> {"none", "signing"}]
    BY DEF Abort
  <1> QED BY <1>1 DEF Inv, TypeOK, Staged, Timely, Phases, Active

LEMMA MainInv == Inv /\ (Main \/ CtrlC \/ AcceptFails) => Inv'
PROOF
  <1> SUFFICES ASSUME Inv, Main \/ CtrlC \/ AcceptFails PROVE Inv'
    OBVIOUS
  <1> USE TimesAreNaturals, HorizonPastExpiry
  <1>1. CASE Start
    <2> USE <1>1 DEF Start, Loop, Inv
    <2>1. TypeOK' /\ now <= Horizon
      BY DEF TypeOK, Phases
    <2>2. \A c \in Conns : conn'[c] = "none"
      BY DEF Staged
    <2>3. Staged'
      <3>1. now < Expiry => now <= Expiry
        BY DEF TypeOK
      <3>2. held /\ drain <= Expiry
        BY DEF Staged
      <3> QED BY <2>2, <3>1, <3>2 DEF Staged
    <2>4. Timely'
      BY <2>2 DEF Timely
    <2> QED BY <2>1, <2>3, <2>4
  <1>2. CASE CtrlC
    <2> USE <1>2 DEF CtrlC, Loop, Inv
    <2>1. TypeOK'
      BY Deadlines, HorizonPastExpiry DEF TypeOK, Phases
    <2>2. Staged'
      BY Deadlines DEF Staged
    <2>3. Timely'
      <3>1. ASSUME DrainEnd < Expiry, NEW c \in Conns
            PROVE  /\ conn[c] \in {"handshake", "signing", "finishing", "writing"} => due[c] <= DrainEnd
                   /\ now < DrainEnd
        BY <3>1, Deadlines, DrainCovers DEF Timely, TypeOK
      <3> QED BY <3>1 DEF Timely
    <2> QED BY <2>1, <2>2, <2>3
  <1>3. CASE Expire
    BY <1>3 DEF Expire, Loop, Inv, TypeOK, Staged, Timely, Phases
  <1>4. CASE EndDrain \/ AcceptFails
    BY <1>4, AbortInv DEF EndDrain, AcceptFails
  <1>5. CASE Join
    BY <1>5 DEF Join, Inv, TypeOK, Staged, Timely, Phases
  <1>6. CASE Release
    BY <1>6 DEF Release, Inv, TypeOK, Staged, Timely
  <1> QED BY <1>1, <1>2, <1>3, <1>4, <1>5, <1>6 DEF Main

LEMMA NextInv == Inv /\ [Next]_vars => Inv'
PROOF
  <1>1. Inv /\ UNCHANGED vars => Inv'
    BY DEF vars, Inv, TypeOK, Staged, Timely
  <1> QED BY <1>1, TickInv, MainInv, ConnInv DEF Next

-----------------------------------------------------------------------------
(* Theorems.                                                               *)

\* The clock, the deadlines and the tasks keep their types: no deadline of any
\* handshake, read, write or close is later than the expiry of the certificate.
THEOREM TypeCorrect == Spec => []TypeOK
PROOF
  <1>1. Inv => TypeOK
    BY DEF Inv
  <1> QED BY InitInv, NextInv, <1>1, PTL DEF Spec

\* A connection is never served with an expired certificate: run() has aborted
\* what was left at that instant, but for signatures inside the provider.
THEOREM NoServiceAfterExpiry == Spec => []NothingServedExpired
PROOF
  <1>1. Inv => NothingServedExpired
    BY TimesAreNaturals DEF Inv, TypeOK, Phases, Staged, NothingServedExpired
  <1> QED BY InitInv, NextInv, <1>1, PTL DEF Spec

\* The key session and the state lock outlive every task, whether run() ended by
\* a shutdown, by the expiry or with an error of the listener.
THEOREM KeyIsReleasedLast == Spec => []KeyOutlivesTasks
PROOF
  <1>1. Inv => KeyOutlivesTasks
    BY DEF Inv, Staged, KeyOutlivesTasks
  <1> QED BY InitInv, NextInv, <1>1, PTL DEF Spec

\* A drain whose length covers a handshake and a write aborts none that still
\* had time, and no answer that began while it lasted.
THEOREM DrainIsLongEnough == Spec => CutOnlyOverdue
PROOF
  <1>1. Inv /\ [Next]_vars =>
          [phase = "draining" /\ phase' = "aborting" /\ drain < Expiry =>
             \A c \in Conns :
               conn[c] \in {"handshake", "finishing", "reading", "writing"} => due[c] <= now]_vars
    <2> SUFFICES ASSUME Inv, Next, phase = "draining", phase' = "aborting", drain < Expiry,
                        NEW c \in Conns,
                        conn[c] \in {"handshake", "finishing", "reading", "writing"}
                 PROVE  due[c] <= now
      OBVIOUS
    <2>1. now >= drain
      BY DEF Next, Tick, Main, CtrlC, AcceptFails, Admit, Client, Task, Sign, Signed, Finish,
             Answer, Answered, Close, Fail, TimeOut, End, To, Start, Expire, EndDrain, Join,
             Release, Loop
    <2> QED BY <2>1, TimesAreNaturals DEF Inv, TypeOK, Timely
  <1> QED BY InitInv, NextInv, <1>1, PTL DEF Spec, CutOnlyOverdue
=============================================================================
