--------------------------- MODULE MCTransaction ---------------------------
(***************************************************************************)
(* Instances of DriverTransaction for TLC: which messages exist, who asks  *)
(* for them, and for which node.                                           *)
(***************************************************************************)
EXTENDS DriverTransaction, TLC
CONSTANTS n1, n2, s1, s2, ctl, m1, m2, m3, m4, m5, app, timer, main

SendQueue == MsgQueue_Send

(* Two listening nodes and messages of three kinds; one application thread. *)
ListeningMsgs == {m1, m2, m3}
ListeningTarget == m1 :> n1 @@ m2 :> n2 @@ m3 :> ctl
ListeningKind == m1 :> "Get" @@ m2 :> "Set" @@ m3 :> "Command"
ListeningContent == m1 :> 1 @@ m2 :> 2 @@ m3 :> 3
ListeningQueue == m1 :> SendQueue @@ m2 :> SendQueue @@ m3 :> MsgQueue_Command
ListeningCaller == m1 :> app @@ m2 :> app @@ m3 :> main

(***************************************************************************)
(* Two sleeping nodes. One is sent the same command twice, by an           *)
(* application thread and by the driver thread, and put to sleep when its  *)
(* queue is empty; the other is put to sleep by the timer.                 *)
(***************************************************************************)
SleepingMsgs == {m1, m2, m4, m5}
SleepingTarget == m1 :> s1 @@ m2 :> s1 @@ m4 :> s1 @@ m5 :> s2
SleepingKind == m1 :> "Get" @@ m2 :> "Get" @@ m4 :> "NMI" @@ m5 :> "NMI"
SleepingContent == m1 :> 1 @@ m2 :> 1 @@ m4 :> 3 @@ m5 :> 4
SleepingQueue ==
    m1 :> SendQueue @@ m2 :> SendQueue @@ m4 :> MsgQueue_WakeUp
      @@ m5 :> MsgQueue_WakeUp
SleepingCaller == m1 :> app @@ m2 :> main @@ m4 :> main @@ m5 :> timer

(***************************************************************************)
(* A sleeping node that an application thread and the driver thread send   *)
(* to, and that a timer sends back to sleep, and the controller itself.    *)
(***************************************************************************)
ThreadsMsgs == {m1, m2, m3, m4}
ThreadsTarget == m1 :> s1 @@ m2 :> s1 @@ m3 :> ctl @@ m4 :> s1
ThreadsKind == m1 :> "Set" @@ m2 :> "Set" @@ m3 :> "Function" @@ m4 :> "NMI"
ThreadsContent == m1 :> 1 @@ m2 :> 1 @@ m3 :> 3 @@ m4 :> 4
ThreadsQueue ==
    m1 :> SendQueue @@ m2 :> SendQueue @@ m3 :> SendQueue @@ m4 :> MsgQueue_WakeUp
ThreadsCaller == m1 :> app @@ m2 :> main @@ m3 :> main @@ m4 :> timer

(* A node that encrypts, one that does not; both listen. *)
SecureMsgs == {m1, m2}
SecureTarget == m1 :> n1 @@ m2 :> n2
SecureKind == m1 :> "Get" @@ m2 :> "Set"
SecureContent == m1 :> 1 @@ m2 :> 2
SecureQueue == m1 :> SendQueue @@ m2 :> SendQueue
SecureCaller == m1 :> main @@ m2 :> app
=============================================================================
