-------------------------------- MODULE MCNet --------------------------------
(***************************************************************************)
(* The networking libraries for TLC: connecting (NetConnect), waiting for  *)
(* events (Poll) and for signals (Signals).  They share nothing, so a      *)
(* behaviour is about one of them: which names it, the others keep their   *)
(* initial state.  The state space is the sum, not the product, of theirs. *)
(***************************************************************************)
EXTENDS MCNetConnect, Poll, Signals

MCSig == {1, 2}

VARIABLE which

MCInit ==
  /\ which \in {"connect", "poll", "signals"}
  /\ ConnectInit
  /\ PollInit /\ (which # "poll" => api = "epoll")
  /\ SigInit /\ (which # "signals" => mode = "hook")

MCNext ==
  /\ UNCHANGED which
  /\ \/ which = "connect" /\ ConnectNext /\ UNCHANGED <<pollVars, sigVars>>
     \/ which = "poll" /\ PollNext /\ UNCHANGED <<connectVars, sigVars>>
     \/ which = "signals" /\ SigNext /\ UNCHANGED <<connectVars, pollVars>>

MCSpec == MCInit /\ [][MCNext]_<<which, connectVars, pollVars, sigVars>>
=============================================================================
