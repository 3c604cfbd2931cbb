----------------------------- MODULE RemoteCalls ------------------------------
(* What the callers of AMIClient.send_action may rely on, without threads, *)
(* sockets or waiters. An action is performed at most once. One that was   *)
(* refused never reaches Asterisk. A call that ends "unknown" leaves it    *)
(* open, and Asterisk may still perform the action. A call that returns a  *)
(* reply tells what Asterisk did with its action, unless the writing of    *)
(* an earlier action failed half way: Asterisk reads the two as one and    *)
(* performs one of them at most, and the reply may tell of the torn one.   *)
CONSTANTS Ids          (* actions, named by their ActionID *)

VARIABLES
  performed,           (* what Asterisk did with each action *)
  readAs,              (* the action that Asterisk read each one as *)
  torn,                (* the actions that were written in part *)
  answer               (* what the caller of each action knows *)

remote == <<performed, readAs, torn, answer>>

Verdicts == {"Success", "Error"}

RemoteInit ==
  /\ performed = [i \in Ids |-> "none"] /\ readAs = [i \in Ids |-> i]
  /\ torn = {}
  /\ answer = [i \in Ids |-> "none"]

Unread(i) == performed[i] = "none" /\ readAs[i] = i

Ask(i) ==
  /\ answer[i] = "none"
  /\ answer' = [answer EXCEPT ![i] = "asked"]
  /\ UNCHANGED <<performed, readAs, torn>>

Tear(i) ==
  /\ answer[i] = "asked" /\ i \notin torn /\ Unread(i)
  /\ torn' = torn \cup {i}
  /\ UNCHANGED <<performed, readAs, answer>>

(* Asterisk reads i, and with it the torn actions before: it performs k.   *)
Perform(i, before, k, v) ==
  /\ answer[i] \in {"asked", "unknown"} /\ i \notin torn
  /\ before \subseteq torn /\ k \in before \cup {i}
  /\ \A j \in before \cup {i} : Unread(j)
  /\ performed' = [performed EXCEPT ![k] = v]
  /\ readAs' = [j \in Ids |-> IF j \in before \cup {i} THEN k ELSE readAs[j]]
  /\ UNCHANGED <<torn, answer>>

Reply(i) ==
  /\ answer[i] = "asked" /\ i \notin torn
  /\ performed[readAs[i]] # "none"
  /\ answer' = [answer EXCEPT ![i] = performed[readAs[i]]]
  /\ UNCHANGED <<performed, readAs, torn>>

GiveUp(i) ==
  /\ answer[i] = "asked"
  /\ answer' = [answer EXCEPT ![i] = "unknown"]
  /\ UNCHANGED <<performed, readAs, torn>>

Refuse(i) ==
  /\ answer[i] = "asked" /\ i \notin torn /\ Unread(i)
  /\ answer' = [answer EXCEPT ![i] = "refused"]
  /\ UNCHANGED <<performed, readAs, torn>>

RemoteNext ==
  \E i \in Ids :
    \/ Ask(i) \/ Tear(i) \/ Reply(i) \/ GiveUp(i) \/ Refuse(i)
    \/ \E before \in SUBSET torn : \E k \in before \cup {i}, v \in Verdicts :
         Perform(i, before, k, v)

RemoteSpec == RemoteInit /\ [][RemoteNext]_remote
===============================================================================
