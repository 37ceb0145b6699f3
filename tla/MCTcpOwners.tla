----------------------------- MODULE MCTcpOwners -----------------------------
(* TcpServer under two kinds of owners, of which a behaviour follows one:  *)
(* those that want to know of the ends of connections, with two places in  *)
(* the table, and those that want to know of broken links and of data,     *)
(* with one.                                                               *)
EXTENDS MCTcpServer

VARIABLE interest

Registered == [ends |-> {"disconnect"}, data |-> {"reconnect", "recv"}]
Places     == [ends |-> 2, data |-> 1]

(* Bound: nothing else is registered, and no more sessions are made.       *)
Within ==
  /\ Cardinality(SessionIds) <= Places[interest]
  /\ \A p \in Peers : reg[p] \subseteq Registered[interest]
  /\ \A i \in SessionIds, k \in Kinds :
       table[i].listener[k] # NoOwner => k \in Registered[interest]

OwnersInit == Init /\ interest \in {"ends", "data"}

OwnersSpec ==
  /\ OwnersInit
  /\ [][Next /\ UNCHANGED interest /\ Within']_<<vars, interest>>
==============================================================================
