----------------------------- MODULE SocketGroup ----------------------------
(***************************************************************************)
(* What a reuseport group promises to the sockets in it and to the packets *)
(* that carry a udpgrm cookie, that is, the number of a row and of a slot: *)
(*   - new flows are spread over the slots of a row, and each of them has  *)
(*     been given to a socket;                                             *)
(*   - a socket has its slot until it is closed, and is never brought back *)
(*     afterwards; only then may the slot go to another socket;            *)
(*   - a row grows by one slot at a time and shrinks only by closed ones.  *)
(* How registrations travel over the ring and what the daemon does for one *)
(* is left to Registration.                                                *)
(***************************************************************************)
EXTENDS Naturals, Sequences

CONSTANTS Sockets, Closed, Rows, MaxLen

VARIABLES
  rows,                \* row -> slots: the socket, or Closed once it is closed
  closed               \* the sockets that were closed

groupVars == <<rows, closed>>

Init == rows = [g \in Rows |-> <<>>] /\ closed = {}

Join(g, x) ==
  /\ x \notin closed
  /\ \/ /\ Len(rows[g]) < MaxLen
        /\ rows' = [rows EXCEPT ![g] = Append(@, x)]
     \/ \E i \in DOMAIN rows[g] :
          /\ rows[g][i] = Closed
          /\ rows' = [rows EXCEPT ![g][i] = x]
  /\ UNCHANGED closed

\* One close, or the exit of a process that has several sockets.
Leave(S) ==
  /\ closed' = closed \cup S
  /\ rows' = [g \in Rows |->
                [i \in DOMAIN rows[g] |->
                   IF rows[g][i] \in S THEN Closed ELSE rows[g][i]]]

Shrink(g) ==
  \E n \in 0 .. Len(rows[g]) :
    /\ \A i \in n + 1 .. Len(rows[g]) : rows[g][i] = Closed
    /\ rows' = [rows EXCEPT ![g] = SubSeq(@, 1, n)]
    /\ UNCHANGED closed

Next ==
  \/ \E g \in Rows : Shrink(g) \/ \E x \in Sockets : Join(g, x)
  \/ \E S \in SUBSET Sockets : Leave(S)

Spec == Init /\ [][Next]_groupVars
=============================================================================
